---------------------------- MODULE EthMacProofs ----------------------------
(***************************************************************************)
(* Proofs about the Ethernet driver, for every ring size and every bound.   *)
(* First what holds in every environment (types, and that RemainCout never  *)
(* runs ahead of the ring), then what the ring guarantees when interrupts   *)
(* come in time, that it implements FrameQueue, and the transmit handshake. *)
(***************************************************************************)
EXTENDS EthMac, SequenceTheorems, TLAPS

\* index++ with the wrap test of ETHRecX and ETH_IRQHandler stays in the ring.
LEMMA NextIndexType == \A i \in Slots : NextIndex(i) \in Slots
BY RingAssumption DEF NextIndex, Slots

SafeInv == TypeOK /\ CountInv

\* The ring starts empty and well typed.
LEMMA SafeInit == Init => SafeInv
BY RingAssumption DEF Init, SafeInv, TypeOK, CountInv, Count, Between, Slots,
   NoSlot, Flags, Frames, Torn

\* Every step of hardware, handler and main loop keeps the types and keeps
\* RemainCout at or below the number of frames in the ring.
LEMMA SafeStep == SafeInv /\ [Next]_vars => SafeInv'
<1> SUFFICES ASSUME SafeInv, [Next]_vars PROVE SafeInv'
  OBVIOUS
<1> USE RingAssumption, NextIndexType DEF SafeInv, TypeOK, CountInv, Count,
        Between, Slots, NoSlot, Flags, Frames, Torn, hwRx, hwTx, ring, isrPriv,
        rxMain, txMain, rxRest, txRest
<1>1. CASE FrameStart
  BY <1>1 DEF FrameStart
<1>2. CASE FrameEnd
  <2>1. nxt' \in Frames
    BY <1>2 DEF FrameEnd
  <2>2. buf' \in [Slots -> Nat] /\ erxln' \in Nat /\ eir' \in SUBSET Flags
    BY <1>2 DEF FrameEnd
  <2>3. TypeOK'
    BY <1>2, <2>1, <2>2 DEF FrameEnd
  <2>4. CountInv'
    BY <1>2 DEF FrameEnd
  <2> QED
    BY <2>3, <2>4
<1>3. CASE FrameBad
  <2>1. nxt' \in Frames
    BY <1>3 DEF FrameBad
  <2>2. TypeOK'
    BY <1>3, <2>1 DEF FrameBad
  <2>3. CountInv'
    BY <1>3 DEF FrameBad
  <2> QED
    BY <2>2, <2>3
<1>4. CASE LinkChange
  <2>1. links' \in Nat
    BY <1>4 DEF LinkChange
  <2>2. TypeOK'
    BY <1>4, <2>1 DEF LinkChange
  <2>3. CountInv'
    BY <1>4 DEF LinkChange
  <2> QED
    BY <2>2, <2>3
<1>5. CASE TxDone
  BY <1>5 DEF TxDone
<1>6. CASE TxFailed
  BY <1>6 DEF TxFailed
<1>7. CASE IsrEnter
  BY <1>7 DEF IsrEnter
<1>8. CASE IsrReadLen
  BY <1>8 DEF IsrReadLen
<1>9. CASE IsrQueue
  <2>1. RecvIndex' \in Slots /\ erxst' \in Slots
    BY <1>9 DEF IsrQueue, HasRoom
  <2>2. /\ RemainCout' \in 0 .. RX_QUEUE_NUM - 1
        /\ backlog' \in Nat
        /\ RemainCout' >= RemainCout
        /\ \/ RemainCout' = RemainCout + 1 /\ backlog' = backlog + 1
           \/ RemainCout' = RemainCout /\ backlog' = backlog
    <3>1. CASE RemainCout < RX_QUEUE_NUM - 1
      BY <1>9, <3>1 DEF IsrQueue, HasRoom
    <3>2. CASE ~(RemainCout < RX_QUEUE_NUM - 1)
      BY <1>9, <3>2 DEF IsrQueue, HasRoom
    <3> QED
      BY <3>1, <3>2
  <2>3. RxBufLen' \in [Slots -> Nat]
    BY <1>9 DEF IsrQueue, HasRoom
  <2>4. TypeOK'
    BY <1>9, <2>1, <2>2, <2>3 DEF IsrQueue, HasRoom
  <2>5. CountInv'
    <3>1. reg' = reg /\ pc' = pc
      BY <1>9 DEF IsrQueue, HasRoom
    <3>2. Count' <= backlog'
      <4>1. CASE RemainCout' = RemainCout + 1 /\ backlog' = backlog + 1
        BY <3>1, <4>1
      <4>2. CASE RemainCout' = RemainCout /\ backlog' = backlog
        BY <3>1, <4>2
      <4> QED
        BY <2>2, <4>1, <4>2
    <3>3. pc' \in {"alloc", "rec", "copy", "load", "store"} => RemainCout' > 0
      BY <3>1, <2>2
    <3>4. pc' = "store" => reg' > 0 /\ reg' <= RemainCout'
      BY <3>1, <2>2
    <3> QED
      BY <3>2, <3>3, <3>4 DEF CountInv
  <2> QED
    BY <2>4, <2>5
<1>10. CASE IsrAckRx
  BY <1>10 DEF IsrAckRx
<1>11. CASE IsrRest
  BY <1>11 DEF IsrRest
<1>12. CASE GetRecvMacDataLen
  BY <1>12 DEF GetRecvMacDataLen, Run
<1>13. CASE PbufAlloc
  BY <1>13 DEF PbufAlloc, Run
<1>14. CASE EthRecX
  BY <1>14 DEF EthRecX, Run
<1>15. CASE EthRecXCopied
  <2>1. backlog' \in Nat
    BY <1>15 DEF EthRecXCopied, FinishCopy, Run
  <2>2. ReadIndex' \in Slots
    BY <1>15 DEF EthRecXCopied, FinishCopy, Run
  <2>3. last' \in [data : Nat, size : Nat, len : Nat]
    BY <1>15 DEF EthRecXCopied, FinishCopy, Run
  <2>4. TypeOK'
    BY <1>15, <2>1, <2>2, <2>3 DEF EthRecXCopied, FinishCopy, Run
  <2>5. CountInv'
    BY <1>15 DEF EthRecXCopied, FinishCopy, Run
  <2> QED
    BY <2>4, <2>5
<1>16. CASE LoadRemainCout
  <2>1. TypeOK'
    BY <1>16 DEF LoadRemainCout, Run
  <2>2. CountInv'
    BY <1>16 DEF LoadRemainCout, Run
  <2> QED
    BY <2>1, <2>2
<1>17. CASE StoreRemainCout
  <2>1. TypeOK'
    BY <1>17 DEF StoreRemainCout, Store, Run
  <2>2. CountInv'
    BY <1>17 DEF StoreRemainCout, Store, Run
  <2> QED
    BY <2>1, <2>2
<1>18. CASE PbufAllocFail
  BY <1>18 DEF PbufAllocFail, Run
<1>19. CASE SendCall
  <2>1. sends' \in Nat
    BY <1>19 DEF SendCall, Run
  <2>2. TypeOK'
    BY <1>19, <2>1 DEF SendCall, Run
  <2>3. CountInv'
    BY <1>19 DEF SendCall, Run
  <2> QED
    BY <2>2, <2>3
<1>20. CASE SendSpin
  BY <1>20 DEF SendSpin, vars
<1>21. CASE SendTooLong
  BY <1>21 DEF SendTooLong, Run
<1>22. CASE SendCopy
  BY <1>22 DEF SendCopy, Run
<1>23. CASE SendClear
  BY <1>23 DEF SendClear, Run
<1>24. CASE SendStart
  BY <1>24 DEF SendStart, Run
<1>25. CASE Quiet \/ UNCHANGED vars
  BY <1>25 DEF Quiet, vars
<1> QED
  BY <1>1, <1>2, <1>3, <1>4, <1>5, <1>6, <1>7, <1>8, <1>9, <1>10, <1>11, <1>12,
     <1>13, <1>14, <1>15, <1>16, <1>17, <1>18, <1>19, <1>20, <1>21, <1>22, <1>23,
     <1>24, <1>25
  DEF Next, Hardware, Isr, Main, RxStep, TxStep

\* The driver's state keeps its types whatever the timing of frames and
\* interrupts: indices stay in the ring and RemainCout below RX_QUEUE_NUM.
THEOREM TypeCorrect == Spec => []TypeOK
<1>1. Spec => []SafeInv
  BY SafeInit, SafeStep, PTL DEF Spec
<1> QED
  BY <1>1, PTL DEF SafeInv

\* RemainCout never runs ahead of the ring and never wraps below zero, even
\* when interrupts fall inside RemainCout-- or come late.
THEOREM CountSafe == Spec => []CountNeverAhead
<1>1. Spec => []SafeInv
  BY SafeInit, SafeStep, PTL DEF Spec
<1>2. SafeInv => CountNeverAhead
  BY DEF SafeInv, CountInv, CountNeverAhead, Between
<1> QED
  BY <1>1, <1>2, PTL

-----------------------------------------------------------------------------
(* The ring when interrupts come in time.                                  *)

\* Places in the ring: distinct offsets are distinct slots, and moving an
\* index with the wrap test moves its place by one.
LEMMA RingPosFacts ==
  /\ \A i, k \in Slots : RingPos(i, k) \in Slots
  /\ \A i, j, k \in Slots : RingPos(i, j) = RingPos(i, k) => j = k
  /\ \A i \in Slots : RingPos(i, 0) = i
  /\ \A i, k \in Slots : k + 1 \in Slots =>
       /\ RingPos(NextIndex(i), k) = RingPos(i, k + 1)
       /\ NextIndex(RingPos(i, k)) = RingPos(i, k + 1)
BY RingAssumption DEF RingPos, Slots, NextIndex

\* The number of frames in the ring fits the ring.
LEMMA CountType == SafeInv => Count \in 0 .. RX_QUEUE_NUM - 1
BY RingAssumption DEF SafeInv, TypeOK, CountInv, Count, Between

\* The empty ring.
LEMMA RingInit == Init => RingInv
<1> SUFFICES ASSUME Init PROVE RingInv
  OBVIOUS
<1>1. Count = 0 /\ SlotAt(0) = 0
  BY RingAssumption, RingPosFacts DEF Init, Count, Between, SlotAt, Slots
<1> QED
  BY <1>1, RingAssumption DEF Init, RingInv, IndexInv, HandlerInv, QueueInv,
     ReaderInv, Older, Waiting, DeliveredWhole, Torn, NoSlot

\* What RingInv speaks of, besides the main loop's place and its locals.
RingSame == UNCHANGED <<buf, erxst, erxln, dma, nxt, RecvIndex, ReadIndex,
                        RemainCout, RxBufLen, reg, last, rec_len, isr>>

\* Steps that have nothing to do with reception keep the ring's invariant.
LEMMA RingAside ==
  ASSUME RingInv, RingSame, "RXIF" \in eir' <=> "RXIF" \in eir,
         \/ UNCHANGED <<pc, len, got>>
         \/ /\ pc \notin {"load", "store"}
            /\ pc' \in {"loop", "txwait", "txgo", "txrts"}
  PROVE  RingInv'
<1>1. Count' = Count /\ \A k : SlotAt(k)' = SlotAt(k)
  BY DEF RingSame, Count, Between, SlotAt
<1>2. IndexInv'
  BY <1>1 DEF RingSame, RingInv, IndexInv
<1>3. HandlerInv'
  BY DEF RingSame, RingInv, HandlerInv, Waiting
<1>4. QueueInv'
  BY <1>1 DEF RingSame, RingInv, QueueInv, Older, Waiting
<1>5. ReaderInv'
  BY DEF RingSame, RingInv, ReaderInv, DeliveredWhole
<1> QED
  BY <1>2, <1>3, <1>4, <1>5 DEF RingInv

\* Every step of hardware, handler and main loop keeps the ring a queue.
LEMMA RingStep ==
  ASSUME InTime, SafeInv, SafeInv', RingInv, [Next]_vars PROVE RingInv'
<1> USE RingAssumption DEF hwRx, hwTx, ring, isrPriv, rxMain, txMain, rxRest, txRest
<1>c. Count \in Slots /\ Count' \in Slots
  <2>1. Count \in Slots
    BY CountType DEF Slots
  <2>2. Count' \in Slots
    <3>1. RemainCout' \in 0 .. RX_QUEUE_NUM - 1 /\ (Between' => RemainCout' > 0)
      BY DEF SafeInv, TypeOK, CountInv, Between
    <3>2. CASE Between'
      <4>1. \A r \in 0 .. RX_QUEUE_NUM - 1 : r > 0 => r - 1 \in Slots
        BY DEF Slots
      <4> QED
        BY <3>1, <3>2, <4>1 DEF Count
    <3>3. CASE ~Between'
      BY <3>1, <3>3 DEF Count, Slots
    <3> QED
      BY <3>2, <3>3
  <2> QED
    BY <2>1, <2>2
<1>q. /\ RecvIndex = SlotAt(Count) /\ RecvIndex \in Slots /\ ReadIndex \in Slots
      /\ \A k \in 0 .. Count - 1 : SlotAt(k) \in Slots \ {RecvIndex}
  <2>1. RecvIndex = SlotAt(Count) /\ RecvIndex \in Slots /\ ReadIndex \in Slots
    BY DEF RingInv, IndexInv, SafeInv, TypeOK
  <2>2. ASSUME NEW k \in 0 .. Count - 1 PROVE SlotAt(k) \in Slots \ {RecvIndex}
    <3>1. k \in Slots /\ k # Count
      BY <1>c DEF Slots
    <3> QED
      BY <3>1, <2>1, <1>c, RingPosFacts DEF SlotAt
  <2> QED
    BY <2>1, <2>2
<1>r. pc \in {"alloc", "rec", "copy"} => ReadIndex # RecvIndex /\ Count > 0
  <2>1. SlotAt(0) = ReadIndex
    BY <1>q, RingPosFacts DEF SlotAt
  <2>2. pc \in {"alloc", "rec", "copy"} => 0 \in 0 .. Count - 1
    BY DEF SafeInv, TypeOK, CountInv, Count, Between
  <2> QED
    BY <1>c, <1>q, <2>1, <2>2 DEF Slots
<1>t. ~Allowed("late_isr") /\ ~Allowed("split_decrement")
  BY DEF InTime, Allowed
<1>1. CASE FrameStart
  <2>1. /\ UNCHANGED <<erxst, nxt, eir, isr, RecvIndex, ReadIndex, RemainCout,
                       RxBufLen, pc, reg, len, got, last, rec_len, erxln>>
        /\ dma' = RecvIndex /\ "RXIF" \notin eir
        /\ buf' = [buf EXCEPT ![RecvIndex] = Torn]
    BY <1>1, <1>t DEF FrameStart, RingInv, IndexInv, ring, rxMain, isrPriv
  <2>2. Count' = Count /\ \A k : SlotAt(k)' = SlotAt(k)
    BY <2>1 DEF Count, Between, SlotAt
  <2>3. \A s \in Slots \ {RecvIndex} : buf'[s] = buf[s]
    BY <2>1 DEF SafeInv, TypeOK
  <2>4. IndexInv'
    BY <2>1, <2>2 DEF RingInv, IndexInv
  <2>5. HandlerInv'
    BY <2>1 DEF RingInv, HandlerInv, Waiting
  <2>6. QueueInv'
    BY <1>q, <2>1, <2>2, <2>3 DEF RingInv, QueueInv, Older, Waiting
  <2>7. ReaderInv'
    BY <1>q, <1>r, <2>1, <2>3 DEF RingInv, ReaderInv, DeliveredWhole
  <2> QED
    BY <2>4, <2>5, <2>6, <2>7 DEF RingInv
<1>2. CASE FrameEnd
  <2>1. /\ UNCHANGED <<erxst, isr, RecvIndex, ReadIndex, RemainCout,
                       RxBufLen, pc, reg, len, got, last, rec_len>>
        /\ dma = RecvIndex /\ dma' = NoSlot /\ "RXIF" \notin eir
        /\ isr \notin {"rx", "queue", "ack"}
        /\ eir' = eir \cup {"RXIF"} /\ erxln' = nxt /\ nxt' = nxt + 1
        /\ buf' = [buf EXCEPT ![RecvIndex] = nxt]
    BY <1>2 DEF FrameEnd, RingInv, HandlerInv, ring, rxMain, isrPriv
  <2>2. Count' = Count /\ \A k : SlotAt(k)' = SlotAt(k)
    BY <2>1 DEF Count, Between, SlotAt
  <2>3. /\ buf'[RecvIndex] = nxt /\ nxt' - 1 = nxt /\ nxt > 0
        /\ \A s \in Slots \ {RecvIndex} : buf'[s] = buf[s]
    BY <1>q, <2>1 DEF SafeInv, TypeOK, Frames, Torn
  <2>4. IndexInv'
    BY <2>1, <2>2 DEF RingInv, IndexInv
  <2>5. HandlerInv'
    <3>1. nxt' > 1
      BY <2>1 DEF SafeInv, TypeOK, Frames, Torn
    <3> QED
      BY <2>1, <2>3, <3>1 DEF RingInv, HandlerInv, Waiting
  <2>6. Older(nxt)'
    <3>1. last'.data < nxt'
      BY <2>1 DEF RingInv, QueueInv, Older, SafeInv, TypeOK, Frames
    <3>2. ASSUME NEW k \in 0 .. Count - 1 PROVE buf'[SlotAt(k)] < nxt'
      <4>1. buf'[SlotAt(k)] = buf[SlotAt(k)] /\ buf[SlotAt(k)] \in Nat
        BY <1>q, <2>3 DEF SafeInv, TypeOK
      <4>2. buf[SlotAt(k)] < nxt
        BY DEF RingInv, QueueInv, Older
      <4> QED
        BY <2>1, <4>1, <4>2 DEF SafeInv, TypeOK, Frames
    <3> QED
      BY <2>2, <3>1, <3>2 DEF Older
  <2>7. Older(nxt - 1)'
    BY <1>q, <2>1, <2>2, <2>3 DEF RingInv, QueueInv, Older
  <2>8. QueueInv'
    BY <1>q, <2>1, <2>2, <2>3, <2>6, <2>7 DEF RingInv, QueueInv
  <2>9. ReaderInv'
    BY <1>q, <1>r, <2>1, <2>3 DEF RingInv, ReaderInv, DeliveredWhole
  <2> QED
    BY <2>4, <2>5, <2>8, <2>9 DEF RingInv
<1>3. CASE FrameBad
  <2>1. /\ UNCHANGED <<buf, erxst, isr, RecvIndex, ReadIndex, RemainCout,
                       RxBufLen, pc, reg, len, got, last, rec_len, erxln>>
        /\ dma' = NoSlot /\ nxt' = nxt + 1
        /\ "RXIF" \notin eir /\ "RXIF" \notin eir'
    BY <1>3 DEF FrameBad, RingInv, HandlerInv, ring, rxMain, isrPriv
  <2>2. Count' = Count /\ \A k : SlotAt(k)' = SlotAt(k)
    BY <2>1 DEF Count, Between, SlotAt
  <2>3. Older(nxt)'
    <3>1. last'.data < nxt'
      BY <2>1 DEF RingInv, QueueInv, Older, SafeInv, TypeOK, Frames
    <3>2. ASSUME NEW k \in 0 .. Count - 1 PROVE buf'[SlotAt(k)] < nxt'
      <4>1. buf[SlotAt(k)] < nxt /\ buf[SlotAt(k)] \in Nat
        BY <1>q DEF RingInv, QueueInv, Older, SafeInv, TypeOK
      <4> QED
        BY <2>1, <4>1 DEF SafeInv, TypeOK, Frames
    <3> QED
      BY <2>2, <3>1, <3>2 DEF Older
  <2>4. IndexInv' /\ HandlerInv' /\ ReaderInv'
    BY <2>1, <2>2
    DEF RingInv, IndexInv, HandlerInv, Waiting, ReaderInv, DeliveredWhole
  <2>5. QueueInv'
    BY <2>1, <2>2, <2>3 DEF RingInv, QueueInv, Waiting
  <2> QED
    BY <2>4, <2>5 DEF RingInv
<1>4. CASE IsrEnter
  <2>0. Count' = Count
    BY <1>4, <1>t DEF IsrEnter, Count, Between, SafeInv, CountInv, RingInv, IndexInv
  <2>1. IndexInv'
    BY <1>4, <2>0, <1>c, <1>t DEF IsrEnter, RingInv, IndexInv, SlotAt, SafeInv,
       TypeOK
  <2>2. HandlerInv'
    BY <1>4, <2>0, <1>c, <1>t DEF IsrEnter, RingInv, HandlerInv, Waiting,
       IndexInv, SafeInv, TypeOK
  <2>3. QueueInv'
    BY <1>4, <2>0, <1>c, <1>t DEF IsrEnter, RingInv, QueueInv, Older, Waiting,
       SlotAt, SafeInv, TypeOK
  <2>4. ReaderInv'
    BY <1>4, <2>0, <1>c, <1>t DEF IsrEnter, RingInv, ReaderInv, DeliveredWhole,
       SafeInv, TypeOK
  <2> QED
    BY <2>1, <2>2, <2>3, <2>4 DEF RingInv
<1>5. CASE IsrReadLen
  <2>0. Count' = Count
    BY <1>5 DEF IsrReadLen, Count, Between, SafeInv, CountInv, RingInv, IndexInv
  <2>1. IndexInv'
    BY <1>5, <2>0, <1>c, <1>t DEF IsrReadLen, RingInv, IndexInv, SlotAt, SafeInv,
       TypeOK
  <2>2. HandlerInv'
    BY <1>5, <2>0, <1>c, <1>t DEF IsrReadLen, RingInv, HandlerInv, Waiting,
       IndexInv, SafeInv, TypeOK
  <2>3. QueueInv'
    BY <1>5, <2>0, <1>c, <1>t DEF IsrReadLen, RingInv, QueueInv, Older, Waiting,
       SlotAt, SafeInv, TypeOK
  <2>4. ReaderInv'
    BY <1>5, <2>0, <1>c, <1>t DEF IsrReadLen, RingInv, ReaderInv, DeliveredWhole,
       SafeInv, TypeOK
  <2> QED
    BY <2>1, <2>2, <2>3, <2>4 DEF RingInv
<1>6. CASE IsrQueue
  <2>1. /\ "RXIF" \in eir /\ Waiting /\ pc # "store"
        /\ rec_len = nxt - 1 /\ buf[RecvIndex] = nxt - 1
        /\ Older(nxt - 1) /\ dma = NoSlot
    BY <1>6 DEF IsrQueue, HasRoom, RingInv, IndexInv, HandlerInv, QueueInv, Waiting
  <2>3. /\ UNCHANGED <<buf, dma, nxt, eir, ReadIndex, pc, len, got, last, reg, erxln>>
        /\ RxBufLen' = [RxBufLen EXCEPT ![RecvIndex] = rec_len]
        /\ isr' = "ack" /\ \A k : SlotAt(k)' = SlotAt(k)
    BY <1>6 DEF IsrQueue, HasRoom, SlotAt, hwRx, rxMain
  <2>4. /\ RxBufLen'[RecvIndex] = nxt - 1
        /\ \A k \in 0 .. Count - 1 : RxBufLen'[SlotAt(k)] = RxBufLen[SlotAt(k)]
    BY <2>1, <1>q, <2>3 DEF SafeInv, TypeOK
  <2>5. HandlerInv'
    BY <2>1, <2>3 DEF HandlerInv, Waiting
  <2>6. ReaderInv'
    BY <1>q, <1>r, <2>3 DEF RingInv, ReaderInv, DeliveredWhole, SafeInv, TypeOK
  <2>7. CASE RemainCout < RX_QUEUE_NUM - 1
    <3>1. Count' = Count + 1
      BY <1>6, <2>3, <2>7 DEF IsrQueue, HasRoom, Count, Between, SafeInv, TypeOK
    <3>2. IndexInv'
      BY <1>6, <1>c, <2>1, <1>q, <2>3, <2>7, <3>1, RingPosFacts
      DEF IsrQueue, HasRoom, IndexInv, SlotAt, SafeInv, TypeOK
    <3>3. \A k \in 0 .. Count' - 1 : k \in 0 .. Count - 1 \/ k = Count
      BY <1>c, <3>1 DEF Slots
    <3>4. nxt - 1 < nxt /\ ~Waiting'
      BY <2>3 DEF Waiting, SafeInv, TypeOK, Frames
    <3>5. Older(nxt)'
      BY <1>q, <2>1, <2>3, <3>3, <3>4 DEF RingInv, QueueInv, Older
    <3>6. ASSUME NEW k \in 0 .. Count' - 1
          PROVE /\ buf[SlotAt(k)] = RxBufLen'[SlotAt(k)]
                /\ buf[SlotAt(k)] > last.data
                /\ \A j \in 0 .. Count' - 1 : j < k => buf[SlotAt(j)] < buf[SlotAt(k)]
      <4>1. CASE k \in 0 .. Count - 1
        <5>1. \A j \in 0 .. Count' - 1 : j < k => j \in 0 .. Count - 1
          BY <4>1, <1>c DEF Slots
        <5> QED
          BY <4>1, <5>1, <2>4 DEF RingInv, QueueInv
      <4>2. CASE k = Count
        <5>1. \A j \in 0 .. Count' - 1 : j < k => j \in 0 .. Count - 1
          BY <4>2, <1>c DEF Slots
        <5>2. buf[SlotAt(k)] = nxt - 1 /\ buf[SlotAt(k)] = RxBufLen'[SlotAt(k)]
          BY <4>2, <1>q, <2>1, <2>4
        <5>3. nxt - 1 > last.data
          BY <2>1 DEF Older, SafeInv, TypeOK, Frames
        <5> QED
          BY <5>1, <5>2, <5>3, <2>1 DEF Older
      <4> QED
        BY <3>3, <4>1, <4>2
    <3>7. QueueInv'
      BY <2>3, <3>4, <3>5, <3>6 DEF QueueInv
    <3> QED
      BY <2>5, <2>6, <3>2, <3>7 DEF RingInv
  <2>8. CASE ~(RemainCout < RX_QUEUE_NUM - 1)
    <3>1. Count' = Count
      BY <1>6, <2>3, <2>8 DEF IsrQueue, HasRoom, Count, Between
    <3>2. IndexInv'
      BY <1>6, <2>1, <2>3, <2>8, <3>1 DEF IsrQueue, HasRoom, RingInv, IndexInv
    <3>3. QueueInv'
      BY <2>3, <2>4, <3>1 DEF RingInv, QueueInv, Older, Waiting
    <3> QED
      BY <2>5, <2>6, <3>2, <3>3 DEF RingInv
  <2> QED
    BY <2>7, <2>8
<1>7. CASE IsrAckRx
  <2>0. Count' = Count
    BY <1>7 DEF IsrAckRx, Count, Between, SafeInv, CountInv, RingInv, IndexInv
  <2>1. IndexInv'
    BY <1>7, <2>0, <1>c, <1>t DEF IsrAckRx, RingInv, IndexInv, SlotAt, SafeInv,
       TypeOK
  <2>2. HandlerInv'
    BY <1>7, <2>0, <1>c, <1>t DEF IsrAckRx, RingInv, HandlerInv, Waiting,
       IndexInv, SafeInv, TypeOK
  <2>3. QueueInv'
    BY <1>7, <2>0, <1>c, <1>t DEF IsrAckRx, RingInv, QueueInv, Older, Waiting,
       SlotAt, SafeInv, TypeOK
  <2>4. ReaderInv'
    BY <1>7, <2>0, <1>c, <1>t DEF IsrAckRx, RingInv, ReaderInv, DeliveredWhole,
       SafeInv, TypeOK
  <2> QED
    BY <2>1, <2>2, <2>3, <2>4 DEF RingInv
<1>8. CASE IsrRest
  <2>0. Count' = Count
    BY <1>8 DEF IsrRest, Count, Between, SafeInv, CountInv, RingInv, IndexInv
  <2>1. IndexInv'
    BY <1>8, <2>0, <1>c, <1>t DEF IsrRest, RingInv, IndexInv, SlotAt, SafeInv,
       TypeOK
  <2>2. HandlerInv'
    BY <1>8, <2>0, <1>c, <1>t DEF IsrRest, RingInv, HandlerInv, Waiting,
       IndexInv, SafeInv, TypeOK
  <2>3. QueueInv'
    BY <1>8, <2>0, <1>c, <1>t DEF IsrRest, RingInv, QueueInv, Older, Waiting,
       SlotAt, SafeInv, TypeOK
  <2>4. ReaderInv'
    BY <1>8, <2>0, <1>c, <1>t DEF IsrRest, RingInv, ReaderInv, DeliveredWhole,
       SafeInv, TypeOK
  <2> QED
    BY <2>1, <2>2, <2>3, <2>4 DEF RingInv
<1>9. CASE GetRecvMacDataLen
  <2>0. Count' = Count
    BY <1>9 DEF GetRecvMacDataLen, Run, Count, Between, SafeInv, CountInv,
       RingInv, IndexInv
  <2>1. IndexInv'
    BY <1>9, <2>0, <1>c, <1>t DEF GetRecvMacDataLen, Run, RingInv, IndexInv,
       SlotAt, SafeInv, TypeOK
  <2>2. HandlerInv'
    BY <1>9, <2>0, <1>c, <1>t DEF GetRecvMacDataLen, Run, RingInv, HandlerInv,
       Waiting, IndexInv, SafeInv, TypeOK
  <2>3. QueueInv'
    BY <1>9, <2>0, <1>c, <1>t DEF GetRecvMacDataLen, Run, RingInv, QueueInv,
       Older, Waiting, SlotAt, SafeInv, TypeOK
  <2>4. ReaderInv'
    BY <1>9, <2>0, <1>c, <1>t DEF GetRecvMacDataLen, Run, RingInv, ReaderInv,
       DeliveredWhole, SafeInv, TypeOK
  <2> QED
    BY <2>1, <2>2, <2>3, <2>4 DEF RingInv
<1>10. CASE PbufAlloc
  <2>0. Count' = Count
    BY <1>10 DEF PbufAlloc, Run, Count, Between, SafeInv, CountInv, RingInv,
       IndexInv
  <2>1. IndexInv'
    BY <1>10, <2>0, <1>c, <1>t DEF PbufAlloc, Run, RingInv, IndexInv, SlotAt,
       SafeInv, TypeOK
  <2>2. HandlerInv'
    BY <1>10, <2>0, <1>c, <1>t DEF PbufAlloc, Run, RingInv, HandlerInv, Waiting,
       IndexInv, SafeInv, TypeOK
  <2>3. QueueInv'
    BY <1>10, <2>0, <1>c, <1>t DEF PbufAlloc, Run, RingInv, QueueInv, Older,
       Waiting, SlotAt, SafeInv, TypeOK
  <2>4. ReaderInv'
    BY <1>10, <2>0, <1>c, <1>t DEF PbufAlloc, Run, RingInv, ReaderInv,
       DeliveredWhole, SafeInv, TypeOK
  <2> QED
    BY <2>1, <2>2, <2>3, <2>4 DEF RingInv
<1>11. CASE EthRecX
  <2>0. Count' = Count
    BY <1>11 DEF EthRecX, Run, Count, Between, SafeInv, CountInv, RingInv, IndexInv
  <2>1. IndexInv'
    BY <1>11, <2>0, <1>c, <1>t DEF EthRecX, Run, RingInv, IndexInv, SlotAt,
       SafeInv, TypeOK
  <2>2. HandlerInv'
    BY <1>11, <2>0, <1>c, <1>t DEF EthRecX, Run, RingInv, HandlerInv, Waiting,
       IndexInv, SafeInv, TypeOK
  <2>3. QueueInv'
    BY <1>11, <2>0, <1>c, <1>t DEF EthRecX, Run, RingInv, QueueInv, Older,
       Waiting, SlotAt, SafeInv, TypeOK
  <2>4. ReaderInv'
    BY <1>11, <1>r DEF Count, Between, EthRecX, Run, RingInv, ReaderInv,
       DeliveredWhole, SafeInv, TypeOK
  <2> QED
    BY <2>1, <2>2, <2>3, <2>4 DEF RingInv
<1>12. CASE EthRecXCopied
  <2>1. Count = RemainCout /\ Count > 0 /\ Count' = Count - 1
    BY <1>12 DEF EthRecXCopied, FinishCopy, Run, Count, Between, SafeInv, TypeOK,
       CountInv
  <2>2. /\ UNCHANGED <<buf, dma, nxt, eir, isr, erxst, erxln, rec_len, RecvIndex, RxBufLen>>
        /\ ReadIndex' = NextIndex(ReadIndex) /\ pc' = "load"
    BY <1>12 DEF EthRecXCopied, FinishCopy, Run, rxRest, hwRx, isrPriv
  <2>3. \A k \in 0 .. Count - 1 : SlotAt(k)' = SlotAt(k + 1)
    <3> SUFFICES ASSUME NEW k \in 0 .. Count - 1 PROVE SlotAt(k)' = SlotAt(k + 1)
      OBVIOUS
    <3>1. k \in Slots /\ k + 1 \in Slots
      BY <1>c DEF Slots
    <3> QED
      BY <3>1, <1>q, <2>2, RingPosFacts DEF SlotAt
  <2>4. SlotAt(0) = ReadIndex
    BY RingPosFacts DEF SlotAt, SafeInv, TypeOK
  <2>5. /\ last'.data = buf[SlotAt(0)]
        /\ last'.size = last'.data /\ last'.len = last'.data
    BY <1>12, <2>1, <2>4
    DEF EthRecXCopied, FinishCopy, Run, RingInv, ReaderInv, QueueInv, SafeInv, TypeOK
  <2>6. IndexInv'
    BY <1>c, <2>1, <2>2, <2>3 DEF RingInv, IndexInv
  <2>7. HandlerInv'
    BY <2>2 DEF RingInv, HandlerInv, Waiting
  <2>8. QueueInv'
    <3>1. \A k \in 0 .. Count' - 1 : k \in 0 .. Count - 1 /\ k + 1 \in 0 .. Count - 1
      BY <1>c, <2>1 DEF Slots
    <3>2. 0 \in 0 .. Count - 1
      BY <1>c, <2>1 DEF Slots
    <3>3. ASSUME NEW k \in 0 .. Count' - 1
          PROVE /\ buf[SlotAt(k + 1)] = RxBufLen[SlotAt(k + 1)]
                /\ buf[SlotAt(k + 1)] > last'.data
                /\ \A j \in 0 .. Count' - 1 :
                     j < k => buf[SlotAt(j + 1)] < buf[SlotAt(k + 1)]
      <4>1. k + 1 \in 0 .. Count - 1 /\ 0 < k + 1
        BY <3>1
      <4>2. buf[SlotAt(k + 1)] > last'.data
        BY <1>q, <2>5, <3>2, <4>1 DEF RingInv, QueueInv, SafeInv, TypeOK
      <4>3. ASSUME NEW j \in 0 .. Count' - 1, j < k
            PROVE buf[SlotAt(j + 1)] < buf[SlotAt(k + 1)]
        <5>1. j + 1 \in 0 .. Count - 1 /\ j + 1 < k + 1
          BY <3>1, <4>3
        <5> QED
          BY <4>1, <5>1 DEF RingInv, QueueInv
      <4> QED
        BY <4>1, <4>2, <4>3 DEF RingInv, QueueInv
    <3>4. \A f : Older(f) => Older(f)'
      BY <2>2, <2>3, <2>5, <3>1, <3>2 DEF Older
    <3>5. Older(nxt)' /\ (Waiting' => Older(nxt - 1)')
      BY <2>2, <3>4 DEF RingInv, QueueInv, Waiting
    <3> QED
      BY <2>2, <2>3, <3>1, <3>3, <3>5 DEF QueueInv
  <2>9. ReaderInv'
    BY <2>2, <2>5 DEF ReaderInv, DeliveredWhole
  <2> QED
    BY <2>6, <2>7, <2>8, <2>9 DEF RingInv
<1>13. CASE LoadRemainCout
  <2>0. Count' = Count
    BY <1>13 DEF LoadRemainCout, Run, Count, Between, SafeInv, CountInv, RingInv,
       IndexInv
  <2>1. IndexInv'
    BY <1>13, <2>0, <1>c, <1>t DEF LoadRemainCout, Run, RingInv, IndexInv,
       SlotAt, SafeInv, TypeOK
  <2>2. HandlerInv'
    BY <1>13, <2>0, <1>c, <1>t DEF LoadRemainCout, Run, RingInv, HandlerInv,
       Waiting, IndexInv, SafeInv, TypeOK
  <2>3. QueueInv'
    BY <1>13, <2>0, <1>c, <1>t DEF LoadRemainCout, Run, RingInv, QueueInv, Older,
       Waiting, SlotAt, SafeInv, TypeOK
  <2>4. ReaderInv'
    BY <1>13, <2>0, <1>c, <1>t DEF LoadRemainCout, Run, RingInv, ReaderInv,
       DeliveredWhole, SafeInv, TypeOK
  <2> QED
    BY <2>1, <2>2, <2>3, <2>4 DEF RingInv
<1>14. CASE StoreRemainCout
  <2>0. Count' = Count
    BY <1>14 DEF StoreRemainCout, Store, Run, Count, Between, SafeInv, CountInv,
       RingInv, IndexInv
  <2>1. IndexInv'
    BY <1>14, <2>0, <1>c, <1>t DEF StoreRemainCout, Store, Run, RingInv,
       IndexInv, SlotAt, SafeInv, TypeOK
  <2>2. HandlerInv'
    BY <1>14, <2>0, <1>c, <1>t DEF StoreRemainCout, Store, Run, RingInv,
       HandlerInv, Waiting, IndexInv, SafeInv, TypeOK
  <2>3. QueueInv'
    BY <1>14, <2>0, <1>c, <1>t DEF StoreRemainCout, Store, Run, RingInv,
       QueueInv, Older, Waiting, SlotAt, SafeInv, TypeOK
  <2>4. ReaderInv'
    BY <1>14, <2>0, <1>c, <1>t DEF StoreRemainCout, Store, Run, RingInv,
       ReaderInv, DeliveredWhole, SafeInv, TypeOK
  <2> QED
    BY <2>1, <2>2, <2>3, <2>4 DEF RingInv
<1>15. CASE SendSpin \/ Quiet \/ UNCHANGED vars
  <2>1. UNCHANGED vars
    BY <1>15 DEF SendSpin, Quiet
  <2> QED
    BY <2>1 DEF vars, RingInv, IndexInv, HandlerInv, QueueInv, ReaderInv, Older,
       Waiting, SlotAt, DeliveredWhole, Count, Between
<1>16. CASE LinkChange \/ TxDone \/ TxFailed \/ PbufAllocFail
            \/ SendCall \/ SendTooLong \/ SendCopy \/ SendClear \/ SendStart
  <2>1. CASE LinkChange \/ TxDone \/ TxFailed
    <3>1. /\ RingSame /\ UNCHANGED <<pc, len, got>>
          /\ "RXIF" \in eir' <=> "RXIF" \in eir
      BY <2>1 DEF LinkChange, TxDone, TxFailed, RingSame
    <3> QED
      BY <3>1, RingAside
  <2>2. CASE PbufAllocFail \/ SendCall \/ SendTooLong \/ SendCopy \/ SendClear \/ SendStart
    <3>1. /\ RingSame /\ pc \notin {"load", "store"} /\ eir' = eir
          /\ pc' \in {"loop", "txwait", "txgo", "txrts"}
      BY <2>2 DEF PbufAllocFail, SendCall, SendTooLong, SendCopy, SendClear,
         SendStart, Run, RingSame
    <3> QED
      BY <3>1, RingAside
  <2> QED
    BY <1>16, <2>1, <2>2
<1> QED
  BY <1>1, <1>2, <1>3, <1>4, <1>5, <1>6, <1>7, <1>8, <1>9, <1>10, <1>11, <1>12,
     <1>13, <1>14, <1>15, <1>16
  DEF Next, Hardware, Isr, Main, RxStep, TxStep

\* When interrupts come in time the ring is a queue in every reachable state.
THEOREM RingCorrect == ASSUME InTime PROVE Spec => []RingInv
<1>1. Spec => []SafeInv
  BY SafeInit, SafeStep, PTL DEF Spec
<1>2. SafeInv /\ SafeInv' /\ RingInv /\ [Next]_vars => RingInv'
  BY RingStep
<1> QED
  BY <1>1, <1>2, RingInit, PTL DEF Spec

\* Every pbuf low_level_input returns holds one whole received frame and has
\* its length.
THEOREM WholeFrames == ASSUME InTime PROVE Spec => []DeliveredWhole
BY RingCorrect, PTL DEF RingInv, ReaderInv

\* The DMA writes only behind the queued frames, so ETHRecX's memcpy never
\* races with it.
THEOREM DmaSafe == ASSUME InTime PROVE Spec => []DmaOffQueue
<1>1. SafeInv /\ RingInv => DmaOffQueue
  <2> SUFFICES ASSUME SafeInv, RingInv, dma # NoSlot PROVE Dist(dma) >= Count
    BY DEF DmaOffQueue
  <2>1. /\ dma = SlotAt(Count) /\ ReadIndex \in Slots
        /\ Count \in 0 .. RX_QUEUE_NUM - 1
    BY CountType DEF RingInv, HandlerInv, IndexInv, SafeInv, TypeOK
  <2>2. \A i \in Slots, k \in 0 .. RX_QUEUE_NUM - 1 :
          IF RingPos(i, k) >= i THEN RingPos(i, k) - i = k
                                ELSE RingPos(i, k) + RX_QUEUE_NUM - i = k
    BY RingAssumption DEF RingPos, Slots
  <2> QED
    BY <2>1, <2>2, RingAssumption DEF Dist, SlotAt
<1>2. Spec => []SafeInv
  BY SafeInit, SafeStep, PTL DEF Spec
<1> QED
  BY <1>1, <1>2, RingCorrect, PTL

\* Frames are given to the stack in arrival order and none twice.
THEOREM FramesInOrder == ASSUME InTime PROVE Spec => DeliveredInOrder
<1>1. SafeInv /\ RingInv /\ [Next]_vars => [last'.data > last.data]_last
  <2> SUFFICES ASSUME SafeInv, RingInv, [Next]_vars, last' # last
               PROVE last'.data > last.data
    OBVIOUS
  <2>1. EthRecXCopied
    BY DEF Next, Hardware, Isr, Main, RxStep, TxStep, Quiet, vars, FrameStart,
       FrameEnd, FrameBad, LinkChange, TxDone, TxFailed, IsrEnter, IsrReadLen,
       IsrQueue, HasRoom, IsrAckRx, IsrRest, GetRecvMacDataLen, PbufAlloc, EthRecX,
       LoadRemainCout, StoreRemainCout, Store, PbufAllocFail, SendCall, SendSpin,
       SendTooLong, SendCopy, SendClear, SendStart, rxMain, txRest
  <2>2. 0 \in 0 .. Count - 1 /\ SlotAt(0) = ReadIndex
    BY <2>1, RingPosFacts DEF EthRecXCopied, FinishCopy, Run, SafeInv, TypeOK,
       CountInv,
       Count, Between, SlotAt
  <2>3. buf[ReadIndex] > last.data
    BY <2>2 DEF RingInv, QueueInv
  <2> QED
    BY <2>1, <2>3 DEF EthRecXCopied, FinishCopy, Run, RingInv, ReaderInv
<1>2. Spec => []SafeInv
  BY SafeInit, SafeStep, PTL DEF Spec
<1> QED
  BY <1>1, <1>2, RingCorrect, PTL DEF Spec, DeliveredInOrder

\* Everything eth.c relies on about its ring, when interrupts are served in
\* time: read and write places, count, headers and the slot the DMA fills agree.
THEOREM RingIsSafe == ASSUME InTime PROVE Spec => []RingSafe
BY TypeCorrect, CountSafe, RingCorrect, DmaSafe, PTL DEF RingSafe

-----------------------------------------------------------------------------
(***************************************************************************)
(* The receive ring implements the lossy queue of FrameQueue.               *)
(***************************************************************************)

\* The queue the ring stands for is a sequence of Count frames.
LEMMA QueueFacts ==
  ASSUME SafeInv
  PROVE  /\ Queue \in Seq(Nat) /\ Len(Queue) = Count
         /\ \A i \in 1 .. Count : Queue[i] = buf[SlotAt(i - 1)]
<1>1. Count \in Nat /\ Count \in 0 .. RX_QUEUE_NUM - 1 /\ ReadIndex \in Slots
  BY CountType, RingAssumption DEF SafeInv, TypeOK
<1>2. ASSUME NEW i \in 1 .. Count PROVE buf[SlotAt(i - 1)] \in Nat
  <2>1. i - 1 \in Slots
    BY <1>1, RingAssumption DEF Slots
  <2> QED
    BY <1>1, <2>1, RingPosFacts DEF SlotAt, SafeInv, TypeOK
<1>3. Queue \in [1 .. Count -> Nat]
  BY <1>2 DEF Queue
<1> QED
  BY <1>1, <1>3 DEF Queue

\* Steps that leave the counted slots alone leave the queue alone.
LEMMA QueueSame ==
  ASSUME Count' = Count, \A k \in 0 .. Count - 1 : buf[SlotAt(k)]' = buf[SlotAt(k)],
         Count \in Nat
  PROVE  Queue' = Queue
<1>1. \A i \in 1 .. Count : i - 1 \in 0 .. Count - 1
  OBVIOUS
<1>2. Queue' = [i \in 1 .. Count |-> buf[SlotAt(i - 1)]']
  BY DEF Queue
<1> QED
  BY <1>1, <1>2 DEF Queue

\* A step of the driver is a step of the queue or leaves it unchanged.
LEMMA QueueStep ==
  ASSUME InTime, SafeInv, SafeInv', RingInv, [Next]_vars
  PROVE  [FQ!QNext]_(FQ!qvars)
<1> USE RingAssumption
<1>t. ~Allowed("late_isr") /\ ~Allowed("split_decrement")
  BY DEF InTime, Allowed
<1>c. Count \in Slots /\ Count \in Nat
  BY CountType DEF Slots
<1>q. /\ RecvIndex = SlotAt(Count) /\ RecvIndex \in Slots /\ ReadIndex \in Slots
      /\ \A k \in 0 .. Count - 1 : SlotAt(k) \in Slots \ {RecvIndex}
  <2>1. RecvIndex = SlotAt(Count) /\ RecvIndex \in Slots /\ ReadIndex \in Slots
    BY DEF RingInv, IndexInv, SafeInv, TypeOK
  <2>2. ASSUME NEW k \in 0 .. Count - 1 PROVE SlotAt(k) \in Slots \ {RecvIndex}
    <3>1. k \in Slots /\ k # Count
      BY <1>c DEF Slots
    <3> QED
      BY <3>1, <2>1, <1>c, RingPosFacts DEF SlotAt
  <2> QED
    BY <2>1, <2>2
<1>1. CASE FrameStart
  <2>1. /\ UNCHANGED <<ReadIndex, RemainCout, pc, nxt, last>>
        /\ buf' = [buf EXCEPT ![RecvIndex] = Torn]
    BY <1>1 DEF FrameStart, RingInv, IndexInv, ring, rxMain
  <2>2. Count' = Count /\ \A k \in 0 .. Count - 1 : buf[SlotAt(k)]' = buf[SlotAt(k)]
    BY <1>q, <2>1 DEF Count, Between, SlotAt, SafeInv, TypeOK
  <2> QED
    BY <1>c, <2>1, <2>2, QueueSame DEF FQ!qvars
<1>2. CASE FrameEnd \/ FrameBad
  <2>1. /\ UNCHANGED <<ReadIndex, RemainCout, pc, last>> /\ nxt' = nxt + 1
        /\ buf' = buf \/ buf' = [buf EXCEPT ![RecvIndex] = nxt]
    BY <1>2 DEF FrameEnd, FrameBad, RingInv, HandlerInv, ring, rxMain
  <2>2. Count' = Count /\ \A k \in 0 .. Count - 1 : buf[SlotAt(k)]' = buf[SlotAt(k)]
    BY <1>q, <2>1 DEF Count, Between, SlotAt, SafeInv, TypeOK
  <2>3. nxt' - 1 \in Nat /\ nxt' - 1 > nxt - 1
    BY <2>1 DEF SafeInv, TypeOK, Frames, Torn
  <2>4. FQ!Arrive
    BY <1>c, <2>1, <2>2, <2>3, QueueSame DEF FQ!Arrive
  <2> QED
    BY <2>4 DEF FQ!QNext
<1>3. CASE IsrQueue
  <2>1. /\ pc # "store" /\ buf[RecvIndex] = nxt - 1 /\ Older(nxt - 1)
    BY <1>3 DEF IsrQueue, HasRoom, RingInv, IndexInv, HandlerInv, QueueInv, Waiting
  <2>2. UNCHANGED <<buf, ReadIndex, pc, nxt, last>> /\ \A k : SlotAt(k)' = SlotAt(k)
    BY <1>3 DEF IsrQueue, HasRoom, rxMain, SlotAt
  <2>3. CASE RemainCout < RX_QUEUE_NUM - 1
    <3>1. Count' = Count + 1 /\ Count < RX_QUEUE_NUM - 1
      BY <1>3, <2>2, <2>3 DEF IsrQueue, HasRoom, Count, Between, SafeInv, TypeOK
    <3>2. Queue \in Seq(Nat) /\ Len(Queue) = Count /\ nxt - 1 \in Nat
      <4>1. nxt - 1 \in Nat
        BY DEF SafeInv, TypeOK, Frames, Torn
      <4> QED
        BY <4>1, QueueFacts
    <3>3. Queue' = Append(Queue, nxt - 1)
      <4>1. Queue' = [i \in 1 .. Count + 1 |-> buf[SlotAt(i - 1)]]
        BY <2>2, <3>1 DEF Queue
      <4>2. ASSUME NEW i \in 1 .. Count + 1
            PROVE buf[SlotAt(i - 1)] = Append(Queue, nxt - 1)[i]
        <5>1. CASE i \in 1 .. Count
          BY <5>1, <3>2, QueueFacts, AppendProperties
        <5>2. CASE i = Count + 1
          BY <5>2, <1>c, <1>q, <2>1, <3>2, AppendProperties
        <5>3. i \in 1 .. Count \/ i = Count + 1
          BY <1>c
        <5> QED
          BY <5>1, <5>2, <5>3
      <4>3. Append(Queue, nxt - 1) = [i \in 1 .. Count + 1 |-> Append(Queue, nxt - 1)[i]]
        BY <3>2, AppendProperties, LenProperties
      <4> QED
        BY <4>1, <4>2, <4>3
    <3>4. nxt - 1 > last.data
      BY <2>1 DEF Older, SafeInv, TypeOK, Frames
    <3>5. \A i \in 1 .. Len(Queue) : Queue[i] < nxt - 1
      <4>1. \A i \in 1 .. Count : i - 1 \in 0 .. Count - 1
        BY <1>c
      <4> QED
        BY <2>1, <3>2, <4>1, QueueFacts DEF Older
    <3>6. FQ!Keep
      BY <2>2, <3>1, <3>2, <3>3, <3>4, <3>5 DEF FQ!Keep
    <3> QED
      BY <3>6 DEF FQ!QNext
  <2>4. CASE ~(RemainCout < RX_QUEUE_NUM - 1)
    <3>1. Count' = Count
      BY <1>3, <2>2, <2>4 DEF IsrQueue, HasRoom, Count, Between
    <3> QED
      BY <1>c, <2>2, <3>1, QueueSame DEF FQ!qvars
  <2> QED
    BY <2>3, <2>4
<1>4. CASE EthRecXCopied
  <2>1. Count = RemainCout /\ Count > 0 /\ Count' = Count - 1
    BY <1>4 DEF EthRecXCopied, FinishCopy, Run, Count, Between, SafeInv, TypeOK, CountInv
  <2>2. UNCHANGED <<buf, nxt>> /\ ReadIndex' = NextIndex(ReadIndex)
    BY <1>4 DEF EthRecXCopied, FinishCopy, rxRest, hwRx
  <2>3. Queue \in Seq(Nat) /\ Len(Queue) = Count /\ Queue # <<>>
    BY <2>1, QueueFacts, EmptySeq
  <2>4. last'.data = Head(Queue)
    <3>1. last'.data = buf[ReadIndex]
      BY <1>4 DEF EthRecXCopied, FinishCopy, Run, RingInv, ReaderInv
    <3>2. Queue[1] = buf[SlotAt(0)] /\ SlotAt(0) = ReadIndex
      <4>1. 1 \in 1 .. Count /\ 1 - 1 = 0
        BY <1>c, <2>1
      <4>2. Queue[1] = buf[SlotAt(1 - 1)]
        BY <4>1, QueueFacts
      <4> QED
        BY <1>q, <4>1, <4>2, RingPosFacts DEF SlotAt
    <3> QED
      BY <2>3, <3>1, <3>2
  <2>5. Queue' = Tail(Queue)
    <3>1. Queue' = [i \in 1 .. Count - 1 |-> buf[SlotAt(i - 1)']]
      BY <2>1, <2>2 DEF Queue
    <3>2. ASSUME NEW i \in 1 .. Count - 1 PROVE buf[SlotAt(i - 1)'] = Tail(Queue)[i]
      <4>1. i \in Slots /\ i - 1 \in Slots /\ i + 1 \in 1 .. Count /\ (i - 1) + 1 = i
        BY <1>c DEF Slots
      <4>2. SlotAt(i - 1)' = SlotAt(i)
        BY <1>q, <2>2, <4>1, RingPosFacts DEF SlotAt
      <4>3. Queue[i + 1] = buf[SlotAt(i)]
        <5>1. (i + 1) - 1 = i
          BY <4>1
        <5> QED
          BY <4>1, <5>1, QueueFacts
      <4> QED
        BY <2>3, <4>2, <4>3, HeadTailProperties
    <3>3. Tail(Queue) = [i \in 1 .. Count - 1 |-> Tail(Queue)[i]]
      BY <2>1, <2>3, HeadTailProperties, LenProperties
    <3> QED
      BY <3>1, <3>2, <3>3
  <2>6. FQ!Give
    BY <2>2, <2>3, <2>4, <2>5 DEF FQ!Give
  <2> QED
    BY <2>6 DEF FQ!QNext
<1>5. CASE ~(FrameStart \/ FrameEnd \/ FrameBad \/ IsrQueue \/ EthRecXCopied)
  <2>1. UNCHANGED <<buf, nxt, last, ReadIndex>>
    BY <1>5 DEF Next, Hardware, Isr, Main, RxStep, TxStep, Quiet, vars,
       LinkChange, TxDone, TxFailed, IsrEnter, IsrReadLen, IsrAckRx, IsrRest,
       GetRecvMacDataLen, PbufAlloc, EthRecX, LoadRemainCout, StoreRemainCout, Store,
       PbufAllocFail, SendCall, SendSpin, SendTooLong, SendCopy, SendClear,
       SendStart, hwRx, ring, rxMain, rxRest, txRest
  <2>2. Count' = Count
    BY <1>5 DEF Next, Hardware, Isr, Main, RxStep, TxStep, Quiet, vars,
       LinkChange, TxDone, TxFailed, IsrEnter, IsrReadLen, IsrAckRx, IsrRest,
       GetRecvMacDataLen, PbufAlloc, EthRecX, LoadRemainCout, StoreRemainCout, Store,
       PbufAllocFail, SendCall, SendSpin, SendTooLong, SendCopy, SendClear,
       SendStart, ring, rxRest, txRest, Run, Count, Between, RingInv, IndexInv
  <2> QED
    BY <1>c, <2>1, <2>2, QueueSame DEF FQ!qvars, SlotAt
<1> QED
  BY <1>1, <1>2, <1>3, <1>4, <1>5

\* The driver's ring implements the lossy queue of whole, ordered frames.
THEOREM RingImplementsQueue == ASSUME InTime PROVE Spec => RingIsFrameQueue
<1>1. Init => FQ!QInit
  <2> SUFFICES ASSUME Init PROVE FQ!QInit
    OBVIOUS
  <2>1. Queue \in Seq(Nat) /\ Len(Queue) = 0
    BY SafeInit, QueueFacts DEF Init, Count, Between
  <2> QED
    BY <2>1, EmptySeq DEF Init, FQ!QInit, Torn
<1>2. Spec => []SafeInv
  BY SafeInit, SafeStep, PTL DEF Spec
<1>3. SafeInv /\ SafeInv' /\ RingInv /\ [Next]_vars => [FQ!QNext]_(FQ!qvars)
  BY QueueStep
<1> QED
  BY <1>1, <1>2, <1>3, RingCorrect, PTL DEF Spec, RingIsFrameQueue, FQ!QSpec

-----------------------------------------------------------------------------
(***************************************************************************)
(* The transmit handshake, in every environment                            *)
(***************************************************************************)
\* No end of a transmission waits to be seen or is being served.
NoTxEnd == "TXIF" \notin eir /\ (isr # "idle" => "TXIF" \notin eir_flag)

\* phy_tx_finished tells the truth: it is up only while the MAC sends nothing
\* and no old interrupt can raise it again behind the back of phy_send_tx_buf.
TxInv ==
  /\ phy_tx_finished => tx = Torn /\ NoTxEnd
  /\ tx # Torn => NoTxEnd
  /\ pc = "txgo" => phy_tx_finished
  /\ pc = "txrts" => ~phy_tx_finished /\ tx = Torn /\ NoTxEnd

\* Initially the transmitter is idle.
LEMMA TxInit == Init => TxInv
BY DEF Init, TxInv, NoTxEnd

\* Steps of the receive side leave the handshake alone.
LEMMA TxAside ==
  ASSUME TxInv, tx' = tx, phy_tx_finished' = phy_tx_finished,
         "TXIF" \in eir' => "TXIF" \in eir,
         isr' # "idle" => (isr # "idle" /\ eir_flag' = eir_flag) \/ eir_flag' = eir,
         pc' \in {"txgo", "txrts"} => pc' = pc
  PROVE  TxInv'
BY DEF TxInv, NoTxEnd

\* Every step keeps phy_tx_finished true to the transmitter.
LEMMA TxStepKeeps ==
  ASSUME TxInv, [Next]_vars
  PROVE  TxInv'
<1> USE DEF hwRx, hwTx, ring, isrPriv, rxMain, txMain, rxRest, txRest, Run
<1>1. CASE FrameStart
  BY <1>1, TxAside DEF FrameStart
<1>2. CASE FrameEnd
  BY <1>2, TxAside DEF FrameEnd
<1>3. CASE FrameBad
  BY <1>3, TxAside DEF FrameBad
<1>4. CASE LinkChange
  BY <1>4, TxAside DEF LinkChange
<1>5. CASE TxDone
  BY <1>5 DEF TxDone, TxInv, NoTxEnd
<1>6. CASE TxFailed
  BY <1>6 DEF TxFailed, TxInv, NoTxEnd
<1>7. CASE IsrEnter
  BY <1>7, TxAside DEF IsrEnter
<1>8. CASE IsrReadLen
  BY <1>8, TxAside DEF IsrReadLen
<1>9. CASE IsrQueue
  BY <1>9, TxAside DEF IsrQueue
<1>10. CASE IsrAckRx
  BY <1>10, TxAside DEF IsrAckRx
<1>11. CASE IsrRest
  BY <1>11 DEF IsrRest, TxInv, NoTxEnd
<1>12. CASE RxStep \/ PbufAllocFail
  BY <1>12, TxAside DEF RxStep, PbufAllocFail, GetRecvMacDataLen, PbufAlloc, EthRecX,
     EthRecXCopied, FinishCopy, LoadRemainCout, StoreRemainCout, Store
<1>13. CASE SendCall \/ SendTooLong
  BY <1>13, TxAside DEF SendCall, SendTooLong
<1>14. CASE SendCopy
  BY <1>14 DEF SendCopy, TxInv, NoTxEnd
<1>15. CASE SendClear
  BY <1>15 DEF SendClear, TxInv, NoTxEnd
<1>16. CASE SendStart
  BY <1>16 DEF SendStart, TxInv, NoTxEnd
<1>17. CASE UNCHANGED vars
  BY <1>17, TxAside DEF vars
<1> QED
  BY <1>1, <1>2, <1>3, <1>4, <1>5, <1>6, <1>7, <1>8, <1>9, <1>10, <1>11, <1>12, <1>13, <1>14,
     <1>15, <1>16, <1>17 DEF Next, Hardware, Isr, Main, TxStep, SendSpin, Quiet

\* phy_tx_buf does not change while the MAC sends it, whatever the interrupts do:
\* when low_level_output copies a packet into it the transmitter is idle.
THEOREM TxBufferKept == Spec => TxBufferStable
<1>1. TxInv /\ [Next]_vars => [tx # Torn /\ tx' # Torn => txbuf' = txbuf]_<<tx, txbuf>>
  <2> SUFFICES ASSUME TxInv, [Next]_vars, txbuf' # txbuf
               PROVE  tx = Torn
    OBVIOUS
  <2>1. SendCopy
    BY DEF Next, Hardware, Isr, Main, RxStep, TxStep, Quiet, vars, FrameStart,
       FrameEnd, FrameBad, LinkChange, TxDone, TxFailed, IsrEnter, IsrReadLen,
       IsrQueue, HasRoom, IsrAckRx, IsrRest, GetRecvMacDataLen, PbufAlloc, EthRecX,
       EthRecXCopied, FinishCopy, LoadRemainCout, StoreRemainCout, Store,
       PbufAllocFail, SendCall, SendSpin, SendTooLong, SendClear, SendStart,
       txMain, rxRest, txRest
  <2> QED
    BY <2>1 DEF SendCopy, TxInv
<1> QED
  BY <1>1, TxInit, TxStepKeeps, PTL DEF Spec, TxBufferStable
=============================================================================
