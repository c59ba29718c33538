------------------------------- MODULE EthMac -------------------------------
(***************************************************************************)
(* The Ethernet driver of the firmware: the receive ring of eth_mac.c that  *)
(* ETH_IRQHandler fills and ETHRecX empties, and the transmit handshake     *)
(* between low_level_output and the interrupt handler.                      *)
(*                                                                         *)
(* Three actors run concurrently:                                          *)
(*   - the MAC hardware (external): receives frames by DMA into the slot    *)
(*     R16_ETH_ERXST points at, transmits phy_tx_buf, raises flags in EIR;  *)
(*   - the interrupt handler, which preempts the main loop but not the DMA; *)
(*   - the main loop, which runs only while no handler is active.           *)
(*                                                                         *)
(* A frame is its arrival number, a length is the number of the frame it is *)
(* the length of, and Torn is buffer content that belongs to no one frame.  *)
(* RecvEn and RxBufStau are written and never read: they are left out.      *)
(***************************************************************************)
EXTENDS Naturals

CONSTANTS
  RX_QUEUE_NUM,    \* slots of the receive ring, MACRxBuf
  MaxFrames,       \* bound: frames that start on the wire
  MaxSends,        \* bound: calls of low_level_output
  MaxLinkEvents,   \* bound: link change interrupts
  Hazards          \* what the environment may do beyond the benign timing

\* "late_isr": a frame starts before the previous frame's interrupt is served.
\* "split_decrement": an interrupt falls inside the read-modify-write of
\*                    RemainCout-- (ETHRecX does not mask interrupts).
\* "tx_error_alone": a failed transmission raises TXERIF without TXIF.
AllHazards == {"late_isr", "split_decrement", "tx_error_alone"}

ASSUME RingAssumption == RX_QUEUE_NUM \in Nat /\ RX_QUEUE_NUM >= 2
ASSUME BoundsAssumption ==
  MaxFrames \in Nat /\ MaxSends \in Nat /\ MaxLinkEvents \in Nat
ASSUME HazardAssumption == Hazards \subseteq AllHazards

VARIABLES
  \* MAC hardware
  buf,              \* content of every slot of MACRxBuf
  erxst, erxln,     \* receive DMA start address (a slot) and receive length
  eir,              \* interrupt flags that are up
  dma,              \* slot a frame is being written to, or NoSlot
  nxt,              \* number of the next frame on the wire
  links,            \* link change events so far
  tx,               \* frame being transmitted, or Torn for none
  \* driver, shared by handler and main loop
  RecvIndex, ReadIndex, RemainCout, RxBufLen, phy_tx_finished,
  \* interrupt handler
  isr, eir_flag, rec_len,
  \* main loop
  pc, len, got, reg, txbuf, sends,
  last,             \* the pbuf filled last: content, copied size, pbuf length
  backlog           \* history: frames queued by the handler and not yet read

hwRx   == <<buf, erxst, erxln, dma, nxt>>
hwTx   == <<tx>>
ring   == <<RecvIndex, ReadIndex, RemainCout, RxBufLen, backlog>>
isrPriv == <<eir_flag, rec_len>>
rxMain == <<len, got, reg, last>>
txMain == <<txbuf, sends>>
vars   == <<hwRx, hwTx, eir, links, ring, phy_tx_finished, isr, isrPriv,
            pc, rxMain, txMain>>

Torn   == 0
Slots  == 0 .. RX_QUEUE_NUM - 1
NoSlot == RX_QUEUE_NUM
Frames == Nat \ {Torn}
Flags  == {"RXIF", "LINKIF", "TXIF", "TXERIF", "RXERIF"}

\* index++; if (index >= RX_QUEUE_NUM) index = 0;
NextIndex(i) == IF i + 1 >= RX_QUEUE_NUM THEN 0 ELSE i + 1

Allowed(h) == h \in Hazards

\* ETHParaInitX and ETHInitX: the ring is zeroed, ERXST is set to the first
\* slot, reception is enabled and the transmitter is idle.
Init ==
  /\ buf = [s \in Slots |-> Torn]
  /\ erxst = 0 /\ erxln = Torn /\ eir = {} /\ dma = NoSlot
  /\ nxt = 1 /\ links = 0 /\ tx = Torn
  /\ RecvIndex = 0 /\ ReadIndex = 0 /\ RemainCout = 0
  /\ RxBufLen = [s \in Slots |-> Torn]
  /\ phy_tx_finished = TRUE
  /\ isr = "idle" /\ eir_flag = {} /\ rec_len = Torn
  /\ pc = "loop" /\ len = Torn /\ got = Torn /\ reg = 0
  /\ txbuf = Torn /\ sends = 0
  /\ last = [data |-> Torn, size |-> Torn, len |-> Torn]
  /\ backlog = 0

-----------------------------------------------------------------------------
(* MAC hardware (external).                                                *)

\* A frame starts: the DMA address is latched and the slot's content is no
\* longer a whole frame.
FrameStart ==
  /\ dma = NoSlot
  /\ nxt <= MaxFrames
  /\ Allowed("late_isr") \/ "RXIF" \notin eir
  /\ dma' = erxst
  /\ buf' = [buf EXCEPT ![erxst] = Torn]
  /\ UNCHANGED <<erxst, erxln, nxt, hwTx, eir, links, ring, phy_tx_finished,
                 isr, isrPriv, pc, rxMain, txMain>>

FrameEnd ==
  /\ dma # NoSlot
  /\ buf' = [buf EXCEPT ![dma] = nxt]
  /\ erxln' = nxt
  /\ nxt' = nxt + 1
  /\ dma' = NoSlot
  /\ eir' = eir \cup {"RXIF"}
  /\ UNCHANGED <<erxst, hwTx, links, ring, phy_tx_finished, isr, isrPriv,
                 pc, rxMain, txMain>>

\* A CRC or size error: the slot keeps the debris, only RXERIF is raised.
FrameBad ==
  /\ dma # NoSlot
  /\ nxt' = nxt + 1
  /\ dma' = NoSlot
  /\ eir' = eir \cup {"RXERIF"}
  /\ UNCHANGED <<buf, erxst, erxln, hwTx, links, ring, phy_tx_finished, isr,
                 isrPriv, pc, rxMain, txMain>>

LinkChange ==
  /\ links < MaxLinkEvents
  /\ links' = links + 1
  /\ eir' = eir \cup {"LINKIF"}
  /\ UNCHANGED <<hwRx, hwTx, ring, phy_tx_finished, isr, isrPriv, pc, rxMain,
                 txMain>>

TxDone ==
  /\ tx # Torn
  /\ tx' = Torn
  /\ eir' = eir \cup {"TXIF"}
  /\ UNCHANGED <<hwRx, links, ring, phy_tx_finished, isr, isrPriv, pc,
                 rxMain, txMain>>

TxFailed ==
  /\ tx # Torn
  /\ tx' = Torn
  /\ eir' = eir \cup {"TXERIF"} \cup
              (IF Allowed("tx_error_alone") THEN {} ELSE {"TXIF"})
  /\ UNCHANGED <<hwRx, links, ring, phy_tx_finished, isr, isrPriv, pc,
                 rxMain, txMain>>

-----------------------------------------------------------------------------
(* ETH_IRQHandler. It reads EIR once and serves the flags it saw.          *)

IsrEnter ==
  /\ isr = "idle"
  /\ eir # {}
  /\ pc = "store" => Allowed("split_decrement")
  /\ eir_flag' = eir
  /\ isr' = IF "RXIF" \in eir THEN "rx" ELSE "rest"
  /\ UNCHANGED <<hwRx, hwTx, eir, links, ring, phy_tx_finished, rec_len, pc,
                 rxMain, txMain>>

IsrReadLen ==
  /\ isr = "rx"
  /\ rec_len' = erxln
  /\ isr' = "queue"
  /\ UNCHANGED <<hwRx, hwTx, eir, links, ring, phy_tx_finished, eir_flag, pc,
                 rxMain, txMain>>

\* Mutant: every slot may be queued, the one the DMA uses too.
HasRoomLate == RemainCout < RX_QUEUE_NUM

\* One slot is always left to the DMA.
HasRoom == RemainCout < RX_QUEUE_NUM - 1

\* The received frame is queued and the DMA moves to the next slot, or, when
\* only one slot is free, the frame is dropped by leaving the DMA where it is.
IsrQueue ==
  /\ isr = "queue"
  /\ RxBufLen' = [RxBufLen EXCEPT ![RecvIndex] = rec_len]
  /\ IF HasRoom
       THEN /\ RemainCout' = RemainCout + 1
            /\ RecvIndex' = NextIndex(RecvIndex)
            /\ erxst' = NextIndex(RecvIndex)
            /\ backlog' = backlog + 1
       ELSE UNCHANGED <<RemainCout, RecvIndex, erxst, backlog>>
  /\ isr' = "ack"
  /\ UNCHANGED <<buf, erxln, dma, nxt, hwTx, eir, links, ReadIndex,
                 phy_tx_finished, isrPriv, pc, rxMain, txMain>>

IsrAckRx ==
  /\ isr = "ack"
  /\ eir' = eir \ {"RXIF"}
  /\ isr' = "rest"
  /\ UNCHANGED <<hwRx, hwTx, links, ring, phy_tx_finished, isrPriv, pc,
                 rxMain, txMain>>

\* Mutant: TXIF is acknowledged and phy_tx_finished is not set.
IsrRestNoFinish ==
  /\ isr = "rest"
  /\ eir' = eir \ eir_flag
  /\ isr' = "idle"
  /\ UNCHANGED <<hwRx, hwTx, links, ring, phy_tx_finished, isrPriv, pc, rxMain,
                 txMain>>

\* LINKIF, TXIF and the error flags. An error clears both error flags
\* whichever was seen; a transmit error alone leaves phy_tx_finished as it is.
IsrRest ==
  /\ isr = "rest"
  /\ phy_tx_finished' = (phy_tx_finished \/ "TXIF" \in eir_flag)
  /\ eir' = (eir \ (eir_flag \cap {"LINKIF", "TXIF"})) \
              (IF eir_flag \cap {"TXERIF", "RXERIF"} # {}
                 THEN {"TXERIF", "RXERIF"} ELSE {})
  /\ isr' = "idle"
  /\ UNCHANGED <<hwRx, hwTx, links, ring, isrPriv, pc, rxMain, txMain>>

Isr == IsrEnter \/ IsrReadLen \/ IsrQueue \/ IsrAckRx \/ IsrRest

-----------------------------------------------------------------------------
(* The main loop. Every step needs the processor: no handler is active.    *)

Run(from, to) == isr = "idle" /\ pc = from /\ pc' = to

rxRest == <<hwRx, hwTx, eir, links, phy_tx_finished, isr, isrPriv, txMain>>
txRest == <<hwRx, eir, links, ring, isr, isrPriv, rxMain>>

\* low_level_input: GetRecvMacDataLen finds a frame. (It returns 0, and
\* low_level_input NULL, when RemainCout is 0: nothing changes.)
GetRecvMacDataLen ==
  /\ Run("loop", "alloc")
  /\ RemainCout > 0
  /\ len' = RxBufLen[ReadIndex]
  /\ UNCHANGED <<rxRest, ring, got, reg, last>>

PbufAlloc ==
  /\ Run("alloc", "rec")
  /\ UNCHANGED <<rxRest, ring, rxMain>>

\* The pool is empty: low_level_input returns NULL, the frame stays queued.
PbufAllocFail ==
  /\ Run("alloc", "loop")
  /\ len' = Torn
  /\ UNCHANGED <<rxRest, ring, got, reg, last>>

\* ETHRecX up to the start of memcpy. Its test of RemainCout leaves the pbuf
\* unfilled when the ring is empty.
EthRecX ==
  /\ Run("rec", "copy")
  /\ got' = IF RemainCout = 0 THEN Torn ELSE buf[ReadIndex]
  /\ UNCHANGED <<rxRest, ring, len, reg, last>>

\* The end of memcpy and ReadIndex++. The copy is the frame only if the slot
\* did not change while it was being read.
FinishCopy(next) ==
  /\ Run("copy", "load")
  /\ last' = [data |-> IF buf[ReadIndex] = got THEN got ELSE Torn,
              size |-> RxBufLen[ReadIndex], len |-> len]
  /\ ReadIndex' = next
  /\ got' = Torn
  /\ len' = Torn
  /\ backlog' = backlog - 1
  /\ UNCHANGED <<rxRest, RecvIndex, RemainCout, RxBufLen, reg>>

\* Mutant: ReadIndex is not advanced.
EthRecXCopiedStay == FinishCopy(ReadIndex)

EthRecXCopied == FinishCopy(NextIndex(ReadIndex))

\* RemainCout--, a load and a store. The pbuf then goes to netif->input.
LoadRemainCout ==
  /\ Run("load", "store")
  /\ reg' = RemainCout
  /\ UNCHANGED <<rxRest, ring, len, got, last>>

Store(count) ==
  /\ Run("store", "loop")
  /\ RemainCout' = count
  /\ reg' = 0
  /\ UNCHANGED <<rxRest, RecvIndex, ReadIndex, RxBufLen, backlog, len, got, last>>

\* Mutants: the decrement is missing; the counter is cleared instead.
StoreRemainCoutSame == Store(reg)
StoreRemainCoutClear == Store(0)

StoreRemainCout == Store(reg - 1)

\* low_level_output: called by the stack with a packet to send.
SendCall ==
  /\ Run("loop", "txwait")
  /\ sends < MaxSends
  /\ sends' = sends + 1
  /\ UNCHANGED <<txRest, hwTx, phy_tx_finished, txbuf>>

\* while(phy_is_data_sent() == false): the busy wait goes round.
SendSpin ==
  /\ isr = "idle" /\ pc = "txwait" /\ ~phy_tx_finished
  /\ UNCHANGED vars

\* p->tot_len > phy_tx_buffer_len_macro: ERR_MEM.
SendTooLong ==
  /\ Run("txwait", "loop")
  /\ phy_tx_finished
  /\ UNCHANGED <<txRest, hwTx, phy_tx_finished, txMain>>

\* Mutant: the packet is copied without waiting for phy_tx_finished.
SendCopyNoWait ==
  /\ Run("txwait", "txgo")
  /\ txbuf' = sends
  /\ UNCHANGED <<txRest, hwTx, phy_tx_finished, sends>>

SendCopy ==
  /\ Run("txwait", "txgo")
  /\ phy_tx_finished
  /\ txbuf' = sends
  /\ UNCHANGED <<txRest, hwTx, phy_tx_finished, sends>>

\* phy_send_tx_buf: the flag is cleared before the transmission is requested.
SendClear ==
  /\ Run("txgo", "txrts")
  /\ phy_tx_finished' = FALSE
  /\ UNCHANGED <<txRest, hwTx, txMain>>

SendStart ==
  /\ Run("txrts", "loop")
  /\ tx' = txbuf
  /\ UNCHANGED <<txRest, phy_tx_finished, txMain>>

RxStep == \/ GetRecvMacDataLen \/ PbufAlloc \/ EthRecX \/ EthRecXCopied
          \/ LoadRemainCout \/ StoreRemainCout
TxStep == \/ SendTooLong \/ SendCopy \/ SendClear \/ SendStart

-----------------------------------------------------------------------------
\* Everything has happened and been served: the hardware is quiet.
Quiet ==
  /\ nxt > MaxFrames /\ dma = NoSlot /\ eir = {} /\ isr = "idle"
  /\ pc = "loop" /\ RemainCout = 0 /\ sends = MaxSends /\ tx = Torn
  /\ links = MaxLinkEvents
  /\ UNCHANGED vars

Hardware == FrameStart \/ FrameEnd \/ FrameBad \/ LinkChange \/ TxDone \/ TxFailed
Main     == RxStep \/ PbufAllocFail \/ SendCall \/ SendSpin \/ TxStep

Next == Hardware \/ Isr \/ Main \/ Quiet

Spec == Init /\ [][Next]_vars

\* The hardware finishes what it starts, a pending interrupt is served, and
\* main() never stops calling lwip_pkt_handle. The pool is not empty forever:
\* the stack gives every pbuf back.
Fairness ==
  /\ WF_vars(FrameEnd \/ FrameBad)
  /\ WF_vars(TxDone \/ TxFailed)
  /\ WF_vars(Isr)
  /\ WF_vars(RxStep) /\ SF_vars(PbufAlloc)
  /\ WF_vars(TxStep)

FairSpec == Spec /\ Fairness

-----------------------------------------------------------------------------
(* Properties.                                                             *)

TypeOK ==
  /\ buf \in [Slots -> Nat] /\ erxst \in Slots /\ erxln \in Nat
  /\ eir \in SUBSET Flags /\ dma \in Slots \cup {NoSlot}
  /\ nxt \in Frames /\ links \in Nat /\ tx \in Nat
  /\ RecvIndex \in Slots /\ ReadIndex \in Slots
  /\ RemainCout \in 0 .. RX_QUEUE_NUM - 1
  /\ RxBufLen \in [Slots -> Nat]
  /\ phy_tx_finished \in BOOLEAN
  /\ isr \in {"idle", "rx", "queue", "ack", "rest"}
  /\ eir_flag \in SUBSET Flags /\ rec_len \in Nat
  /\ pc \in {"loop", "alloc", "rec", "copy", "load", "store",
             "txwait", "txgo", "txrts"}
  /\ len \in Nat /\ got \in Nat /\ reg \in 0 .. RX_QUEUE_NUM - 1
  /\ txbuf \in Nat /\ sends \in Nat
  /\ last \in [data : Nat, size : Nat, len : Nat]
  /\ backlog \in Nat

\* ReadIndex has moved on and RemainCout has not been stored yet.
Between == pc \in {"load", "store"}

\* Frames RemainCout stands for.
Count == IF Between THEN RemainCout - 1 ELSE RemainCout

\* Position of slot s in reading order.
Dist(s) == IF s >= ReadIndex THEN s - ReadIndex
                             ELSE s + RX_QUEUE_NUM - ReadIndex

\* low_level_input returns a whole frame: the bytes copied are of one frame
\* and the pbuf has that frame's length.
DeliveredWhole == last.data = last.size /\ last.size = last.len

\* Frames reach the stack in arrival order and none twice, although slots are
\* reused and the newest frame is overwritten when the ring is full.
DeliveredInOrder == [][last'.data > last.data]_last

\* The DMA never writes to a slot whose frame is queued for the main loop, so
\* ETHRecX may copy without masking interrupts.
DmaOffQueue == dma # NoSlot => Dist(dma) >= Count

\* RemainCout never exceeds the number of frames really in the ring, whatever
\* the timing: ETHRecX is never led to a slot that was not filled, and the
\* decrement never wraps below zero.
CountNeverAhead == Count <= backlog /\ (Between => RemainCout > 0)

\* phy_tx_buf does not change while the MAC is sending it: low_level_output
\* waits for phy_tx_finished before it copies the next packet.
TxBufferStable == [][tx # Torn /\ tx' # Torn => txbuf' = txbuf]_<<tx, txbuf>>

\* The slot k places after slot i, the slot at position k in reading order, and
\* the frames RemainCout stands for, oldest first.
RingPos(i, k) == IF i + k >= RX_QUEUE_NUM THEN i + k - RX_QUEUE_NUM ELSE i + k
SlotAt(k) == RingPos(ReadIndex, k)
Queue == [i \in 1 .. Count |-> buf[SlotAt(i - 1)]]

\* The ring, its indices and its counter implement the lossy queue: the frames
\* in reading order are the queue, an accepted interrupt keeps the newest
\* frame and the end of ETHRecX's copy gives the oldest.
FQ == INSTANCE FrameQueue WITH Capacity <- RX_QUEUE_NUM - 1, queue <- Queue,
                               newest <- nxt - 1, given <- last.data
RingIsFrameQueue == FQ!QSpec

-----------------------------------------------------------------------------
(* The inductive invariants behind the safety properties.                   *)

\* Holds in every environment.
CountInv ==
  /\ pc \in {"alloc", "rec", "copy", "load", "store"} => RemainCout > 0
  /\ pc = "store" => reg > 0 /\ reg <= RemainCout
  /\ Count <= backlog

\* No late interrupt and none inside RemainCout--.
InTime == Hazards \cap {"late_isr", "split_decrement"} = {}

\* A frame is complete in the slot at RecvIndex and waits for the handler.
Waiting == "RXIF" \in eir /\ isr # "ack"

IndexInv ==
  /\ erxst = RecvIndex
  /\ RecvIndex = SlotAt(Count)
  /\ pc = "store" => reg = RemainCout /\ isr = "idle"

HandlerInv ==
  /\ isr \in {"rx", "queue", "ack"} => "RXIF" \in eir
  /\ dma # NoSlot => dma = RecvIndex /\ "RXIF" \notin eir
  /\ Waiting => nxt > 1 /\ buf[RecvIndex] = nxt - 1 /\ erxln = nxt - 1
  /\ isr = "queue" => rec_len = nxt - 1

\* Every frame older than f that was given to the stack or is queued.
Older(f) ==
  /\ last.data < f
  /\ \A k \in 0 .. Count - 1 : buf[SlotAt(k)] < f

QueueInv ==
  /\ \A k \in 0 .. Count - 1 :
       /\ buf[SlotAt(k)] = RxBufLen[SlotAt(k)]
       /\ buf[SlotAt(k)] > last.data
       /\ \A j \in 0 .. Count - 1 : j < k => buf[SlotAt(j)] < buf[SlotAt(k)]
  /\ Older(nxt)
  /\ Waiting => Older(nxt - 1)

ReaderInv ==
  /\ pc \in {"alloc", "rec", "copy"} => len = RxBufLen[ReadIndex]
  /\ pc = "copy" => got = buf[ReadIndex]
  /\ DeliveredWhole

\* The ring is a queue: what ETH_IRQHandler, the DMA and ETHRecX rely on
\* together. Slots from ReadIndex on hold Count whole frames in arrival order
\* with their lengths, the DMA works in the slot after them, and a frame whose
\* interrupt is pending is newer than all of them.
RingInv == IndexInv /\ HandlerInv /\ QueueInv /\ ReaderInv

\* The driver's safety with interrupts in time: the indices and the counter are
\* right between any two steps of handler, DMA and main loop, and the DMA is
\* never in a slot that ETHRecX may be copying.
RingSafe == TypeOK /\ CountNeverAhead /\ RingInv /\ DmaOffQueue

-----------------------------------------------------------------------------
(* Liveness.                                                               *)

\* Every queued frame is read: the ring drains when frames stop coming.
RingDrains == backlog > 0 ~> backlog = 0

\* A call of low_level_output returns: the wait for phy_tx_finished ends.
SendReturns == pc = "txwait" ~> pc = "loop"
=============================================================================
