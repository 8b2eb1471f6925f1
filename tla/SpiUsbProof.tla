----------------------------- MODULE SpiUsbProof -----------------------------
(***************************************************************************)
(* Proofs about the two drivers whose pace is the other side's: the SPI      *)
(* slave of SpiSlave, for every size of its buffers, FIFOs, commands and     *)
(* packets and any number of packets, and the control endpoint of the USB   *)
(* device of UsbControl, for every number of transfers and bus events and   *)
(* every length of a packet and of data.                                    *)
(***************************************************************************)
EXTENDS SpiSlave, UsbControl, SequenceTheorems, TLAPS

-----------------------------------------------------------------------------
(* The operators *)

LEMMA MinOfTwo ==
  ASSUME NEW a \in Int, NEW b \in Int
  PROVE  Min({a, b}) = IF a <= b THEN a ELSE b
<1> DEFINE m == IF a <= b THEN a ELSE b
<1>1. m \in {a, b} /\ \A y \in {a, b} : m <= y
  OBVIOUS
<1>2. \A n \in {a, b} : (\A y \in {a, b} : n <= y) => n = m
  OBVIOUS
<1>3. Min({a, b}) = m
  BY <1>1, <1>2 DEF Min
<1>4. QED
  BY <1>3

LEMMA RepeatIsSeq ==
  ASSUME NEW S, NEW frame \in S, NEW n \in Nat
  PROVE  /\ Repeat(frame, n) \in Seq(S) /\ Len(Repeat(frame, n)) = n
         /\ \A i \in 1..n : Repeat(frame, n)[i] = frame
BY DEF Repeat

\* fill_slave_tx_fifo() adds frames of the response in progress only, and no
\* more than there is room for.
LEMMA FifoFilled ==
  ASSUME NEW fifo \in Seq(Frames), Len(fifo) <= FifoSize,
         NEW idx \in 0..TxSize, NEW resp \in 0..MaxBlocks, NEW resp_idx \in 0..Response(resp),
         NEW done \in BOOLEAN, FillSlaveTxFifo(fifo, idx, resp, resp_idx, done)
  PROVE  /\ tx_fifo' \in Seq(Frames) /\ Len(tx_fifo') <= FifoSize
         /\ slave_tx_idx' \in 0..TxSize /\ cmd_done' = done
         /\ resp_tx_buffer' = resp /\ resp_buff_tx_idx' \in 0..Response(resp)
         /\ \A i \in 1..Len(tx_fifo') :
              \/ tx_fifo'[i].from # "response"
              \/ resp # 0 /\ tx_fifo'[i].of = resp
              \/ \E j \in 1..Len(fifo) : tx_fifo'[i] = fifo[j]
<1> DEFINE space == FifoSize - Len(fifo)
           t == Min({space, TxSize - idx})
           r == IF idx + t < TxSize THEN 0 ELSE Min({space - t, Response(resp) - resp_idx})
           z == IF done /\ idx + t = TxSize /\ resp_idx + r = Response(resp) THEN space - t - r ELSE 0
           ts == Repeat(Frame("buffer", 0), t)
           rs == Repeat(Frame("response", resp), r)
           zs == Repeat(Frame("zero", 0), z)
<1>1. space \in Nat /\ TxSize \in Nat /\ Response(resp) \in Nat /\ (resp = 0 => Response(resp) = 0)
  BY SpiAssumption, LenProperties DEF Response
<1>2. t = IF space <= TxSize - idx THEN space ELSE TxSize - idx
  BY <1>1, MinOfTwo
<1>3. t \in 0..space /\ idx + t \in 0..TxSize
  <2> HIDE DEF space, t
  <2> QED
    BY <1>1, <1>2
<1>4. r \in 0..(space - t) /\ resp_idx + r \in 0..Response(resp)
  <2> HIDE DEF space, t
  <2>1. space - t \in Nat /\ Response(resp) - resp_idx \in Nat
    BY <1>1, <1>3
  <2>2. Min({space - t, Response(resp) - resp_idx})
          = IF space - t <= Response(resp) - resp_idx THEN space - t ELSE Response(resp) - resp_idx
    BY <2>1, MinOfTwo
  <2>3. QED
    BY <1>1, <1>3, <2>1, <2>2
<1>5. z \in 0..(space - t - r)
  <2> HIDE DEF space, t, r
  <2> QED
    BY <1>1, <1>3, <1>4
<1>6. /\ tx_fifo' = fifo \o ts \o rs \o zs
      /\ slave_tx_idx' = idx + t /\ resp_tx_buffer' = resp
      /\ resp_buff_tx_idx' = resp_idx + r /\ cmd_done' = done
  BY DEF FillSlaveTxFifo
<1>7. /\ Frame("buffer", 0) \in Frames /\ Frame("response", resp) \in Frames /\ Frame("zero", 0) \in Frames
      /\ Frame("buffer", 0).from # "response" /\ Frame("zero", 0).from # "response"
      /\ Frame("response", resp).of = resp
  BY SpiAssumption DEF Frame, Frames
<1> HIDE DEF space, t, r, z
<1>a. space \in Nat /\ t \in Nat /\ r \in Nat /\ z \in Nat /\ t + r + z <= space
  BY <1>1, <1>3, <1>4, <1>5
<1>8. /\ ts \in Seq(Frames) /\ Len(ts) = t /\ \A i \in 1..t : ts[i] = Frame("buffer", 0)
      /\ rs \in Seq(Frames) /\ Len(rs) = r /\ \A i \in 1..r : rs[i] = Frame("response", resp)
      /\ zs \in Seq(Frames) /\ Len(zs) = z /\ \A i \in 1..z : zs[i] = Frame("zero", 0)
  <2> HIDE DEF Frames
  <2>1. ts \in Seq(Frames) /\ Len(ts) = t /\ \A i \in 1..t : ts[i] = Frame("buffer", 0)
    BY <1>a, <1>7, RepeatIsSeq
  <2>2. rs \in Seq(Frames) /\ Len(rs) = r /\ \A i \in 1..r : rs[i] = Frame("response", resp)
    BY <1>a, <1>7, RepeatIsSeq
  <2>3. zs \in Seq(Frames) /\ Len(zs) = z /\ \A i \in 1..z : zs[i] = Frame("zero", 0)
    BY <1>a, <1>7, RepeatIsSeq
  <2>4. QED
    BY <2>1, <2>2, <2>3
<1> HIDE DEF ts, rs, zs
<1>b. Len(fifo) \in Nat /\ Len(fifo) + space = FifoSize
  BY SpiAssumption, LenProperties DEF space
<1>9. /\ fifo \o ts \in Seq(Frames) /\ Len(fifo \o ts) = Len(fifo) + t
      /\ \A i \in 1..Len(fifo) + t : (fifo \o ts)[i] = IF i <= Len(fifo) THEN fifo[i] ELSE ts[i - Len(fifo)]
  BY <1>8, ConcatProperties
<1> DEFINE f1 == fifo \o ts
           f2 == f1 \o rs
<1>c. f1 \in Seq(Frames) /\ Len(f1) = Len(fifo) + t
  BY <1>9
<1>d. tx_fifo' = f2 \o zs
  BY <1>6
<1> HIDE DEF f1
<1>10. /\ f2 \in Seq(Frames) /\ Len(f2) = Len(fifo) + t + r
       /\ \A i \in 1..Len(fifo) + t + r :
            f2[i] = IF i <= Len(fifo) + t THEN f1[i] ELSE rs[i - (Len(fifo) + t)]
  <2>1. /\ f2 \in Seq(Frames) /\ Len(f2) = Len(f1) + Len(rs)
        /\ \A i \in 1..Len(f1) + Len(rs) : f2[i] = IF i <= Len(f1) THEN f1[i] ELSE rs[i - Len(f1)]
    BY <1>8, <1>c, ConcatProperties
  <2> HIDE DEF f2
  <2>2. QED
    BY <2>1, <1>8, <1>c
<1> HIDE DEF f2
<1>11. /\ tx_fifo' \in Seq(Frames) /\ Len(tx_fifo') = Len(fifo) + t + r + z
       /\ \A i \in 1..Len(fifo) + t + r + z :
            tx_fifo'[i] = IF i <= Len(fifo) + t + r THEN f2[i] ELSE zs[i - (Len(fifo) + t + r)]
  <2>1. /\ tx_fifo' \in Seq(Frames) /\ Len(tx_fifo') = Len(f2) + Len(zs)
        /\ \A i \in 1..Len(f2) + Len(zs) :
             tx_fifo'[i] = IF i <= Len(f2) THEN f2[i] ELSE zs[i - Len(f2)]
    BY <1>8, <1>10, <1>d, ConcatProperties
  <2>2. QED
    BY <2>1, <1>8, <1>10
<1>12. Len(tx_fifo') <= FifoSize
  BY <1>11, <1>a, <1>b, SpiAssumption
<1>13. Len(fifo) \in Nat /\ \A i \in 1..Len(fifo) + t : f1[i] = IF i <= Len(fifo) THEN fifo[i] ELSE ts[i - Len(fifo)]
  BY <1>b, <1>9 DEF f1
<1>14. r > 0 => resp # 0
  BY <1>1, <1>4
<1>15. ASSUME NEW i \in 1..Len(tx_fifo')
       PROVE  \/ tx_fifo'[i].from # "response"
              \/ resp # 0 /\ tx_fifo'[i].of = resp
              \/ \E j \in 1..Len(fifo) : tx_fifo'[i] = fifo[j]
  <2>1. i \in 1..Len(fifo) + t + r + z
    BY <1>11, <1>15
  <2>2. CASE i <= Len(fifo)
    <3>1. i \in 1..Len(fifo) /\ i \in 1..Len(fifo) + t /\ i \in 1..Len(fifo) + t + r
      BY <1>a, <1>13, <2>1, <2>2
    <3>2. f1[i] = fifo[i]
      BY <1>13, <2>2, <3>1
    <3>3. f2[i] = f1[i]
      BY <1>10, <3>1, <1>a
    <3>4. tx_fifo'[i] = f2[i]
      BY <1>11, <2>1, <3>1, <1>a
    <3>5. QED
      BY <3>1, <3>2, <3>3, <3>4
  <2>3. CASE i > Len(fifo) /\ i <= Len(fifo) + t
    <3>1. tx_fifo'[i] = ts[i - Len(fifo)] /\ i - Len(fifo) \in 1..t
      BY <1>a, <1>10, <1>11, <1>13, <2>1, <2>3
    <3>2. QED
      BY <1>7, <1>8, <3>1
  <2>4. CASE i > Len(fifo) + t /\ i <= Len(fifo) + t + r
    <3>1. tx_fifo'[i] = rs[i - (Len(fifo) + t)] /\ i - (Len(fifo) + t) \in 1..r
      BY <1>a, <1>10, <1>11, <1>13, <2>1, <2>4
    <3>2. QED
      BY <1>4, <1>7, <1>8, <1>14, <3>1
  <2>5. CASE i > Len(fifo) + t + r
    <3>1. tx_fifo'[i] = zs[i - (Len(fifo) + t + r)] /\ i - (Len(fifo) + t + r) \in 1..z
      BY <1>a, <1>11, <1>13, <2>1, <2>5
    <3>2. QED
      BY <1>7, <1>8, <3>1
  <2>6. QED
    BY <1>a, <1>13, <2>1, <2>2, <2>3, <2>4, <2>5
<1>16. QED
  BY <1>3, <1>4, <1>6, <1>11, <1>12, <1>15

\* read_slave_rx_fifo(): the buffer holds what fits of what it held and of the FIFO.
LEMMA ReadTypes ==
  ASSUME SpiRxTypes, Read
  PROVE  /\ rx_fifo' = <<>> /\ slave_rx_buffer' \in Seq(Nat)
         /\ Len(slave_rx_buffer') = Min({RxSize, slave_rx_idx + Len(rx_fifo)})
         /\ \A k : (/\ \A i \in 1..Len(rx_fifo) : rx_fifo[i] = k
                    /\ \A i \in 1..Min({RxSize, slave_rx_idx}) : slave_rx_buffer[i] = k)
                   => slave_rx_buffer' = Repeat(k, Min({RxSize, slave_rx_idx + Len(rx_fifo)}))
<1> DEFINE m == Min({RxSize, slave_rx_idx})
           kept == SubSeq(slave_rx_buffer, 1, m)
           frames == kept \o rx_fifo
           n == Min({RxSize, Len(frames)})
<1>1. /\ RxSize \in Nat /\ slave_rx_idx \in Nat /\ Len(rx_fifo) \in Nat /\ rx_fifo \in Seq(Nat)
      /\ slave_rx_buffer \in Seq(Nat) /\ Len(slave_rx_buffer) \in Nat /\ m <= Len(slave_rx_buffer)
  BY SpiAssumption, LenProperties DEF SpiRxTypes
<1>2. m = IF RxSize <= slave_rx_idx THEN RxSize ELSE slave_rx_idx
  BY <1>1, MinOfTwo
<1>3. m \in Nat /\ m <= Len(slave_rx_buffer) /\ m <= slave_rx_idx /\ m <= RxSize
  <2> HIDE DEF m
  <2> QED
    BY <1>1, <1>2
<1>4. kept \in Seq(Nat) /\ Len(kept) = m /\ \A i \in 1..m : kept[i] = slave_rx_buffer[i]
  <2> HIDE DEF m
  <2>1. \A i \in 1..m : slave_rx_buffer[i] \in Nat
    BY <1>1, <1>3, ElementOfSeq
  <2>2. /\ kept \in Seq(Nat) /\ Len(kept) = IF 1 <= m THEN m - 1 + 1 ELSE 0
        /\ \A i \in 1..m - 1 + 1 : kept[i] = slave_rx_buffer[1 + i - 1]
    BY <1>3, <2>1, SubSeqProperties
  <2>3. QED
    BY <1>3, <2>2
<1> HIDE DEF m, kept
<1>5. /\ frames \in Seq(Nat) /\ Len(frames) = m + Len(rx_fifo)
      /\ \A i \in 1..m + Len(rx_fifo) : frames[i] = IF i <= m THEN kept[i] ELSE rx_fifo[i - m]
  BY <1>1, <1>4, ConcatProperties
<1>6. n = IF RxSize <= m + Len(rx_fifo) THEN RxSize ELSE m + Len(rx_fifo)
  <2>1. RxSize \in Int /\ Len(frames) \in Int
    BY <1>1, <1>3, <1>5
  <2> HIDE DEF frames
  <2>2. n = IF RxSize <= Len(frames) THEN RxSize ELSE Len(frames)
    BY <2>1, MinOfTwo
  <2>3. QED
    BY <1>5, <2>2
<1>7. Min({RxSize, slave_rx_idx + Len(rx_fifo)})
        = IF RxSize <= slave_rx_idx + Len(rx_fifo) THEN RxSize ELSE slave_rx_idx + Len(rx_fifo)
  BY <1>1, MinOfTwo
<1>8. n = Min({RxSize, slave_rx_idx + Len(rx_fifo)}) /\ n \in Nat /\ n <= Len(frames)
  <2> HIDE DEF n, frames
  <2> QED
    BY <1>1, <1>2, <1>3, <1>5, <1>6, <1>7
<1>9. slave_rx_buffer' = SubSeq(frames, 1, n) /\ rx_fifo' = <<>>
  BY DEF Read, m, kept
<1> HIDE DEF n, frames
<1>a. n \in Nat /\ n <= Len(frames)
  BY <1>8
<1>10. /\ slave_rx_buffer' \in Seq(Nat) /\ Len(slave_rx_buffer') = n
       /\ \A i \in 1..n : slave_rx_buffer'[i] = frames[i]
  <2>1. \A i \in 1..n : frames[i] \in Nat
    BY <1>1, <1>3, <1>5, <1>a, ElementOfSeq
  <2>2. /\ SubSeq(frames, 1, n) \in Seq(Nat) /\ Len(SubSeq(frames, 1, n)) = IF 1 <= n THEN n - 1 + 1 ELSE 0
        /\ \A i \in 1..n - 1 + 1 : SubSeq(frames, 1, n)[i] = frames[1 + i - 1]
    BY <1>a, <2>1, SubSeqProperties
  <2>3. QED
    BY <1>a, <1>9, <2>2
<1>11. ASSUME NEW k, \A i \in 1..Len(rx_fifo) : rx_fifo[i] = k, \A i \in 1..m : slave_rx_buffer[i] = k
       PROVE  slave_rx_buffer' = Repeat(k, n)
  <2>1. ASSUME NEW i \in 1..n PROVE slave_rx_buffer'[i] = k
    <3>1. i \in 1..m + Len(rx_fifo)
      BY <1>1, <1>3, <1>5, <1>8
    <3>2. CASE i <= m
      <4>1. i \in 1..m
        BY <1>3, <3>2
      <4>2. frames[i] = kept[i]
        BY <1>5, <3>1, <3>2
      <4>3. kept[i] = slave_rx_buffer[i] /\ slave_rx_buffer[i] = k
        BY <1>4, <1>11, <4>1
      <4>4. slave_rx_buffer'[i] = frames[i]
        BY <1>10
      <4>5. QED
        BY <4>2, <4>3, <4>4
    <3>3. CASE i > m
      <4>1. i - m \in 1..Len(rx_fifo) /\ frames[i] = rx_fifo[i - m]
        BY <1>1, <1>3, <1>5, <3>1, <3>3
      <4>2. QED
        BY <1>10, <1>11, <4>1
    <3>4. QED
      BY <1>3, <3>2, <3>3
  <2>2. DOMAIN slave_rx_buffer' = 1..n /\ slave_rx_buffer' = [i \in DOMAIN slave_rx_buffer' |-> slave_rx_buffer'[i]]
    BY <1>10, LenProperties
  <2>3. QED
    BY <2>1, <2>2 DEF Repeat
<1>12. QED
  BY <1>8, <1>9, <1>10, <1>11 DEF m
LEMMA Total ==
  ASSUME NEW b \in Nat, b > 0, NEW l \in 0..MaxLength
  PROVE  /\ (b - 1) * MaxLength + l <= b * MaxLength /\ b * MaxLength \in Nat
         /\ b <= MaxBlocks => (b - 1) * MaxLength + l <= MaxBlocks * MaxLength
<1>1. MaxLength \in Nat /\ MaxBlocks \in Nat
  BY SpiAssumption
<1>2. b * MaxLength = (b - 1) * MaxLength + MaxLength /\ b * MaxLength \in Nat
  BY <1>1
<1>3. b <= MaxBlocks => b * MaxLength <= MaxBlocks * MaxLength
  <2>1. ASSUME b <= MaxBlocks PROVE (MaxBlocks - b) * MaxLength >= 0
    BY <1>1, <2>1
  <2>2. (MaxBlocks - b) * MaxLength = MaxBlocks * MaxLength - b * MaxLength
    BY <1>1
  <2>3. QED
    BY <1>1, <2>1, <2>2
<1>4. QED
  BY <1>1, <1>2, <1>3

LEMMA Bounds ==
  /\ RxSize \in Nat /\ TxSize \in Nat /\ RespSize \in Nat /\ MaxBlocks \in Nat
  /\ CmdSize \in Nat /\ CmdSize > 0 /\ FifoSize \in Nat /\ FifoSize > 0
  /\ Threshold \in Nat /\ MaxLength \in Nat /\ MaxLength > 0
BY SpiAssumption

LEMMA EmptyFifo == \A S : <<>> \in Seq(S) /\ Len(<<>>) = 0
  OBVIOUS

\* What a step does to the transmit side, the receive side and the rest.
Transmits ==
  \/ UNCHANGED spiTx
  \/ tx_fifo' = <<>> /\ UNCHANGED <<slave_tx_idx, resp_tx_buffer, resp_buff_tx_idx, cmd_done>>
  \/ tx_fifo # <<>> /\ tx_fifo' = Tail(tx_fifo)
     /\ UNCHANGED <<slave_tx_idx, resp_tx_buffer, resp_buff_tx_idx, cmd_done>>
  \/ FillSlaveTxFifo(<<>>, 0, 0, 0, FALSE) \/ FillSlaveTxFifo(<<>>, 0, 0, 0, TRUE)
  \/ FillSlaveTxFifo(<<>>, 0, resp_tx_buffer, resp_buff_tx_idx, cmd_done)
  \/ FillSlaveTxFifo(tx_fifo, slave_tx_idx, resp_tx_buffer, resp_buff_tx_idx, cmd_done)
  \/ FillSlaveTxFifo(tx_fifo, slave_tx_idx, resp_tx_buffer, resp_buff_tx_idx, TRUE)
  \/ FillSlaveTxFifo(tx_fifo, slave_tx_idx, block, 0, TRUE)

Receives ==
  \/ UNCHANGED spiRx
  \/ rx_fifo' = <<>> /\ slave_rx_idx' \in {slave_rx_idx, 0} /\ UNCHANGED slave_rx_buffer
  \/ Read /\ slave_rx_idx' \in {slave_rx_idx + Len(rx_fifo), 0}
  \/ Len(rx_fifo) < FifoSize /\ rx_fifo' = Append(rx_fifo, block) /\ UNCHANGED <<slave_rx_idx, slave_rx_buffer>>

-----------------------------------------------------------------------------
(* Types, and the packets in order *)

LEMMA EveryStep ==
  ASSUME SpiMasterTypes, SpiNext
  PROVE  Transmits /\ Receives
<1> USE DEF spiConf, spiTx, spiRx, spiMaster
<1>1. CASE SetSlaveBlockBuffers \/ SetCmdHandler
  <2>1. (~cmd_handler) \in BOOLEAN /\ cmd_handler \in BOOLEAN
    BY DEF SpiMasterTypes
  <2>2. Receives
    BY <1>1 DEF SetSlaveBlockBuffers, SetCmdHandler, Receives
  <2>3. CASE cmd_handler = FALSE
    BY <1>1, <2>2, <2>3 DEF SetSlaveBlockBuffers, SetCmdHandler, Transmits
  <2>4. CASE cmd_handler = TRUE
    BY <1>1, <2>2, <2>4 DEF SetSlaveBlockBuffers, SetCmdHandler, Transmits
  <2>5. QED
    BY <2>1, <2>3, <2>4
<1>2. CASE EnterSpiIsr \/ RxDoneIsr \/ TxDoneIsr
  BY <1>2 DEF EnterSpiIsr, RxDoneIsr, TxDoneIsr, Handle, ReadSlaveRxFifo, Transmits, Receives
<1>3. CASE CmdIsr
  BY <1>3 DEF CmdIsr, Handle, ReadSlaveRxFifo, Transmits, Receives
<1>4. CASE OverflowIsr \/ UnderrunIsr
  BY <1>4 DEF OverflowIsr, UnderrunIsr, Handle, Transmits, Receives
<1>5. CASE SsendIsr
  BY <1>5 DEF SsendIsr, Handle, Transmits, Receives
<1>6. CASE Select \/ Deselect
  BY <1>6 DEF Select, Deselect, Transmits, Receives
<1>7. CASE Exchange
  BY <1>7 DEF Exchange, Transmits, Receives
<1>8. QED
  BY <1>1, <1>2, <1>3, <1>4, <1>5, <1>6, <1>7 DEF SpiNext, SpiIsr, SpiMaster

LEMMA TxTyped ==
  ASSUME SpiTxTypes, block \in 0..MaxBlocks, Transmits
  PROVE  SpiTxTypes'
<1>1. /\ <<>> \in Seq(Frames) /\ Len(<<>>) <= FifoSize /\ tx_fifo \in Seq(Frames) /\ Len(tx_fifo) <= FifoSize
      /\ 0 \in 0..TxSize /\ slave_tx_idx \in 0..TxSize /\ 0 \in 0..MaxBlocks
      /\ resp_tx_buffer \in 0..MaxBlocks /\ resp_buff_tx_idx \in 0..Response(resp_tx_buffer)
      /\ 0 \in 0..Response(0) /\ 0 \in 0..Response(block) /\ cmd_done \in BOOLEAN
  BY Bounds, EmptyFifo DEF SpiTxTypes, Response
<1>2. CASE UNCHANGED spiTx
  BY <1>2 DEF SpiTxTypes, spiTx
<1>3. CASE tx_fifo' = <<>> /\ UNCHANGED <<slave_tx_idx, resp_tx_buffer, resp_buff_tx_idx, cmd_done>>
  BY <1>1, <1>3 DEF SpiTxTypes
<1>4. CASE tx_fifo # <<>> /\ tx_fifo' = Tail(tx_fifo)
           /\ UNCHANGED <<slave_tx_idx, resp_tx_buffer, resp_buff_tx_idx, cmd_done>>
  <2>1. tx_fifo' \in Seq(Frames) /\ Len(tx_fifo') = Len(tx_fifo) - 1 /\ Len(tx_fifo) \in Nat
    BY <1>1, <1>4, HeadTailProperties, LenProperties
  <2>2. Len(tx_fifo') <= FifoSize
    BY <1>1, <2>1, Bounds
  <2>3. QED
    BY <1>4, <2>1, <2>2 DEF SpiTxTypes
<1>5. CASE FillSlaveTxFifo(<<>>, 0, 0, 0, FALSE)
  BY <1>1, <1>5, FifoFilled DEF SpiTxTypes
<1>6. CASE FillSlaveTxFifo(<<>>, 0, 0, 0, TRUE)
  BY <1>1, <1>6, FifoFilled DEF SpiTxTypes
<1>7. CASE FillSlaveTxFifo(<<>>, 0, resp_tx_buffer, resp_buff_tx_idx, cmd_done)
  BY <1>1, <1>7, FifoFilled DEF SpiTxTypes
<1>8. CASE FillSlaveTxFifo(tx_fifo, slave_tx_idx, resp_tx_buffer, resp_buff_tx_idx, cmd_done)
  BY <1>1, <1>8, FifoFilled DEF SpiTxTypes
<1>9. CASE FillSlaveTxFifo(tx_fifo, slave_tx_idx, resp_tx_buffer, resp_buff_tx_idx, TRUE)
  BY <1>1, <1>9, FifoFilled DEF SpiTxTypes
<1>10. CASE FillSlaveTxFifo(tx_fifo, slave_tx_idx, block, 0, TRUE)
  BY <1>1, <1>10, FifoFilled DEF SpiTxTypes
<1>11. QED
  BY <1>2, <1>3, <1>4, <1>5, <1>6, <1>7, <1>8, <1>9, <1>10 DEF Transmits

LEMMA MinRx ==
  ASSUME NEW n \in Nat
  PROVE  /\ Min({RxSize, n}) = (IF RxSize <= n THEN RxSize ELSE n)
         /\ Min({RxSize, n}) \in Nat /\ Min({RxSize, n}) <= RxSize /\ Min({RxSize, n}) <= n
BY Bounds, MinOfTwo

LEMMA RxTyped ==
  ASSUME SpiRxTypes, SpiMasterTypes, Packets, Receives, block > 0 \/ rx_fifo' = <<>> \/ UNCHANGED spiRx
  PROVE  SpiRxTypes'
<1>1. /\ slave_rx_idx \in Nat /\ Len(rx_fifo) \in Nat /\ slave_rx_idx + Len(rx_fifo) \in Nat
      /\ slave_rx_buffer \in Seq(Nat) /\ rx_fifo \in Seq(Nat) /\ block \in Nat
      /\ Len(slave_rx_buffer) \in Nat
  BY LenProperties, Bounds DEF SpiRxTypes, SpiMasterTypes
<1>2. CASE UNCHANGED spiRx
  BY <1>2 DEF SpiRxTypes, spiRx
<1>3. CASE rx_fifo' = <<>> /\ slave_rx_idx' \in {slave_rx_idx, 0} /\ UNCHANGED slave_rx_buffer
  <2>1. CASE slave_rx_idx' = slave_rx_idx
    BY <1>3, <2>1, EmptyFifo, Bounds DEF SpiRxTypes
  <2>2. CASE slave_rx_idx' = 0
    <3>1. Min({RxSize, 0}) = 0 /\ 0 \in 0..(MaxBlocks * MaxLength)
      BY MinRx, Bounds
    <3>2. QED
      BY <1>1, <1>3, <2>2, <3>1, EmptyFifo, Bounds DEF SpiRxTypes
  <2>3. QED
    BY <1>3, <2>1, <2>2
<1>4. CASE Read /\ slave_rx_idx' \in {slave_rx_idx + Len(rx_fifo), 0}
  <2>1. /\ rx_fifo' = <<>> /\ slave_rx_buffer' \in Seq(Nat)
        /\ Len(slave_rx_buffer') = Min({RxSize, slave_rx_idx + Len(rx_fifo)})
    BY <1>4, ReadTypes
  <2>2. Len(slave_rx_buffer') \in Min({RxSize, slave_rx_idx'})..RxSize
    <3>1. CASE slave_rx_idx' = 0
      <4>1. Min({RxSize, 0}) = 0
        BY MinRx, Bounds
      <4>2. QED
        BY <1>1, <2>1, <3>1, <4>1, MinRx, Bounds
    <3>2. CASE slave_rx_idx' = slave_rx_idx + Len(rx_fifo)
      BY <1>1, <2>1, <3>2, MinRx, Bounds
    <3>3. QED
      BY <1>4, <3>1, <3>2
  <2>3. slave_rx_idx' \in 0..(MaxBlocks * MaxLength)
    <3>1. CASE block = 0
      BY <1>4, <3>1, EmptyFifo DEF Packets, SpiRxTypes
    <3>2. CASE block > 0
      <4>1. length \in 0..MaxLength /\ block <= MaxBlocks
        BY <1>1, Bounds DEF SpiMasterTypes
      <4>2. (block - 1) * MaxLength + length <= MaxBlocks * MaxLength
        BY <1>1, <3>2, <4>1, Total
      <4>3. slave_rx_idx + Len(rx_fifo) <= (block - 1) * MaxLength + length
        BY <3>2 DEF Packets
      <4>4. (block - 1) * MaxLength + length \in Nat /\ MaxBlocks * MaxLength \in Nat
        BY <1>1, <3>2, <4>1, Bounds
      <4> HIDE DEF Packets
      <4>5. slave_rx_idx + Len(rx_fifo) <= MaxBlocks * MaxLength
        BY <1>1, <4>2, <4>3, <4>4
      <4>6. QED
        BY <1>1, <1>4, <4>4, <4>5
    <3>3. QED
      BY <1>1, <3>1, <3>2
  <2>4. QED
    BY <2>1, <2>2, <2>3, EmptyFifo, Bounds DEF SpiRxTypes
<1>5. CASE Len(rx_fifo) < FifoSize /\ rx_fifo' = Append(rx_fifo, block) /\ UNCHANGED <<slave_rx_idx, slave_rx_buffer>>
  <2>1. rx_fifo' \in Seq(Nat) /\ Len(rx_fifo') = Len(rx_fifo) + 1
    BY <1>1, <1>5
  <2>2. Len(rx_fifo') <= FifoSize
    BY <1>1, <1>5, <2>1, Bounds
  <2>3. QED
    BY <1>5, <2>1, <2>2 DEF SpiRxTypes
<1>6. QED
  BY <1>2, <1>3, <1>4, <1>5 DEF Receives

LEMMA HandlerFrame ==
  ASSUME SpiIsr
  PROVE  /\ UNCHANGED <<spiConf, spiMaster>> /\ spi_ints' \subseteq spi_ints
         /\ \/ UNCHANGED <<slave_rx_idx, rx_fifo>>
            \/ rx_fifo' = <<>> /\ slave_rx_idx' \in {slave_rx_idx + Len(rx_fifo), slave_rx_idx, 0}
         /\ spi_isr # "out" \/ Enabled # {}
<1> USE DEF spiConf, spiRx, spiMaster, Clear
<1>1. CASE EnterSpiIsr \/ RxDoneIsr \/ TxDoneIsr
  BY <1>1 DEF EnterSpiIsr, RxDoneIsr, TxDoneIsr, Handle, Go, ReadSlaveRxFifo, Read
<1>2. CASE CmdIsr
  BY <1>2 DEF CmdIsr, Handle, ReadSlaveRxFifo, Read
<1>3. CASE OverflowIsr \/ UnderrunIsr
  BY <1>3 DEF OverflowIsr, UnderrunIsr, Handle
<1>4. CASE SsendIsr
  BY <1>4 DEF SsendIsr, Handle, Read
<1>5. QED
  BY <1>1, <1>2, <1>3, <1>4 DEF SpiIsr

\* The handler's calls of the client's handlers are recorded one by one.
LEMMA Calls ==
  ASSUME SpiIsr
  PROVE  /\ \/ UNCHANGED reports
            \/ reports' = Append(reports, [size |-> slave_rx_idx + Len(rx_fifo), data |-> slave_rx_buffer'])
         /\ \/ UNCHANGED cmd_calls
            \/ cmd_calls' = Append(cmd_calls, [of |-> block, data |-> slave_rx_buffer'])
BY DEF SpiIsr, EnterSpiIsr, RxDoneIsr, TxDoneIsr, CmdIsr, OverflowIsr, UnderrunIsr, SsendIsr, Handle

LEMMA MasterTyped ==
  ASSUME SpiRxTypes, SpiRxTypes', SpiMasterTypes, SpiNext
  PROVE  SpiMasterTypes'
<1> USE DEF SpiMasterTypes, spiConf, spiTx, spiRx, spiMaster
<1>1. CASE SetSlaveBlockBuffers \/ SetCmdHandler
  BY <1>1 DEF SetSlaveBlockBuffers, SetCmdHandler
<1>2. CASE SpiIsr
  <2>1. UNCHANGED <<spiConf, spiMaster>> /\ spi_ints' \subseteq spi_ints
    BY <1>2, HandlerFrame
  <2>2. spi_isr' \in IsrStages /\ cmd_irq' \in BOOLEAN
    <3>1. CASE EnterSpiIsr \/ RxDoneIsr \/ TxDoneIsr \/ CmdIsr
      BY <3>1 DEF EnterSpiIsr, RxDoneIsr, TxDoneIsr, CmdIsr, Handle, Go, IsrStages
    <3>2. CASE OverflowIsr \/ UnderrunIsr \/ SsendIsr
      BY <3>2 DEF OverflowIsr, UnderrunIsr, SsendIsr, Handle, Go, IsrStages
    <3>3. QED
      BY <1>2, <3>1, <3>2 DEF SpiIsr
  <2>3. slave_rx_idx \in Nat /\ Len(rx_fifo) \in Nat /\ block \in Nat /\ slave_rx_buffer' \in Seq(Nat)
    BY Bounds, LenProperties DEF SpiRxTypes
  <2>4. /\ [size |-> slave_rx_idx + Len(rx_fifo), data |-> slave_rx_buffer'] \in [size : Nat, data : Seq(Nat)]
        /\ [of |-> block, data |-> slave_rx_buffer'] \in [of : Nat, data : Seq(Nat)]
    BY <2>3
  <2> DEFINE Reports == [size : Nat, data : Seq(Nat)]
             Commands == [of : Nat, data : Seq(Nat)]
             report == [size |-> slave_rx_idx + Len(rx_fifo), data |-> slave_rx_buffer']
             command == [of |-> block, data |-> slave_rx_buffer']
  <2>a. /\ report \in Reports /\ command \in Commands /\ reports \in Seq(Reports) /\ cmd_calls \in Seq(Commands)
        /\ reports' = reports \/ reports' = Append(reports, report)
        /\ cmd_calls' = cmd_calls \/ cmd_calls' = Append(cmd_calls, command)
    BY <1>2, <2>4, Calls
  <2> HIDE DEF Reports, Commands, report, command
  <2>b. reports' \in Seq(Reports) /\ cmd_calls' \in Seq(Commands)
    <3>1. Append(reports, report) \in Seq(Reports)
      BY <2>a, AppendProperties
    <3>2. Append(cmd_calls, command) \in Seq(Commands)
      BY <2>a, AppendProperties
    <3>3. QED
      BY <2>a, <3>1, <3>2
  <2>5. reports' \in Seq([size : Nat, data : Seq(Nat)]) /\ cmd_calls' \in Seq([of : Nat, data : Seq(Nat)])
    BY <2>b DEF Reports, Commands
  <2>7. QED
    BY <2>1, <2>2, <2>5
<1>3. CASE Select
  BY <1>3, Bounds DEF Select
<1>4. CASE Exchange
  <2>1. stray_response' \in BOOLEAN /\ hurried' \in BOOLEAN
    BY <1>4 DEF Exchange, TurnAround
  <2>2. spi_ints' \subseteq SpiInts
    BY <1>4 DEF Exchange, SpiInts
  <2>3. length' \in 0..MaxLength
    BY <1>4, Bounds DEF Exchange
  <2>4. QED
    BY <1>4, <2>1, <2>2, <2>3 DEF Exchange
<1>5. CASE Deselect
  <2>1. hurried' \in BOOLEAN
    BY <1>5 DEF Deselect, TurnAround
  <2>2. spi_ints' \subseteq SpiInts
    BY <1>5 DEF Deselect, SpiInts
  <2>3. lengths' \in Seq(0..MaxLength)
    BY <1>5 DEF Deselect
  <2>4. QED
    BY <1>5, <2>1, <2>2, <2>3 DEF Deselect
<1>6. QED
  BY <1>1, <1>2, <1>3, <1>4, <1>5 DEF SpiNext, SpiMaster

LEMMA PacketsKept ==
  ASSUME SpiRxTypes, SpiRxTypes', SpiMasterTypes, Packets, SpiNext
  PROVE  Packets'
<1>1. /\ Len(rx_fifo) \in Nat /\ Len(rx_fifo') \in Nat /\ Len(lengths) \in Nat /\ slave_rx_idx \in Nat
      /\ slave_rx_idx' \in Nat /\ block \in Nat /\ length \in Nat /\ length <= MaxLength /\ block <= MaxBlocks
  BY LenProperties, Bounds DEF SpiRxTypes, SpiMasterTypes
<1> USE DEF spiConf, spiTx, spiRx, spiMaster
<1>2. CASE SetSlaveBlockBuffers \/ SetCmdHandler
  <2>1. /\ block = 0 /\ rx_fifo' = <<>> /\ slave_rx_idx' \in {slave_rx_idx, 0} /\ spi_ints' \subseteq spi_ints
        /\ UNCHANGED <<block, length, selected, lengths, reports, cmd_calls, spi_isr>>
    <3>1. CASE SetSlaveBlockBuffers
      BY <3>1 DEF SetSlaveBlockBuffers, Quiet
    <3>2. CASE SetCmdHandler
      BY <3>2 DEF SetCmdHandler, Quiet
    <3>3. QED
      BY <1>2, <3>1, <3>2
  <2>2. spi_ints' = {} /\ slave_rx_idx' = 0
    BY <2>1 DEF Packets
  <2>3. QED
    BY <2>1, <2>2, EmptyFifo DEF Packets
<1>3. CASE SpiIsr
  <2>1. UNCHANGED <<spiConf, spiMaster>>
    BY <1>3, HandlerFrame
  <2>2. block > 0
    BY <1>1, <1>3, HandlerFrame DEF Packets, Enabled
  <2>3. slave_rx_idx' + Len(rx_fifo') <= slave_rx_idx + Len(rx_fifo)
    BY <1>1, <1>3, HandlerFrame, EmptyFifo
  <2>4. UNCHANGED <<block, length, selected, lengths>>
    BY <2>1
  <2>5. (block - 1) * MaxLength \in Nat
    BY <1>1, <2>2, Bounds
  <2> HIDE DEF spiConf, spiTx, spiRx, spiMaster
  <2>6. QED
    BY <1>1, <2>2, <2>3, <2>4, <2>5 DEF Packets
<1>4. CASE Select
  <2>1. block > 0 => (block - 1) * MaxLength + length <= block * MaxLength
    BY <1>1, Total
  <2>2. (block + 1) - 1 = block /\ block * MaxLength \in Nat /\ (block > 0 => (block - 1) * MaxLength + length \in Nat)
    BY <1>1, Bounds
  <2>3. slave_rx_idx' + Len(rx_fifo') <= (block' - 1) * MaxLength + length'
    <3>1. block' = block + 1 /\ length' = 0 /\ UNCHANGED <<slave_rx_idx, rx_fifo>>
      BY <1>4 DEF Select
    <3>2. slave_rx_idx + Len(rx_fifo) <= block * MaxLength
      BY <1>1, <2>1, <2>2, EmptyFifo DEF Packets
    <3>3. QED
      BY <1>1, <2>2, <3>1, <3>2
  <2>4. QED
    BY <1>1, <1>4, <2>3 DEF Select, Packets
<1>5. CASE Exchange
  <2>1. block > 0
    BY <1>1, <1>5 DEF Packets, Exchange
  <2>2. Len(rx_fifo') <= Len(rx_fifo) + 1
    BY <1>1, <1>5 DEF Exchange, SpiRxTypes, SpiMasterTypes
  <2>3. /\ UNCHANGED <<block, selected, lengths, slave_rx_idx>> /\ length' = length + 1 /\ selected
    BY <1>5 DEF Exchange
  <2>4. (block - 1) * MaxLength \in Nat
    BY <1>1, <2>1, Bounds
  <2>5. QED
    BY <1>1, <2>1, <2>2, <2>3, <2>4 DEF Packets
<1>6. CASE Deselect
  <2>1. block > 0 /\ Len(lengths) = block - 1
    BY <1>1, <1>6 DEF Packets, Deselect
  <2>2. lengths' = Append(lengths, length) /\ length \in 0..MaxLength
    BY <1>1, <1>6 DEF Deselect
  <2>3. Len(lengths') = block /\ lengths'[block] = length
    BY <1>1, <2>1, <2>2 DEF SpiMasterTypes
  <2>4. QED
    BY <1>1, <1>6, <2>1, <2>3 DEF Packets, Deselect
<1>7. QED
  BY <1>2, <1>3, <1>4, <1>5, <1>6 DEF SpiNext, SpiMaster

LEMMA Typed ==
  ASSUME SpiTypeOK, Packets, [SpiNext]_spiVars
  PROVE  SpiTypeOK' /\ Packets'
<1>1. CASE SpiNext
  <2>1. Transmits /\ Receives /\ SpiTxTypes /\ SpiRxTypes /\ SpiMasterTypes
    BY <1>1, EveryStep DEF SpiTypeOK
  <2>2. block \in 0..MaxBlocks
    BY <2>1 DEF SpiMasterTypes
  <2>3. block > 0 \/ rx_fifo' = <<>> \/ UNCHANGED spiRx
    <3>1. Exchange => block > 0
      BY <2>2, LenProperties, <2>1 DEF Packets, Exchange, SpiMasterTypes
    <3>2. SpiIsr => block > 0
      BY <2>2, HandlerFrame DEF Packets, Enabled
    <3>3. QED
      BY <1>1, <3>1, <3>2 DEF SpiNext, SpiMaster, Select, Deselect, SetSlaveBlockBuffers, SetCmdHandler
  <2>4. SpiTxTypes' /\ SpiRxTypes'
    BY <2>1, <2>2, <2>3, TxTyped, RxTyped
  <2>5. SpiMasterTypes' /\ Packets'
    BY <1>1, <2>1, <2>4, MasterTyped, PacketsKept
  <2>6. QED
    BY <2>4, <2>5 DEF SpiTypeOK
<1>2. CASE UNCHANGED spiVars
  BY <1>2 DEF spiVars, spiConf, spiTx, spiRx, spiMaster, SpiTypeOK, SpiTxTypes, SpiRxTypes, SpiMasterTypes, Packets
<1>3. QED
  BY <1>1, <1>2

LEMMA TypesInitially ==
  ASSUME SpiInit
  PROVE  SpiTypeOK /\ Packets
<1> USE Bounds, EmptyFifo DEF SpiInit
<1>1. SpiTxTypes
  BY DEF SpiTxTypes, Response
<1>2. Min({RxSize, 0}) = 0 /\ 0 \in 0..(MaxBlocks * MaxLength)
  BY MinRx
<1>3. SpiRxTypes
  BY <1>2 DEF SpiRxTypes
<1>4. SpiMasterTypes
  <2>1. spi_ints \subseteq SpiInts /\ spi_isr \in IsrStages
    BY DEF IsrStages
  <2>2. {block_mode, cmd_handler, cmd_irq, selected, stray_response, hurried} \subseteq BOOLEAN
    OBVIOUS
  <2>3. QED
    BY <2>1, <2>2 DEF SpiMasterTypes
<1>5. Packets
  BY DEF Packets
<1>6. QED
  BY <1>1, <1>3, <1>4, <1>5 DEF SpiTypeOK

-----------------------------------------------------------------------------
(* The master that waits *)

LEMMA Lengths ==
  ASSUME SpiTypeOK
  PROVE  /\ Len(reports) \in Nat /\ Len(lengths) \in Nat /\ Len(cmd_calls) \in Nat /\ Len(rx_fifo) \in Nat
         /\ Len(tx_fifo) \in Nat /\ block \in Nat /\ length \in Nat /\ slave_rx_idx \in Nat
         /\ block <= MaxBlocks
         /\ Len(rx_fifo) <= FifoSize /\ hurried \in BOOLEAN /\ selected \in BOOLEAN
         /\ cmd_irq \in BOOLEAN /\ cmd_handler \in BOOLEAN /\ stray_response \in BOOLEAN
BY Bounds, LenProperties DEF SpiTypeOK, SpiRxTypes, SpiTxTypes, SpiMasterTypes

LEMMA HurriedStays ==
  ASSUME SpiNext, SpiTypeOK, ~hurried'
  PROVE  ~hurried
<1>1. CASE SpiIsr
  BY <1>1, HandlerFrame DEF spiMaster
<1>2. CASE SetSlaveBlockBuffers \/ SetCmdHandler
  BY <1>2 DEF SetSlaveBlockBuffers, SetCmdHandler, spiMaster
<1>3. CASE SpiMaster
  BY <1>3, Lengths DEF SpiMaster, Select, Exchange, Deselect
<1>4. QED
  BY <1>1, <1>2, <1>3 DEF SpiNext

\* A packet is reported once, between the master's deselection and the next packet.
LEMMA EndsStep ==
  ASSUME SpiTypeOK, Packets, PacketEnds, SpiNext, ~hurried'
  PROVE  PacketEnds'
<1>1. /\ Len(reports) \in Nat /\ block \in Nat /\ Len(rx_fifo) \in Nat /\ Len(rx_fifo) <= FifoSize /\ ~hurried
      /\ hurried \in BOOLEAN /\ selected \in BOOLEAN
  BY Lengths, HurriedStays
<1> USE <1>1 DEF spiConf, spiTx, spiRx, spiMaster, PacketEnds, PacketOpen, Enabled, Clear, Go
<1>2. CASE SetSlaveBlockBuffers
  BY <1>2 DEF SetSlaveBlockBuffers, Quiet
<1>3. CASE SetCmdHandler
  BY <1>3 DEF SetCmdHandler, Quiet
<1>4. CASE EnterSpiIsr \/ RxDoneIsr
  BY <1>4 DEF EnterSpiIsr, RxDoneIsr, Handle
<1>5. CASE TxDoneIsr
  BY <1>5 DEF TxDoneIsr, Handle
<1>6. CASE CmdIsr
  <2>1. /\ UNCHANGED <<spiMaster, reports>> /\ spi_ints' \in {spi_ints, spi_ints \ {"CMD"}}
        /\ spi_isr # "ssend_end" /\ spi_isr' # "ssend_end"
    BY <1>6 DEF CmdIsr, Handle
  <2>2. QED
    BY <2>1
<1>7. CASE OverflowIsr \/ UnderrunIsr
  BY <1>7 DEF OverflowIsr, UnderrunIsr, Handle
<1>8. CASE SsendIsr
  <2>1. CASE Handle("SSEND", "ssend", "out")
    BY <2>1 DEF Handle
  <2>2. CASE spi_isr = "ssend" /\ "SSEND" \in Enabled
    <3>1. Len(reports') = Len(reports) + 1
      <4>1. \E e : reports' = Append(reports, e)
        BY <1>8, <2>2 DEF SsendIsr, Handle
      <4>2. reports \in Seq([size : Nat, data : Seq(Nat)])
        BY DEF SpiTypeOK, SpiMasterTypes
      <4>3. QED
        BY <4>1, <4>2
    <3>2. /\ spi_isr' = "ssend_end" /\ UNCHANGED <<spiConf, spiMaster>>
          /\ spi_ints' \in {spi_ints, spi_ints \ {"CMD"}}
      BY <1>8, <2>2 DEF SsendIsr, Handle
    <3>3. QED
      BY <2>2, <3>1, <3>2
  <2>3. CASE spi_isr = "ssend_end"
    BY <1>8, <2>3 DEF SsendIsr, Handle
  <2>4. QED
    BY <1>8, <2>1, <2>2, <2>3 DEF SsendIsr
<1>9. CASE Select
  <2>1. /\ selected' = TRUE /\ ~selected /\ block' = block + 1 /\ spi_isr = "out" /\ "SSEND" \notin spi_ints
        /\ UNCHANGED <<reports, spi_ints, spi_isr>>
    BY <1>9 DEF Select
  <2>2. Len(reports) = block
    BY <2>1
  <2>3. Len(reports') = block' - 1 /\ PacketOpen'
    BY <2>1, <2>2
  <2>4. QED
    BY <2>1, <2>3
<1>10. CASE Exchange
  <2>1. /\ UNCHANGED <<block, selected, reports, spi_isr>> /\ selected
        /\ "SSEND" \notin spi_ints'
        /\ "RXOVFLOW" \notin spi_ints'
    BY <1>10 DEF Exchange
  <2>2. QED
    BY <2>1
<1>11. CASE Deselect
  BY <1>11 DEF Deselect
<1>12. QED
  BY <1>2, <1>3, <1>4, <1>5, <1>6, <1>7, <1>8, <1>9, <1>10, <1>11 DEF SpiNext, SpiMaster, SpiIsr

\* Frames of one packet only are between the master and the client's buffer.
LEMMA ReceivedStep ==
  ASSUME SpiTypeOK, Packets, PacketEnds, PacketEnds', Received, SpiNext, ~hurried'
  PROVE  Received'
<1>1. /\ Len(reports) \in Nat /\ block \in Nat /\ Len(rx_fifo) \in Nat /\ Len(rx_fifo) <= FifoSize /\ ~hurried
      /\ hurried \in BOOLEAN /\ selected \in BOOLEAN /\ slave_rx_idx \in Nat /\ length \in Nat
      /\ rx_fifo \in Seq(Nat)
  BY Lengths, HurriedStays DEF SpiTypeOK, SpiRxTypes
<1>2. Len(<<>>) = 0 /\ Min({RxSize, 0}) = 0
  BY MinRx
<1>3. CASE SetSlaveBlockBuffers \/ SetCmdHandler
  <2>1. /\ block' = 0 /\ rx_fifo' = <<>> /\ slave_rx_idx' \in {slave_rx_idx, 0} /\ block = 0
    BY <1>3 DEF SetSlaveBlockBuffers, SetCmdHandler, Quiet, spiMaster
  <2>2. slave_rx_idx' = 0
    BY <2>1 DEF Packets
  <2>3. ~PacketOpen'
    BY <1>1, <1>3, <2>1 DEF PacketOpen, Packets, SetSlaveBlockBuffers, SetCmdHandler
  <2>4. QED
    BY <1>2, <2>1, <2>2, <2>3 DEF Received
<1>4. CASE UNCHANGED <<spiRx, block, length, reports>>
  BY <1>4 DEF Received, spiRx, PacketOpen
<1>5. CASE ReadSlaveRxFifo /\ UNCHANGED <<block, length, reports>>
  <2>1. /\ rx_fifo' = <<>> /\ slave_rx_idx' = slave_rx_idx + Len(rx_fifo)
        /\ slave_rx_buffer' = Repeat(block, Min({RxSize, slave_rx_idx'}))
    BY <1>5, ReadTypes DEF ReadSlaveRxFifo, Received, SpiTypeOK
  <2>2. \A i \in 1..Min({RxSize, slave_rx_idx'}) : slave_rx_buffer'[i] = block
    BY <2>1 DEF Repeat
  <2>3. QED
    <3>1. PacketOpen' <=> PacketOpen
      BY <1>5 DEF PacketOpen
    <3>2. ~PacketOpen => slave_rx_idx' = 0
      BY <1>2, <2>1 DEF Received
    <3>3. PacketOpen => slave_rx_idx' + Len(rx_fifo') = length'
      BY <1>1, <1>2, <1>5, <2>1 DEF Received
    <3>4. \A i \in 1..Len(rx_fifo') : rx_fifo'[i] = block'
      BY <1>2, <2>1
    <3>5. QED
      BY <1>5, <2>1, <2>2, <3>1, <3>2, <3>3, <3>4 DEF Received
<1>6. CASE SpiIsr
  <2>1. CASE EnterSpiIsr \/ TxDoneIsr \/ UnderrunIsr
    BY <1>4, <2>1 DEF EnterSpiIsr, TxDoneIsr, UnderrunIsr, Handle, spiMaster
  <2>2. CASE RxDoneIsr
    BY <1>4, <1>5, <2>2 DEF RxDoneIsr, Handle, spiMaster
  <2>3. CASE CmdIsr
    BY <1>4, <1>5, <2>3 DEF CmdIsr, Handle, spiMaster
  <2>4. CASE OverflowIsr
    BY <1>4, <2>4 DEF OverflowIsr, Handle, spiMaster, PacketEnds, Enabled
  <2>5. CASE SsendIsr
    <3>1. UNCHANGED <<spiRx, spiMaster, reports>> \/ (spi_isr' = "ssend_end" /\ rx_fifo' = <<>> /\ slave_rx_idx' = 0 /\ UNCHANGED spiMaster)
      BY <2>5 DEF SsendIsr, Handle, Read, Go
    <3>2. CASE spi_isr' = "ssend_end" /\ rx_fifo' = <<>> /\ slave_rx_idx' = 0 /\ UNCHANGED spiMaster
      <4>1. ~PacketOpen'
        BY <3>2 DEF PacketEnds
      <4>2. QED
        BY <1>2, <3>2, <4>1 DEF Received
    <3>3. QED
      BY <1>4, <3>1, <3>2 DEF spiMaster
  <2>6. QED
    BY <1>6, <2>1, <2>2, <2>3, <2>4, <2>5 DEF SpiIsr
<1>7. CASE Select
  <2>1. /\ slave_rx_idx = 0 /\ rx_fifo = <<>> /\ UNCHANGED spiRx /\ length' = 0 /\ block' = block + 1
    BY <1>1, <1>7 DEF Select, PacketEnds, PacketOpen, Received
  <2>2. QED
    BY <1>1, <1>2, <2>1 DEF Received, spiRx
<1>8. CASE Exchange
  <2>1. /\ Len(rx_fifo) < FifoSize /\ rx_fifo' = Append(rx_fifo, block) /\ length' = length + 1 /\ selected
        /\ UNCHANGED <<slave_rx_idx, slave_rx_buffer, block, reports>>
    <3>1. Len(rx_fifo) # FifoSize
      BY <1>8 DEF Exchange, TurnAround
    <3>2. Len(rx_fifo) < FifoSize
      BY <1>1, <3>1, Bounds
    <3>3. QED
      BY <1>8, <3>2 DEF Exchange
  <2>2. /\ Len(rx_fifo') = Len(rx_fifo) + 1
        /\ \A i \in 1..Len(rx_fifo) : rx_fifo'[i] = rx_fifo[i]
        /\ rx_fifo'[Len(rx_fifo) + 1] = block
    BY <1>1, <2>1, AppendProperties
  <2>3. \A i \in 1..Len(rx_fifo') : rx_fifo'[i] = block'
    BY <1>1, <2>1, <2>2 DEF Received
  <2>4. PacketOpen /\ PacketOpen'
    BY <2>1 DEF PacketEnds, PacketOpen
  <2>5. QED
    <3>1. slave_rx_idx' + Len(rx_fifo') = length'
      BY <1>1, <2>1, <2>2, <2>4 DEF Received
    <3>2. \A i \in 1..Min({RxSize, slave_rx_idx'}) : slave_rx_buffer'[i] = block'
      BY <2>1 DEF Received
    <3>3. QED
      BY <2>3, <2>4, <3>1, <3>2 DEF Received
<1>9. CASE Deselect
  BY <1>4, <1>9 DEF Deselect
<1>10. QED
  BY <1>3, <1>6, <1>7, <1>8, <1>9 DEF SpiNext, SpiMaster

\* What the last stage but one of the handler reports.
LEMMA Report ==
  ASSUME SpiTypeOK, Packets, PacketEnds, Received, SsendIsr
  PROVE  \/ UNCHANGED <<spiTx, spiMaster, cmd_handler, cmd_irq, reports, cmd_calls>>
            /\ ("CMD" \in spi_ints' <=> "CMD" \in spi_ints) /\ spi_isr' = "out"
         \/ /\ spi_isr = "ssend" /\ spi_isr' = "ssend_end" /\ PacketOpen /\ ~selected
            /\ UNCHANGED <<spiMaster, cmd_handler, cmd_calls>>
            /\ reports' = Append(reports, [size |-> length, data |-> Repeat(block, Min({RxSize, length}))])
            /\ \/ /\ cmd_handler /\ cmd_irq' = TRUE /\ "CMD" \notin spi_ints'
                  /\ FillSlaveTxFifo(<<>>, 0, 0, 0, FALSE)
               \/ /\ ~cmd_handler /\ UNCHANGED <<cmd_irq, spi_ints>>
                  /\ FillSlaveTxFifo(<<>>, 0, resp_tx_buffer, resp_buff_tx_idx, cmd_done)
<1> USE DEF spiConf, Clear, Go
<1>1. CASE spi_isr = "ssend" /\ "SSEND" \in Enabled
  <2>1. PacketOpen /\ ~selected
    BY <1>1 DEF PacketEnds, Enabled
  <2>2. slave_rx_idx + Len(rx_fifo) = length
    BY <2>1 DEF Received
  <2>3. Read
    BY <1>1 DEF SsendIsr, Handle
  <2>4. slave_rx_buffer' = Repeat(block, Min({RxSize, length}))
    BY <2>2, <2>3, ReadTypes DEF Received, SpiTypeOK
  <2>5. QED
    BY <1>1, <2>1, <2>2, <2>4 DEF SsendIsr, Handle
<1>2. CASE ~(spi_isr = "ssend" /\ "SSEND" \in Enabled)
  BY <1>2 DEF SsendIsr, Handle
<1>3. QED
  BY <1>1, <1>2

\* What the command handler is given.
LEMMA Command ==
  ASSUME SpiTypeOK, Packets, PacketEnds, Received, CommandTurn, CmdIsr
  PROVE  \/ UNCHANGED <<spiTx, cmd_irq, spi_ints, cmd_calls>> /\ spi_isr = "cmd" /\ spi_isr' = "overflow"
         \/ /\ spi_isr' = "cmd_end" /\ UNCHANGED <<spi_ints, cmd_irq>> /\ "CMD" \in spi_ints /\ spi_isr = "cmd"
            /\ cmd_calls' = Append(cmd_calls, [of |-> block, data |-> Repeat(block, Min({RxSize, CmdSize}))])
            /\ FillSlaveTxFifo(tx_fifo, slave_tx_idx, block, 0, TRUE)
         \/ /\ spi_isr = "cmd_end" /\ spi_isr' = "overflow" /\ UNCHANGED cmd_calls
            /\ cmd_irq' = FALSE /\ "CMD" \notin spi_ints'
            /\ FillSlaveTxFifo(tx_fifo, slave_tx_idx, resp_tx_buffer, resp_buff_tx_idx, TRUE)
<1> USE DEF spiConf, Clear, Go
<1>1. CASE spi_isr = "cmd" /\ "CMD" \in Enabled
  <2>1. "CMD" \in spi_ints /\ length = CmdSize /\ PacketOpen
    BY <1>1 DEF PacketEnds, CommandTurn, Enabled
  <2>2. slave_rx_idx + Len(rx_fifo) = CmdSize
    BY <2>1 DEF Received
  <2>3. Read
    BY <1>1 DEF CmdIsr, Handle, ReadSlaveRxFifo
  <2>4. slave_rx_buffer' = Repeat(block, Min({RxSize, CmdSize}))
    BY <2>2, <2>3, ReadTypes DEF Received, SpiTypeOK
  <2>5. QED
    BY <1>1, <2>1, <2>4 DEF CmdIsr, Handle
<1>2. CASE spi_isr = "cmd" /\ "CMD" \notin Enabled
  BY <1>2 DEF CmdIsr, Handle
<1>3. CASE spi_isr = "cmd_end"
  BY <1>3 DEF CmdIsr, Handle
<1>4. QED
  BY <1>1, <1>2, <1>3 DEF CmdIsr, Handle

LEMMA OtherStages ==
  ASSUME PacketEnds, EnterSpiIsr \/ RxDoneIsr \/ TxDoneIsr \/ OverflowIsr \/ UnderrunIsr
  PROVE  /\ UNCHANGED <<spiConf, spiMaster, cmd_irq, reports, cmd_calls>>
         /\ ("CMD" \in spi_ints' <=> "CMD" \in spi_ints)
         /\ spi_isr # "cmd_end" /\ spi_isr' # "cmd_end"
         /\ \/ UNCHANGED spiTx
            \/ FillSlaveTxFifo(<<>>, 0, resp_tx_buffer, resp_buff_tx_idx, cmd_done)
            \/ FillSlaveTxFifo(tx_fifo, slave_tx_idx, resp_tx_buffer, resp_buff_tx_idx, cmd_done)
<1> USE DEF spiConf, spiMaster, Clear, Go
<1>1. CASE EnterSpiIsr \/ RxDoneIsr
  BY <1>1 DEF EnterSpiIsr, RxDoneIsr, Handle
<1>2. CASE TxDoneIsr
  BY <1>2 DEF TxDoneIsr, Handle
<1>3. CASE OverflowIsr
  BY <1>3 DEF OverflowIsr, Handle, PacketEnds, Enabled
<1>4. CASE UnderrunIsr
  BY <1>4 DEF UnderrunIsr, Handle
<1>5. QED
  BY <1>1, <1>2, <1>3, <1>4

LEMMA ReportedStep ==
  ASSUME SpiTypeOK, Packets, PacketEnds, Received, CommandTurn, PacketsReported, SpiNext, ~hurried'
  PROVE  PacketsReported'
<1>1. /\ Len(reports) \in Nat /\ block \in Nat /\ Len(lengths) \in Nat /\ selected \in BOOLEAN
      /\ Len(reports) <= Len(lengths)
      /\ lengths \in Seq(0..MaxLength) /\ reports \in Seq([size : Nat, data : Seq(Nat)])
  BY Lengths DEF PacketEnds, Packets, PacketOpen, SpiTypeOK, SpiMasterTypes
<1>2. CASE UNCHANGED <<reports, lengths>>
  BY <1>2 DEF PacketsReported
<1>3. CASE Deselect
  <2>1. UNCHANGED reports /\ lengths' = Append(lengths, length)
    BY <1>3 DEF Deselect
  <2>2. \A k \in 1..Len(reports) : lengths'[k] = lengths[k]
    BY <1>1, <2>1
  <2>3. QED
    BY <2>1, <2>2 DEF PacketsReported
<1>4. CASE SsendIsr
  <2>1. CASE UNCHANGED reports
    BY <1>2, <1>4, <2>1, Report DEF spiMaster
  <2>2. CASE ~UNCHANGED reports
    <3> DEFINE report == [size |-> length, data |-> Repeat(block, Min({RxSize, length}))]
    <3>1. /\ PacketOpen /\ ~selected /\ UNCHANGED <<lengths, block>> /\ reports' = Append(reports, report)
      BY <1>4, <2>2, Report DEF spiMaster
    <3>2. Len(reports) = block - 1 /\ block > 0 /\ lengths[block] = length
      BY <1>1, <3>1 DEF PacketOpen, PacketEnds, Packets
    <3>3. report.size = lengths[block] /\ report.data = Repeat(block, Min({RxSize, lengths[block]}))
      BY <3>2
    <3> HIDE DEF report
    <3>4. /\ Len(reports') = block /\ reports'[block] = report
          /\ \A k \in 1..(block - 1) : reports'[k] = reports[k]
      BY <1>1, <3>1, <3>2
    <3>5. ASSUME NEW k \in 1..block
          PROVE  reports'[k].size = lengths[k] /\ reports'[k].data = Repeat(k, Min({RxSize, lengths[k]}))
      <4>1. CASE k = block
        BY <3>3, <3>4, <4>1
      <4>2. CASE k # block
        <5>1. k \in 1..Len(reports) /\ reports'[k] = reports[k]
          BY <1>1, <3>2, <3>4, <4>2
        <5>2. QED
          BY <5>1 DEF PacketsReported
      <4>3. QED
        BY <4>1, <4>2
    <3>6. QED
      BY <3>1, <3>4, <3>5 DEF PacketsReported
  <2>3. QED
    BY <2>1, <2>2
<1>5. CASE CmdIsr
  BY <1>2, <1>5 DEF CmdIsr, Handle, spiMaster
<1>6. CASE SetSlaveBlockBuffers \/ SetCmdHandler \/ Select \/ Exchange
  BY <1>2, <1>6 DEF SetSlaveBlockBuffers, SetCmdHandler, Select, Exchange, spiMaster
<1>7. CASE EnterSpiIsr \/ RxDoneIsr \/ TxDoneIsr \/ OverflowIsr \/ UnderrunIsr
  BY <1>2, <1>7, OtherStages DEF spiMaster
<1>8. QED
  BY <1>3, <1>4, <1>5, <1>6, <1>7 DEF SpiNext, SpiMaster, SpiIsr

LEMMA CommandTurnStep ==
  ASSUME SpiTypeOK, Packets, PacketEnds, PacketEnds', Received, CommandTurn, SpiNext, ~hurried'
  PROVE  CommandTurn'
<1>1. /\ Len(reports) \in Nat /\ block \in Nat /\ Len(cmd_calls) \in Nat /\ ~hurried /\ length \in Nat
      /\ cmd_irq \in BOOLEAN /\ selected \in BOOLEAN /\ cmd_handler \in BOOLEAN
      /\ cmd_calls \in Seq([of : Nat, data : Seq(Nat)]) /\ CmdSize \in Nat /\ CmdSize > 0
      /\ \A i \in 1..Len(cmd_calls) : cmd_calls[i].of \in Nat
  <2>1. cmd_calls \in Seq([of : Nat, data : Seq(Nat)])
    BY DEF SpiTypeOK, SpiMasterTypes
  <2>2. \A i \in 1..Len(cmd_calls) : cmd_calls[i] \in [of : Nat, data : Seq(Nat)]
    BY <2>1, ElementOfSeq
  <2>3. QED
    BY <2>1, <2>2, Lengths, HurriedStays, Bounds
<1> USE <1>1 DEF spiConf, spiMaster
<1>2. CASE /\ UNCHANGED <<cmd_handler, spiMaster, cmd_irq, reports, cmd_calls>>
           /\ ("CMD" \in spi_ints' <=> "CMD" \in spi_ints) /\ spi_isr # "cmd_end" /\ spi_isr' # "cmd_end"
  BY <1>2 DEF CommandTurn, PacketOpen
<1>3. CASE SetSlaveBlockBuffers \/ SetCmdHandler
  <2>1. /\ block = 0 /\ cmd_calls = <<>> /\ reports = <<>> /\ spi_ints = {} /\ spi_isr = "out"
    BY <1>3 DEF SetSlaveBlockBuffers, SetCmdHandler, Quiet, Packets
  <2>2. /\ UNCHANGED <<block, cmd_calls, reports, spi_isr>> /\ spi_ints' = {}
        /\ \/ UNCHANGED <<cmd_handler, cmd_irq>>
           \/ cmd_handler' = TRUE /\ cmd_irq' = TRUE
    BY <1>3, <2>1 DEF SetSlaveBlockBuffers, SetCmdHandler
  <2>3. ~PacketOpen' /\ ~PacketOpen /\ Len(<<>>) = 0
    BY <2>1, <2>2 DEF PacketOpen
  <2>4. QED
    BY <2>1, <2>2, <2>3 DEF CommandTurn
<1>4. CASE EnterSpiIsr \/ RxDoneIsr \/ TxDoneIsr \/ OverflowIsr \/ UnderrunIsr
  BY <1>2, <1>4, OtherStages
<1>5. CASE CmdIsr
  <2>1. UNCHANGED <<spiConf, spiMaster, reports>>
    BY <1>5 DEF CmdIsr, Handle
  <2>2. PacketOpen' <=> PacketOpen
    BY <2>1 DEF PacketOpen
  <2>3. CASE UNCHANGED <<spiTx, cmd_irq, spi_ints, cmd_calls>> /\ spi_isr = "cmd" /\ spi_isr' = "overflow"
    BY <1>2, <2>1, <2>3
  <2>4. CASE /\ spi_isr' = "cmd_end" /\ UNCHANGED <<spi_ints, cmd_irq>> /\ "CMD" \in spi_ints /\ spi_isr = "cmd"
             /\ cmd_calls' = Append(cmd_calls, [of |-> block, data |-> Repeat(block, Min({RxSize, CmdSize}))])
    <3>1. /\ Len(cmd_calls') = Len(cmd_calls) + 1 /\ cmd_calls' # <<>> /\ cmd_calls'[Len(cmd_calls')].of = block
          /\ \A i \in 1..Len(cmd_calls) : cmd_calls'[i] = cmd_calls[i]
      <4> DEFINE entry == [of |-> block, data |-> Repeat(block, Min({RxSize, CmdSize}))]
      <4>1. cmd_calls' = Append(cmd_calls, entry) /\ entry.of = block
        BY <2>4
      <4> HIDE DEF entry
      <4>2. QED
        BY <1>1, <4>1
    <3>2. \A i \in 1..Len(cmd_calls') : cmd_calls'[i].of <= block
      <4>1. ASSUME NEW i \in 1..Len(cmd_calls') PROVE cmd_calls'[i].of <= block
        <5>1. CASE i \in 1..Len(cmd_calls)
          BY <3>1, <5>1 DEF CommandTurn
        <5>2. CASE i = Len(cmd_calls')
          <6>1. cmd_calls'[i].of = block
            BY <3>1, <5>2
          <6>2. block <= block
            BY <1>1
          <6>3. QED
            BY <6>1, <6>2
        <5>3. i \in 1..Len(cmd_calls) \/ i = Len(cmd_calls')
          BY <1>1, <3>1
        <5>4. QED
          BY <5>1, <5>2, <5>3
      <4>2. QED
        BY <4>1
    <3>3. QED
      BY <2>1, <2>2, <2>4, <3>1, <3>2 DEF CommandTurn
  <2>5. CASE /\ spi_isr = "cmd_end" /\ spi_isr' = "overflow" /\ UNCHANGED cmd_calls
             /\ cmd_irq' = FALSE /\ "CMD" \notin spi_ints'
    <3>1. /\ cmd_handler /\ selected /\ length = CmdSize /\ PacketOpen
          /\ cmd_calls # <<>> /\ cmd_calls[Len(cmd_calls)].of = block
      BY <2>5 DEF CommandTurn, PacketEnds
    <3>2. Len(cmd_calls) \in 1..Len(cmd_calls)
      BY <3>1
    <3>3. QED
      BY <2>1, <2>2, <2>5, <3>1, <3>2 DEF CommandTurn
  <2>6. QED
    BY <1>5, <2>3, <2>4, <2>5, Command
<1>6. CASE SsendIsr
  <2>1. CASE UNCHANGED <<spiTx, spiMaster, cmd_handler, cmd_irq, reports, cmd_calls>>
            /\ ("CMD" \in spi_ints' <=> "CMD" \in spi_ints) /\ spi_isr' = "out"
    <3>1. spi_isr # "cmd_end"
      BY <1>6 DEF SsendIsr, Handle
    <3>2. QED
      BY <1>2, <2>1, <3>1
  <2>2. CASE /\ spi_isr = "ssend" /\ spi_isr' = "ssend_end" /\ PacketOpen /\ ~selected
             /\ UNCHANGED <<spiMaster, cmd_handler, cmd_calls>>
             /\ \/ cmd_handler /\ cmd_irq' = TRUE /\ "CMD" \notin spi_ints'
                \/ ~cmd_handler /\ UNCHANGED <<cmd_irq, spi_ints>>
    <3>1. ~PacketOpen'
      BY <2>2 DEF PacketEnds
    <3>2. "CMD" \notin spi_ints'
      BY <2>2 DEF CommandTurn
    <3>3. QED
      BY <2>2, <3>1, <3>2 DEF CommandTurn
  <2>3. QED
    BY <1>6, <2>1, <2>2, Report
<1>7. CASE Select
  <2>1. /\ ~selected /\ spi_isr = "out" /\ "SSEND" \notin spi_ints /\ block' = block + 1 /\ length' = 0
        /\ UNCHANGED <<cmd_calls, cmd_irq, cmd_handler, spi_ints, spi_isr, reports>>
    BY <1>7 DEF Select
  <2>2. ~PacketOpen /\ "CMD" \notin spi_ints
    BY <2>1 DEF PacketEnds, CommandTurn
  <2>3. QED
    BY <2>1, <2>2 DEF CommandTurn
<1>8. CASE Exchange
  <2>1. /\ selected /\ UNCHANGED <<cmd_calls, cmd_irq, cmd_handler, spi_isr, reports, block, selected>>
        /\ length' = length + 1
    BY <1>8 DEF Exchange
  <2>2. "CMD" \in spi_ints' <=> "CMD" \in spi_ints \/ (cmd_handler /\ length' = CmdSize)
    BY <1>8 DEF Exchange
  <2>3. ~(cmd_irq /\ length = CmdSize)
    BY <1>8 DEF Exchange, TurnAround
  <2>4. "CMD" \notin spi_ints /\ spi_isr # "cmd_end" /\ (PacketOpen' <=> PacketOpen) /\ PacketOpen
    BY <2>1, <2>3 DEF CommandTurn, PacketOpen, PacketEnds
  <2>5. cmd_irq => length < CmdSize /\ cmd_handler
    BY <2>3, <2>4 DEF CommandTurn
  <2>6. cmd_handler /\ ~cmd_irq => length >= CmdSize
    BY DEF CommandTurn
  <2>7. "CMD" \in spi_ints' => cmd_handler' /\ cmd_irq' /\ selected' /\ length' = CmdSize
    BY <2>1, <2>2, <2>4, <2>6
  <2>8. cmd_irq' /\ length' >= CmdSize => "CMD" \in spi_ints'
    BY <2>1, <2>2, <2>5
  <2>9. QED
    BY <2>1, <2>4, <2>6, <2>7, <2>8 DEF CommandTurn
<1>9. CASE Deselect
  <2>1. /\ UNCHANGED <<cmd_calls, cmd_irq, cmd_handler, spi_isr, reports, block, length>>
        /\ ("CMD" \in spi_ints' <=> "CMD" \in spi_ints) /\ ~(cmd_irq /\ length = CmdSize)
    BY <1>9 DEF Deselect, TurnAround
  <2>2. "CMD" \notin spi_ints /\ (PacketOpen' <=> PacketOpen) /\ spi_isr # "cmd_end"
    BY <2>1 DEF CommandTurn, PacketOpen
  <2>3. QED
    BY <2>1, <2>2 DEF CommandTurn
<1>10. QED
  BY <1>3, <1>4, <1>5, <1>6, <1>7, <1>8, <1>9 DEF SpiNext, SpiMaster, SpiIsr

\* The calls made, and the call of the current packet's command.
LEMMA CallTypes ==
  ASSUME SpiTypeOK
  PROVE  /\ cmd_calls \in Seq([of : Nat, data : Seq(Nat)]) /\ Len(cmd_calls) \in Nat
         /\ \A i \in 1..Len(cmd_calls) : cmd_calls[i].of \in Nat
<1>1. cmd_calls \in Seq([of : Nat, data : Seq(Nat)])
  BY DEF SpiTypeOK, SpiMasterTypes
<1>2. \A i \in 1..Len(cmd_calls) : cmd_calls[i] \in [of : Nat, data : Seq(Nat)]
  BY <1>1, ElementOfSeq
<1>3. QED
  BY <1>1, <1>2, Lengths

\* Only the command interrupt calls the command handler.
LEMMA CallsKept ==
  ASSUME SpiTypeOK, Packets, PacketEnds, SpiNext, ~CmdIsr
  PROVE  UNCHANGED cmd_calls
<1>1. CASE SetSlaveBlockBuffers \/ SetCmdHandler \/ SpiMaster
  BY <1>1 DEF SetSlaveBlockBuffers, SetCmdHandler, SpiMaster, Select, Exchange, Deselect
<1>2. CASE SsendIsr
  BY <1>2 DEF SsendIsr, Handle
<1>3. CASE EnterSpiIsr \/ RxDoneIsr \/ TxDoneIsr \/ OverflowIsr \/ UnderrunIsr
  BY <1>3, OtherStages
<1>4. QED
  BY <1>1, <1>2, <1>3 DEF SpiNext, SpiIsr

\* The command handler is called with the frames of one packet, from the first on.
LEMMA GivenStep ==
  ASSUME SpiTypeOK, Packets, PacketEnds, Received, CommandTurn, CommandsGiven, SpiNext
  PROVE  CommandsGiven'
<1>1. CASE UNCHANGED cmd_calls
  BY <1>1 DEF CommandsGiven
<1>2. CASE CmdIsr /\ ~UNCHANGED cmd_calls
  <2> DEFINE n == Min({RxSize, CmdSize})
             call == [of |-> block, data |-> Repeat(block, n)]
             c == Len(cmd_calls)
  <2>1. cmd_calls' = Append(cmd_calls, call) /\ "CMD" \in spi_ints /\ spi_isr # "cmd_end"
    BY <1>2, Command
  <2>2. n \in Nat /\ n <= RxSize /\ RxSize \in Nat
    BY Bounds, MinRx
  <2>3. call.of = block /\ call.data = Repeat(block, n) /\ Len(call.data) = n
    <3> HIDE DEF n
    <3> QED
      BY <2>2, RepeatIsSeq
  <2>4. Min({RxSize, n}) = n
    <3> HIDE DEF n
    <3> QED
      BY <2>2, MinRx
  <2>5. call.data = Repeat(call.of, Min({RxSize, Len(call.data)})) /\ Len(call.data) >= n
    <3>1. Min({RxSize, Len(call.data)}) = n
      BY <2>3, <2>4
    <3> HIDE DEF n, call
    <3>2. QED
      BY <2>2, <2>3, <3>1
  <2>6. \A i \in 1..c : cmd_calls[i].of < block
    BY <2>1 DEF CommandTurn, PacketEnds
  <2> HIDE DEF call, n
  <2>7. /\ c \in Nat /\ Len(cmd_calls') = c + 1 /\ cmd_calls'[c + 1] = call
        /\ \A i \in 1..c : cmd_calls'[i] = cmd_calls[i]
    BY <2>1, CallTypes
  <2>8. ASSUME NEW i \in 1..(c + 1)
        PROVE  /\ cmd_calls'[i].data = Repeat(cmd_calls'[i].of, Min({RxSize, Len(cmd_calls'[i].data)}))
               /\ Len(cmd_calls'[i].data) >= n
               /\ \A j \in 1..(i-1) : cmd_calls'[j].of < cmd_calls'[i].of
    <3>1. CASE i = c + 1
      <4>1. \A j \in 1..(i-1) : cmd_calls'[j].of < block
        BY <2>6, <2>7, <3>1
      <4>2. QED
        BY <2>3, <2>5, <2>7, <3>1, <4>1
    <3>2. CASE i \in 1..c
      <4>1. cmd_calls'[i] = cmd_calls[i] /\ \A j \in 1..(i-1) : cmd_calls'[j] = cmd_calls[j]
        BY <2>7, <3>2
      <4>2. /\ cmd_calls[i].data = Repeat(cmd_calls[i].of, Min({RxSize, Len(cmd_calls[i].data)}))
            /\ Len(cmd_calls[i].data) >= n
            /\ \A j \in 1..(i-1) : cmd_calls[j].of < cmd_calls[i].of
        BY <3>2 DEF CommandsGiven, n
      <4>3. QED
        BY <4>1, <4>2
    <3>3. QED
      BY <2>7, <2>8, <3>1, <3>2
  <2>9. QED
    BY <2>7, <2>8 DEF CommandsGiven, n
<1>3. QED
  BY <1>1, <1>2, CallsKept

\* A packet that holds a command is reported after its command was handed over.
LEMMA ServedStep ==
  ASSUME SpiTypeOK, Packets, PacketEnds, Received, CommandTurn, CommandsServed, SpiNext
  PROVE  CommandsServed'
<1>1. /\ Len(reports) \in Nat /\ block \in Nat /\ Len(lengths) \in Nat /\ selected \in BOOLEAN
      /\ Len(reports) <= Len(lengths) /\ cmd_irq \in BOOLEAN
      /\ lengths \in Seq(0..MaxLength) /\ reports \in Seq([size : Nat, data : Seq(Nat)])
  BY Lengths DEF PacketEnds, Packets, PacketOpen, SpiTypeOK, SpiMasterTypes
<1>2. /\ Len(cmd_calls) \in Nat /\ Len(cmd_calls') >= Len(cmd_calls)
      /\ \A i \in 1..Len(cmd_calls) : cmd_calls'[i].of = cmd_calls[i].of
  <2>1. CASE UNCHANGED cmd_calls
    BY <2>1, CallTypes
  <2>2. CASE CmdIsr
    <3>1. \/ UNCHANGED cmd_calls
          \/ cmd_calls' = Append(cmd_calls, [of |-> block, data |-> slave_rx_buffer'])
      BY <2>2, Calls DEF SpiIsr
    <3>2. QED
      BY <2>1, <3>1, CallTypes
  <2>3. QED
    BY <2>1, <2>2, CallsKept
<1>3. CASE UNCHANGED <<reports, cmd_handler>> /\ (UNCHANGED lengths \/ Deselect)
  <2>1. \A k \in 1..Len(reports) : lengths'[k] = lengths[k]
    <3>1. CASE Deselect
      <4>1. lengths' = Append(lengths, length)
        BY <3>1 DEF Deselect
      <4>2. QED
        BY <1>1, <4>1
    <3>2. QED
      BY <1>1, <1>3, <3>1
  <2>2. QED
    BY <1>2, <1>3, <2>1 DEF CommandsServed
<1>4. CASE SetSlaveBlockBuffers \/ SetCmdHandler
  <2>1. reports' = <<>>
    BY <1>4 DEF SetSlaveBlockBuffers, SetCmdHandler, Quiet, Packets
  <2>2. QED
    BY <2>1 DEF CommandsServed
<1>5. CASE SsendIsr /\ ~UNCHANGED reports
  <2>1. /\ spi_isr = "ssend" /\ PacketOpen /\ ~selected /\ UNCHANGED <<lengths, block, cmd_handler, cmd_calls>>
        /\ \E e : reports' = Append(reports, e)
    BY <1>5, Report DEF spiMaster
  <2>2. Len(reports) = block - 1 /\ block > 0 /\ lengths[block] = length /\ Len(reports') = block
    BY <1>1, <2>1 DEF PacketOpen, PacketEnds, Packets
  <2>3. cmd_handler /\ length >= CmdSize => \E i \in 1..Len(cmd_calls) : cmd_calls[i].of = block
    BY <1>1, <2>1 DEF CommandTurn
  <2>4. ASSUME cmd_handler, NEW k \in 1..block, lengths[k] >= CmdSize
        PROVE  \E i \in 1..Len(cmd_calls) : cmd_calls[i].of = k
    <3>1. CASE k = block
      BY <2>2, <2>3, <2>4, <3>1
    <3>2. CASE k # block
      <4>1. k \in 1..Len(reports)
        BY <1>1, <2>2, <3>2
      <4>2. QED
        BY <2>4, <4>1 DEF CommandsServed
    <3>3. QED
      BY <3>1, <3>2
  <2>5. QED
    BY <2>1, <2>2, <2>4 DEF CommandsServed
<1>6. CASE SsendIsr /\ UNCHANGED reports
  BY <1>3, <1>6, Report DEF spiMaster
<1>7. CASE CmdIsr \/ Select \/ Exchange \/ Deselect
  BY <1>3, <1>7 DEF CmdIsr, Handle, Select, Exchange, Deselect, spiMaster, spiConf
<1>8. CASE EnterSpiIsr \/ RxDoneIsr \/ TxDoneIsr \/ OverflowIsr \/ UnderrunIsr
  BY <1>3, <1>8, OtherStages DEF spiMaster, spiConf
<1>9. QED
  BY <1>4, <1>5, <1>6, <1>7, <1>8 DEF SpiNext, SpiMaster, SpiIsr

\* A refill answers the packet of the response it is given, if any.
LEMMA Answering ==
  ASSUME SpiTypeOK,
         NEW fifo \in Seq(Frames), Len(fifo) <= FifoSize,
         NEW idx \in 0..TxSize, NEW resp \in 0..MaxBlocks, NEW resp_idx \in 0..Response(resp),
         NEW done \in BOOLEAN, FillSlaveTxFifo(fifo, idx, resp, resp_idx, done),
         UNCHANGED block, resp # 0 => cmd_handler' /\ PacketOpen' /\ resp = block,
         \A i \in 1..Len(fifo) : fifo[i].from = "response" => cmd_handler' /\ PacketOpen' /\ fifo[i].of = block
  PROVE  Responding'
<1>1. /\ resp_tx_buffer' = resp
      /\ \A i \in 1..Len(tx_fifo') :
           \/ tx_fifo'[i].from # "response"
           \/ resp # 0 /\ tx_fifo'[i].of = resp
           \/ \E j \in 1..Len(fifo) : tx_fifo'[i] = fifo[j]
  BY FifoFilled
<1>2. QED
  BY <1>1 DEF Responding

LEMMA AnsweringAfresh ==
  ASSUME SpiTypeOK, NEW resp \in 0..MaxBlocks, NEW resp_idx \in 0..Response(resp),
         NEW done \in BOOLEAN, FillSlaveTxFifo(<<>>, 0, resp, resp_idx, done),
         UNCHANGED block, resp # 0 => cmd_handler' /\ PacketOpen' /\ resp = block
  PROVE  Responding'
<1>1. <<>> \in Seq(Frames) /\ Len(<<>>) = 0 /\ 0 <= FifoSize /\ 0 \in 0..TxSize
  BY Bounds, EmptyFifo
<1> DEFINE none == <<>>
<1>2. \A i \in 1..Len(none) : none[i].from = "response" => cmd_handler' /\ PacketOpen' /\ none[i].of = block
  BY <1>1
<1>3. /\ none \in Seq(Frames) /\ Len(none) <= FifoSize
      /\ FillSlaveTxFifo(none, 0, resp, resp_idx, done)
  BY <1>1
<1> HIDE DEF none
<1>4. QED
  BY <1>1, <1>2, <1>3, Answering

\* No frame of a response outlives the packet it answers.
LEMMA RespondingStep ==
  ASSUME SpiTypeOK, Packets, PacketEnds, PacketEnds', Received, CommandTurn, Responding, SpiNext, ~hurried'
  PROVE  Responding'
<1>1. /\ <<>> \in Seq(Frames) /\ Len(<<>>) = 0 /\ 0 <= FifoSize /\ tx_fifo \in Seq(Frames) /\ Len(tx_fifo) <= FifoSize
      /\ 0 \in 0..TxSize /\ slave_tx_idx \in 0..TxSize /\ 0 \in 0..MaxBlocks /\ block \in 0..MaxBlocks
      /\ resp_tx_buffer \in 0..MaxBlocks /\ resp_buff_tx_idx \in 0..Response(resp_tx_buffer)
      /\ 0 \in 0..Response(0) /\ 0 \in 0..Response(block) /\ cmd_done \in BOOLEAN /\ FALSE \in BOOLEAN
      /\ TRUE \in BOOLEAN /\ Len(tx_fifo) \in Nat /\ ~hurried /\ Len(reports) \in Nat /\ block \in Nat
  BY Bounds, EmptyFifo, Lengths, HurriedStays DEF SpiTypeOK, SpiTxTypes, SpiMasterTypes, Response
<1>2. CASE UNCHANGED <<tx_fifo, resp_tx_buffer, block, cmd_handler, reports>>
  BY <1>2 DEF Responding, PacketOpen
<1>3. CASE SetSlaveBlockBuffers \/ SetCmdHandler
  <2>1. UNCHANGED block
    BY <1>3 DEF SetSlaveBlockBuffers, SetCmdHandler, spiMaster
  <2>2. CASE FillSlaveTxFifo(<<>>, 0, 0, 0, FALSE)
    BY <1>1, <2>1, <2>2, AnsweringAfresh
  <2>3. CASE FillSlaveTxFifo(<<>>, 0, 0, 0, TRUE)
    BY <1>1, <2>1, <2>3, AnsweringAfresh
  <2>4. CASE SetSlaveBlockBuffers
    <3>1. CASE cmd_handler = TRUE
      BY <2>2, <2>4, <3>1 DEF SetSlaveBlockBuffers
    <3>2. CASE cmd_handler = FALSE
      BY <2>3, <2>4, <3>2 DEF SetSlaveBlockBuffers
    <3>3. QED
      BY <3>1, <3>2, Lengths
  <2>5. QED
    BY <1>3, <2>2, <2>4 DEF SetCmdHandler
<1>4. CASE EnterSpiIsr \/ RxDoneIsr \/ TxDoneIsr \/ OverflowIsr \/ UnderrunIsr
  <2>1. /\ UNCHANGED <<block, cmd_handler, reports>>
        /\ \/ UNCHANGED spiTx
           \/ FillSlaveTxFifo(<<>>, 0, resp_tx_buffer, resp_buff_tx_idx, cmd_done)
           \/ FillSlaveTxFifo(tx_fifo, slave_tx_idx, resp_tx_buffer, resp_buff_tx_idx, cmd_done)
    BY <1>4, OtherStages DEF spiConf, spiMaster
  <2>2. PacketOpen' <=> PacketOpen
    BY <2>1 DEF PacketOpen
  <2>3. /\ resp_tx_buffer # 0 => cmd_handler' /\ PacketOpen' /\ resp_tx_buffer = block
        /\ \A i \in 1..Len(tx_fifo) :
             tx_fifo[i].from = "response" => cmd_handler' /\ PacketOpen' /\ tx_fifo[i].of = block
    BY <1>1, <2>1, <2>2 DEF Responding
  <2>4. CASE UNCHANGED spiTx
    BY <1>2, <2>1, <2>4 DEF spiTx
  <2>5. CASE FillSlaveTxFifo(<<>>, 0, resp_tx_buffer, resp_buff_tx_idx, cmd_done)
    BY <1>1, <2>1, <2>3, <2>5, AnsweringAfresh
  <2>6. CASE FillSlaveTxFifo(tx_fifo, slave_tx_idx, resp_tx_buffer, resp_buff_tx_idx, cmd_done)
    BY <1>1, <2>1, <2>3, <2>6, Answering
  <2>7. QED
    BY <2>1, <2>4, <2>5, <2>6
<1>5. CASE CmdIsr
  <2>1. UNCHANGED <<block, cmd_handler, reports, selected>>
    BY <1>5 DEF CmdIsr, Handle, spiConf, spiMaster
  <2>2. PacketOpen' <=> PacketOpen
    BY <2>1 DEF PacketOpen
  <2>3. \A i \in 1..Len(tx_fifo) :
             tx_fifo[i].from = "response" => cmd_handler' /\ PacketOpen' /\ tx_fifo[i].of = block
    BY <2>1, <2>2 DEF Responding
  <2>4. resp_tx_buffer # 0 => cmd_handler' /\ PacketOpen' /\ resp_tx_buffer = block
    BY <2>1, <2>2 DEF Responding
  <2>5. CASE UNCHANGED spiTx
    BY <1>2, <2>1, <2>5 DEF spiTx
  <2>6. CASE "CMD" \in spi_ints /\ FillSlaveTxFifo(tx_fifo, slave_tx_idx, block, 0, TRUE)
    <3>1. cmd_handler' /\ PacketOpen'
      BY <2>1, <2>2, <2>6 DEF CommandTurn, PacketEnds
    <3>2. QED
      BY <1>1, <2>1, <2>3, <2>6, <3>1, Answering
  <2>7. CASE FillSlaveTxFifo(tx_fifo, slave_tx_idx, resp_tx_buffer, resp_buff_tx_idx, TRUE)
    BY <1>1, <2>1, <2>3, <2>4, <2>7, Answering
  <2>8. QED
    BY <1>5, <2>5, <2>6, <2>7, Command
<1>6. CASE SsendIsr
  <2>1. CASE UNCHANGED <<spiTx, spiMaster, cmd_handler, reports>>
    BY <1>2, <2>1 DEF spiTx, spiMaster
  <2>2. CASE cmd_handler /\ UNCHANGED spiMaster /\ FillSlaveTxFifo(<<>>, 0, 0, 0, FALSE)
    BY <1>1, <2>2, AnsweringAfresh DEF spiMaster
  <2>3. CASE /\ ~cmd_handler /\ UNCHANGED spiMaster
             /\ FillSlaveTxFifo(<<>>, 0, resp_tx_buffer, resp_buff_tx_idx, cmd_done)
    <3>1. ~(resp_tx_buffer # 0)
      BY <2>3 DEF Responding
    <3>2. QED
      BY <1>1, <2>3, <3>1, AnsweringAfresh DEF spiMaster
  <2>4. QED
    BY <1>6, <2>1, <2>2, <2>3, Report
<1>7. CASE Select
  <2>1. ~PacketOpen /\ UNCHANGED <<tx_fifo, resp_tx_buffer>>
    BY <1>1, <1>7 DEF Select, PacketEnds, PacketOpen, spiTx
  <2>2. QED
    BY <2>1 DEF Responding
<1>8. CASE Exchange
  <2>1. /\ UNCHANGED <<block, cmd_handler, reports, resp_tx_buffer>>
        /\ tx_fifo' = tx_fifo \/ (tx_fifo # <<>> /\ tx_fifo' = Tail(tx_fifo))
    BY <1>8 DEF Exchange, spiConf
  <2>2. PacketOpen' <=> PacketOpen
    BY <2>1 DEF PacketOpen
  <2>3. CASE tx_fifo # <<>> /\ tx_fifo' = Tail(tx_fifo)
    <3>1. /\ Len(tx_fifo') = Len(tx_fifo) - 1
          /\ \A i \in 1..Len(tx_fifo') : tx_fifo'[i] = tx_fifo[i+1]
      BY <1>1, <2>3, HeadTailProperties
    <3>2. \A i \in 1..Len(tx_fifo') : i + 1 \in 1..Len(tx_fifo)
      BY <1>1, <3>1
    <3>3. QED
      BY <2>1, <2>2, <3>1, <3>2 DEF Responding
  <2>4. QED
    BY <1>2, <2>1, <2>3
<1>9. CASE Deselect
  BY <1>2, <1>9 DEF Deselect, spiTx, spiConf
<1>10. QED
  BY <1>3, <1>4, <1>5, <1>6, <1>7, <1>8, <1>9 DEF SpiNext, SpiMaster, SpiIsr

\* The master is never sent a response to the command of another packet.
LEMMA NoStray ==
  ASSUME SpiTypeOK, Responding, SpiNext, ~stray_response
  PROVE  ~stray_response'
<1>1. CASE Exchange
  <2>1. tx_fifo # <<>> => 1 \in 1..Len(tx_fifo) /\ Head(tx_fifo) = tx_fifo[1]
    BY HeadTailProperties, LenProperties DEF SpiTypeOK, SpiTxTypes
  <2>2. ~(tx_fifo # <<>> /\ Head(tx_fifo).from = "response" /\ Head(tx_fifo).of # block)
    BY <2>1 DEF Responding
  <2>3. QED
    BY <1>1, <2>2 DEF Exchange
<1>2. CASE SpiIsr
  BY <1>2, HandlerFrame DEF spiMaster
<1>3. CASE SetSlaveBlockBuffers \/ SetCmdHandler \/ Select \/ Deselect
  BY <1>3 DEF SetSlaveBlockBuffers, SetCmdHandler, Select, Deselect, spiMaster
<1>4. QED
  BY <1>1, <1>2, <1>3 DEF SpiNext, SpiMaster

-----------------------------------------------------------------------------
(* The theorems *)

LEMMA SpiInitially == SpiInit => SpiInv
<1> SUFFICES ASSUME SpiInit PROVE SpiInv
  OBVIOUS
<1>1. SpiTypeOK /\ Packets
  BY TypesInitially
<1> USE EmptyFifo DEF SpiInit
<1>2. SpiSafety
  BY DEF SpiSafety, PacketsReported, CommandsGiven, CommandsServed
<1>3. ~PacketOpen
  BY DEF PacketOpen
<1>4. PacketEnds
  BY <1>3 DEF PacketEnds
<1>5. Received
  <2>1. Min({RxSize, 0}) = 0
    BY MinRx
  <2>2. QED
    BY <1>3, <2>1 DEF Received
<1>6. CommandTurn
  BY DEF CommandTurn
<1>7. Responding
  BY DEF Responding
<1>8. QED
  BY <1>1, <1>2, <1>4, <1>5, <1>6, <1>7 DEF SpiInv

LEMMA SpiInductive == SpiInv /\ [SpiNext]_spiVars => SpiInv'
<1> SUFFICES ASSUME SpiInv, [SpiNext]_spiVars PROVE SpiInv'
  OBVIOUS
<1>1. SpiTypeOK' /\ Packets'
  BY Typed DEF SpiInv
<1>2. CASE UNCHANGED spiVars
  BY <1>1, <1>2
     DEF SpiInv, spiVars, spiConf, spiTx, spiRx, spiMaster, SpiSafety, PacketsReported, CommandsGiven, CommandsServed,
         PacketEnds, PacketOpen, Received, CommandTurn, Responding
<1>3. CASE SpiNext /\ ~hurried'
  <2>1. /\ ~hurried /\ SpiTypeOK /\ Packets /\ PacketEnds /\ Received /\ CommandTurn /\ Responding
        /\ PacketsReported /\ CommandsGiven /\ CommandsServed /\ ~stray_response
    BY <1>3, HurriedStays DEF SpiInv, SpiSafety
  <2>2. PacketEnds'
    BY <1>3, <2>1, EndsStep
  <2>3. Received' /\ CommandTurn' /\ Responding'
    BY <1>3, <2>1, <2>2, ReceivedStep, CommandTurnStep, RespondingStep
  <2>4. PacketsReported' /\ CommandsGiven' /\ CommandsServed' /\ ~stray_response'
    BY <1>3, <2>1, ReportedStep, GivenStep, ServedStep, NoStray
  <2>5. QED
    BY <1>1, <2>2, <2>3, <2>4 DEF SpiInv, SpiSafety
<1>4. CASE SpiNext /\ hurried'
  BY <1>1, <1>4 DEF SpiInv, SpiSafety
<1>5. QED
  BY <1>2, <1>3, <1>4

\* The driver's positions stay within its buffers, whatever the master does.
THEOREM SpiTyping == SpiSpec => []SpiTypeOK
<1>1. SpiInit => SpiTypeOK /\ Packets
  BY TypesInitially
<1>2. (SpiTypeOK /\ Packets) /\ [SpiNext]_spiVars => (SpiTypeOK /\ Packets)'
  BY Typed
<1>3. QED
  BY <1>1, <1>2, PTL DEF SpiSpec

\* Every packet of a master that waits is handed over once, in order and whole,
\* its command is answered once, and no response reaches another packet.
THEOREM PacketsHandedOver == SpiSpec => []SpiSafety
<1>1. SpiInv => SpiSafety
  BY DEF SpiInv
<1>2. QED
  BY <1>1, SpiInitially, SpiInductive, PTL DEF SpiSpec

-----------------------------------------------------------------------------
-----------------------------------------------------------------------------
(* The control endpoint of the USB device *)

\* A packet is no longer than max_pkt_size, nor than what there is to send.
LEMMA PacketFits ==
  ASSUME NEW len \in Nat
  PROVE  /\ Min({len, MaxPacket}) \in 0..MaxPacket /\ Min({len, MaxPacket}) <= len
         /\ len > 0 => Min({len, MaxPacket}) > 0
<1>1. Min({len, MaxPacket}) = IF len <= MaxPacket THEN len ELSE MaxPacket
  BY MinOfTwo, UsbAssumption DEF UsbAssumption
<1>2. QED
  BY <1>1, UsbAssumption DEF UsbAssumption

LEMMA ControlTypes ==
  ASSUME NEW request \in Controls
  PROVE  /\ request.name \in NoData \cup Reads \cup Writes /\ request.length \in Nat
         /\ request.length = 0 <=> request.name \in NoData
         /\ request.name \in Short => request.length = 1
<1>1. CASE request \in [name : NoData, length : {0}]
  BY <1>1 DEF NoData, Reads, Writes, Short
<1>2. CASE request \in [name : Short, length : {1}]
  BY <1>2 DEF NoData, Reads, Writes, Short
<1>3. CASE request \in [name : (Reads \ Short) \cup Writes, length : DataLengths]
  BY <1>3, UsbAssumption DEF UsbAssumption, NoData, Reads, Writes, Short
<1>4. QED
  BY <1>1, <1>2, <1>3 DEF Controls

------------------------------------------------------------------------------
\* Types.

EndpointTypes ==
  /\ cep \in [state : {"IDLE", "TX", "RX"}, buf : {"null", "setup", "reply", "class"},
              txn : 0..MaxPacket, length : Nat, count : Nat]
  /\ cep_state \in {"IDLE", "TX", "RX"} /\ g_setup_pkt \in Controls \cup {NoControl}
  /\ csr0 \subseteq {"RXPKTRDY", "TXPKTRDY", "DATA_END", "SEND_STALL", "STALL_SENT", "SETUP_END"}

LEMMA AwaitTypes ==
  ASSUME AwaitSetup
  PROVE  /\ cep' = [state |-> "IDLE", buf |-> "setup", txn |-> 1, length |-> 1, count |-> 0]
         /\ cep_state' = "IDLE" /\ g_setup_pkt' = NoControl
<1>1. Min({1, MaxPacket}) = 1
  BY MinOfTwo, UsbAssumption DEF UsbAssumption
<1>2. QED
  BY <1>1 DEF AwaitSetup, Prepare, SetupSize

LEMMA ReplyTypes ==
  ASSUME NEW request \in Controls \cup {NoControl}, NEW reply \in Replies(request)
  PROVE  /\ reply.length \in Nat
         /\ request.name \in Reads => \/ reply.buf = "null"
                                      \/ /\ reply.buf = "reply"
                                         /\ reply.length = IF request.name \in Short THEN 1 ELSE ReplyLength
         /\ request.name = "CLASS_OUT" /\ reply.ok => reply.buf = "class" /\ reply.length = request.length
         /\ request.name = "SET_DESCRIPTOR" => reply.buf = "null" /\ reply.length = 0
         /\ request.name \in {"SET_ADDRESS", "SET_CONFIG", "UNSET_CONFIG", "none"} => reply.ok
<1>1. request.length \in Nat
  BY ControlTypes DEF NoControl
<1>2. ReplyLength \in Nat
  BY UsbAssumption DEF UsbAssumption
<1> USE <1>1, <1>2 DEF Reply, Refusal, Done0, Reads, Writes, Short
<1>3. CASE request.name = "GET_DESCRIPTOR"
  <2>1. reply = Refusal \/ reply = Reply("reply", ReplyLength)
    BY <1>3 DEF Replies, GetDescriptor
  <2>2. QED
    BY <1>3, <2>1
<1>4. CASE request.name = "GET_CONFIG"
  BY <1>4 DEF Replies, GetConfig
<1>5. CASE request.name = "GET_STATUS"
  <2>1. reply = Done0 \/ reply = Reply("reply", 1)
    BY <1>5 DEF Replies, GetStatus
  <2>2. QED
    BY <1>5, <2>1
<1>6. CASE request.name \in {"SET_FEATURE", "TEST_MODE"}
  <2>1. reply = Refusal \/ reply = Done0
    BY <1>6 DEF Replies, Feature
  <2>2. QED
    BY <1>6, <2>1
<1>7. CASE request.name = "CLASS_IN"
  <2>1. reply = Refusal \/ reply = Reply("reply", ReplyLength)
    BY <1>7 DEF Replies, ClassRequest
  <2>2. QED
    BY <1>7, <2>1
<1>8. CASE request.name = "CLASS_OUT"
  <2>1. reply = Refusal \/ reply = Reply("class", request.length)
    BY <1>8 DEF Replies, ClassRequest
  <2>2. QED
    BY <1>8, <2>1
<1>9. CASE request.name = "UNKNOWN"
  BY <1>9 DEF Replies
<1>10. CASE request.name \notin {"GET_DESCRIPTOR", "GET_CONFIG", "GET_STATUS", "SET_FEATURE", "TEST_MODE", "CLASS_IN",
                                 "CLASS_OUT", "UNKNOWN"}
  BY <1>10 DEF Replies
<1>11. QED
  BY <1>3, <1>4, <1>5, <1>6, <1>7, <1>8, <1>9, <1>10

LEMMA WriteTypes ==
  ASSUME NEW ep \in [state : {"IDLE", "TX", "RX"}, buf : {"null", "setup", "reply", "class"},
                     txn : 0..MaxPacket, length : Nat, count : Nat],
         NEW csr, WritePacket(ep, csr)
  PROVE  /\ cep' \in [state : {"IDLE", "TX", "RX"}, buf : {"null", "setup", "reply", "class"},
                      txn : 0..MaxPacket, length : Nat, count : Nat]
         /\ cep'.state = ep.state /\ cep'.buf = ep.buf /\ cep'.txn = ep.txn /\ cep'.length = ep.length
         /\ cep'.count = ep.count + (IF ep.buf = "null" THEN 0 ELSE ep.txn)
         /\ cep_state' = "TX"
         /\ csr0' = csr \cup (IF cep'.count < cep'.length THEN {"TXPKTRDY"} ELSE {"TXPKTRDY", "DATA_END"})
         /\ csr0' \subseteq csr \cup {"TXPKTRDY", "DATA_END"}
<1> DEFINE count == ep.count + (IF ep.buf = "null" THEN 0 ELSE ep.txn)
<1>1. count \in Nat
  BY UsbAssumption DEF UsbAssumption
<1>2. cep' = [ep EXCEPT !.count = count]
  BY DEF WritePacket
<1>3. QED
  BY <1>1, <1>2 DEF WritePacket

\* How the driver goes on from a request.
RefusedInSetup(csr) ==
  /\ csr0' = csr \cup {"SEND_STALL"} /\ cep' = [cep EXCEPT !.state = "IDLE"] /\ g_setup_pkt' = NoControl
  /\ usb_isr' = "exit" /\ UNCHANGED cep_state
Done(request, csr) ==
  /\ request.length = 0 /\ csr0' = csr \cup {"DATA_END"}
  /\ \/ /\ request.name = "SET_ADDRESS" /\ usb_isr' = "address" /\ UNCHANGED <<cep, cep_state, g_setup_pkt>>
     \/ request.name = "TEST_MODE" /\ usb_isr' = "exit" /\ g_setup_pkt' = request /\ UNCHANGED <<cep, cep_state>>
     \/ request.name # "SET_ADDRESS" /\ usb_isr' = "exit" /\ AwaitSetup
Taking(request, csr) ==
  /\ request.name \in Writes /\ cep_state' = "RX" /\ g_setup_pkt' = request /\ usb_isr' = "exit" /\ csr0' = csr
  /\ \E len \in Nat, buf \in {"null", "class"} :
       /\ Prepare("RX", buf, len)
       /\ IF request.name = "CLASS_OUT" THEN buf = "class" /\ len = request.length ELSE buf = "null" /\ len = 0
Sending(request, csr) ==
  /\ request.name \in Reads /\ g_setup_pkt' = request /\ usb_isr' = "exit"
  /\ LET len == Min({IF request.name \in Short THEN 1 ELSE ReplyLength, request.length}) IN
       WritePacket([state |-> "TX", buf |-> "reply", txn |-> Min({len, MaxPacket}), length |-> len, count |-> 0],
                   csr)
Unanswerable(request, csr) ==
  /\ usb_isr' = "trap" /\ csr0' = csr /\ UNCHANGED <<cep, cep_state>>
  /\ request.name \in Reads /\ g_setup_pkt' = request

LEMMA AnswerCases ==
  ASSUME NEW request \in Controls \cup {NoControl}, NEW reply \in Replies(request), NEW csr,
         AnswerRequest(request, reply, csr)
  PROVE  \/ RefusedInSetup(csr) /\ request.name \notin {"SET_ADDRESS", "SET_CONFIG", "UNSET_CONFIG", "none"}
         \/ Done(request, csr) \/ Taking(request, csr) \/ Sending(request, csr) \/ Unanswerable(request, csr)
<1>1. request.length = 0 \/ request.name \in Writes \/ request.name \in Reads
  BY ControlTypes DEF NoControl
<1>2. CASE ~reply.ok
  BY <1>2, ReplyTypes DEF AnswerRequest, RefusedInSetup, Exit
<1>3. CASE reply.ok /\ request.length = 0
  <2>1. Done(request, csr)
    BY <1>3 DEF AnswerRequest, Done, Exit
  <2>2. QED
    BY <2>1
<1>4. CASE reply.ok /\ request.length # 0 /\ request.name \in Writes
  <2>1. IF request.name = "CLASS_OUT" THEN reply.buf = "class" /\ reply.length = request.length
                                     ELSE reply.buf = "null" /\ reply.length = 0
    BY <1>4, ReplyTypes DEF Writes
  <2>2. reply.length \in Nat /\ reply.buf \in {"null", "class"}
    BY <2>1, ReplyTypes
  <2>3. /\ cep_state' = "RX" /\ g_setup_pkt' = request /\ usb_isr' = "exit" /\ csr0' = csr
        /\ Prepare("RX", reply.buf, reply.length)
    BY <1>4 DEF AnswerRequest, Exit
  <2>4. Taking(request, csr)
    BY <1>4, <2>1, <2>2, <2>3 DEF Taking
  <2>5. QED
    BY <2>4
<1>5. CASE reply.ok /\ request.length # 0 /\ request.name \notin Writes /\ reply.buf = "null"
  <2>1. Unanswerable(request, csr)
    BY <1>1, <1>5 DEF AnswerRequest, Unanswerable
  <2>2. QED
    BY <2>1
<1>6. CASE reply.ok /\ request.length # 0 /\ request.name \notin Writes /\ reply.buf # "null"
  <2>1. reply.buf = "reply" /\ reply.length = IF request.name \in Short THEN 1 ELSE ReplyLength
    BY <1>1, <1>6, ReplyTypes
  <2>2. Sending(request, csr)
    BY <1>1, <1>6, <2>1 DEF AnswerRequest, Sending, Exit
  <2>3. QED
    BY <2>2
<1>7. QED
  BY <1>2, <1>3, <1>4, <1>5, <1>6

LEMMA TypeParts ==
  UsbTypeOK <=>
    /\ EndpointTypes
    /\ {device_state, device_state_at_suspend} \subseteq DeviceStates /\ {device_addr, faddr} \subseteq 0..1
    /\ out_length \in 0..MaxPacket /\ {tx_irq, usb_resumed, usb_raced} \subseteq BOOLEAN
    /\ usb_irq \subseteq {"RESET", "SUSPEND", "RESUME", "DISCONNECT"}
    /\ usb_isr \in {"exit", "endpoint", "address", "trap"} /\ host \in Hosts
    /\ host_view \in [address : 0..1, config : 0..1] /\ written \in Nat
    /\ controls \in 0..MaxControls /\ bus_events \in 0..MaxEvents
BY DEF UsbTypeOK, EndpointTypes

\* The request the driver serves, and the status bits once it has read it.
Csr == csr0 \ {"SETUP_END", "RXPKTRDY"}
Request == IF cep.buf = "setup" THEN host.request ELSE g_setup_pkt
Misread ==
  cep.txn # 1 /\ usb_isr' = "trap" /\ csr0' = Csr /\ UNCHANGED <<deviceVars, cep, cep_state, g_setup_pkt>>

LEMMA SetupCases ==
  ASSUME UsbTypeOK, SetupPacket
  PROVE  /\ Request \in Controls \cup {NoControl}
         /\ \/ Misread
            \/ /\ cep.txn = 1 /\ SetDevice(Request)
               /\ \/ /\ RefusedInSetup(Csr)
                     /\ Request.name \notin {"SET_ADDRESS", "SET_CONFIG", "UNSET_CONFIG", "none"}
                  \/ Done(Request, Csr) \/ Taking(Request, Csr) \/ Sending(Request, Csr) \/ Unanswerable(Request, Csr)
<1>1. Request \in Controls \cup {NoControl}
  BY DEF UsbTypeOK, Request, Hosts
<1>2. CASE cep.txn # 1
  BY <1>1, <1>2 DEF SetupPacket, Misread, Csr, SetupSize
<1>3. CASE cep.txn = 1
  <2>1. PICK reply \in Replies(Request) : AnswerRequest(Request, reply, Csr)
    BY <1>3 DEF SetupPacket, Csr, Request, SetupSize
  <2>2. SetDevice(Request)
    BY <1>3 DEF SetupPacket, Csr, Request, SetupSize
  <2>3. QED
    BY <1>1, <1>3, <2>1, <2>2, AnswerCases
<1>4. QED
  BY <1>2, <1>3

LEMMA EndpointTyped ==
  ASSUME UsbTypeOK, [UsbNext]_usbVars
  PROVE  EndpointTypes'
<1>1. EndpointTypes
  BY TypeParts
<1>2. CASE UNCHANGED <<cep, cep_state, g_setup_pkt>> /\ csr0' \subseteq csr0 \cup {"RXPKTRDY", "STALL_SENT", "SETUP_END"}
  BY <1>1, <1>2 DEF EndpointTypes
<1>3. CASE AwaitSetup /\ csr0' \subseteq csr0 \cup {"DATA_END"}
  <2>1. 1 \in 0..MaxPacket
    BY UsbAssumption DEF UsbAssumption
  <2>2. QED
    BY <1>1, <1>3, <2>1, AwaitTypes DEF EndpointTypes
<1>4. CASE SetupPacket
  <2>1. Csr \subseteq csr0 /\ Request \in Controls \cup {NoControl}
    BY <1>4, SetupCases DEF Csr
  <2>2. CASE Misread
    BY <1>1, <2>1, <2>2 DEF Misread, EndpointTypes
  <2>3. CASE RefusedInSetup(Csr)
    BY <1>1, <2>1, <2>3 DEF RefusedInSetup, EndpointTypes
  <2>4. CASE Done(Request, Csr)
    <3>1. csr0' \subseteq csr0 \cup {"DATA_END"}
      BY <2>1, <2>4 DEF Done
    <3>2. CASE AwaitSetup
      BY <1>3, <3>1, <3>2
    <3>3. CASE UNCHANGED <<cep, cep_state>> /\ g_setup_pkt' \in {g_setup_pkt, Request}
      BY <1>1, <2>1, <3>1, <3>3 DEF EndpointTypes
    <3>4. QED
      BY <2>4, <3>2, <3>3 DEF Done
  <2>5. CASE Taking(Request, Csr)
    <3>1. PICK len \in Nat, buf \in {"null", "class"} : Prepare("RX", buf, len)
      BY <2>5 DEF Taking
    <3>2. Min({len, MaxPacket}) \in 0..MaxPacket
      BY PacketFits
    <3>3. QED
      BY <1>1, <2>1, <2>5, <3>1, <3>2 DEF Taking, Prepare, EndpointTypes
  <2>6. CASE Sending(Request, Csr)
    <3> DEFINE len == Min({IF Request.name \in Short THEN 1 ELSE ReplyLength, Request.length})
               ep == [state |-> "TX", buf |-> "reply", txn |-> Min({len, MaxPacket}), length |-> len, count |-> 0]
    <3>1. len \in Nat
      BY <2>1, ControlTypes, MinOfTwo, UsbAssumption DEF UsbAssumption, NoControl
    <3>2. WritePacket(ep, Csr)
      BY <2>6 DEF Sending
    <3> HIDE DEF len
    <3>3. Min({len, MaxPacket}) \in 0..MaxPacket
      BY <3>1, PacketFits
    <3>4. ep \in [state : {"IDLE", "TX", "RX"}, buf : {"null", "setup", "reply", "class"},
                  txn : 0..MaxPacket, length : Nat, count : Nat]
      BY <3>1, <3>3
    <3> HIDE DEF ep
    <3>5. cep' \in [state : {"IDLE", "TX", "RX"}, buf : {"null", "setup", "reply", "class"},
                     txn : 0..MaxPacket, length : Nat, count : Nat]
          /\ cep_state' = "TX" /\ csr0' \subseteq Csr \cup {"TXPKTRDY", "DATA_END"}
      BY <3>2, <3>4, WriteTypes
    <3>6. QED
      BY <1>1, <2>1, <2>6, <3>5 DEF Sending, EndpointTypes
  <2>7. CASE Unanswerable(Request, Csr)
    BY <1>1, <2>1, <2>7 DEF Unanswerable, EndpointTypes
  <2>8. QED
    BY <1>4, <2>2, <2>3, <2>4, <2>5, <2>6, <2>7, SetupCases
<1>5. CASE SentPacket
  <2>1. CASE cep.state = "TX" /\ cep.count < cep.length
    <3> DEFINE ep == [cep EXCEPT !.txn = Min({cep.length - cep.count, MaxPacket})]
    <3>1. cep.length - cep.count \in Nat
      BY <1>1, <2>1 DEF EndpointTypes
    <3>2. Min({cep.length - cep.count, MaxPacket}) \in 0..MaxPacket
      BY <3>1, PacketFits
    <3>3. ep \in [state : {"IDLE", "TX", "RX"}, buf : {"null", "setup", "reply", "class"},
                  txn : 0..MaxPacket, length : Nat, count : Nat]
      BY <1>1, <3>2 DEF EndpointTypes
    <3>4. WritePacket(ep, csr0) /\ UNCHANGED g_setup_pkt
      BY <1>5, <2>1 DEF SentPacket
    <3> HIDE DEF ep
    <3>5. cep' \in [state : {"IDLE", "TX", "RX"}, buf : {"null", "setup", "reply", "class"},
                     txn : 0..MaxPacket, length : Nat, count : Nat]
          /\ cep_state' = "TX" /\ csr0' \subseteq csr0 \cup {"TXPKTRDY", "DATA_END"}
      BY <3>3, <3>4, WriteTypes
    <3>6. QED
      BY <1>1, <3>4, <3>5 DEF EndpointTypes
  <2>2. QED
    BY <1>2, <1>3, <1>5, <2>1 DEF SentPacket
<1>6. CASE DataPacket
  <2> DEFINE count == cep.count + (IF cep.buf = "null" THEN 0 ELSE out_length)
  <2>1. count \in Nat
    BY <1>1, UsbAssumption DEF EndpointTypes, UsbTypeOK, UsbAssumption
  <2>2. CASE count = cep.length
    <3>1. AwaitSetup /\ csr0' = (csr0 \ {"RXPKTRDY"}) \cup {"DATA_END"}
      <4>1. ~(count < cep.length)
        BY <1>1, <2>1, <2>2 DEF EndpointTypes
      <4>2. QED
        BY <1>6, <2>2, <4>1 DEF DataPacket
    <3>2. QED
      BY <1>3, <3>1
  <2>3. CASE count < cep.length
    <3>1. cep.length - count \in Nat
      BY <1>1, <2>1, <2>3 DEF EndpointTypes
    <3>2. Min({cep.length - count, MaxPacket}) \in 0..MaxPacket
      BY <3>1, PacketFits
    <3>3. Min({Min({cep.length - count, MaxPacket}), MaxPacket}) \in 0..MaxPacket
      BY <3>2, PacketFits
    <3>4. /\ Prepare("RX", cep.buf, Min({cep.length - count, MaxPacket}))
          /\ csr0' = csr0 \ {"RXPKTRDY"} /\ UNCHANGED <<cep_state, g_setup_pkt>>
      BY <1>6, <2>3 DEF DataPacket
    <3> HIDE DEF count
    <3>5. QED
      BY <1>1, <3>2, <3>3, <3>4 DEF Prepare, EndpointTypes
  <2>4. CASE count # cep.length /\ ~(count < cep.length)
    <3>1. /\ cep' = [cep EXCEPT !.state = "IDLE", !.count = count] /\ g_setup_pkt' = NoControl
          /\ csr0' = (csr0 \ {"RXPKTRDY"}) \cup {"SEND_STALL"} /\ UNCHANGED cep_state
      BY <1>6, <2>4 DEF DataPacket
    <3> HIDE DEF count
    <3>2. QED
      BY <1>1, <2>1, <3>1 DEF EndpointTypes
  <2>5. QED
    BY <2>2, <2>3, <2>4
<1>7. CASE EnterUsbIsr
  BY <1>2, <1>3, <1>7 DEF EnterUsbIsr, BusEvents, ResetDevice, DeviceEvents
<1>8. CASE TransferOver \/ SetAddress \/ NothingToDo
  BY <1>2, <1>3, <1>8 DEF TransferOver, SetAddress, NothingToDo, endpointVars
<1>9. CASE HostMoves \/ HostAbort \/ \E request \in Controls : HostSetup(request)
  <2>1. UNCHANGED <<cep, cep_state, g_setup_pkt>> /\ csr0' \subseteq csr0 \cup {"RXPKTRDY", "STALL_SENT", "SETUP_END"}
    BY <1>9 DEF HostMoves, HostIn, HostOut, HostStatus, HostStalled, HostAbort, HostSetup, driverVars, endpointVars
  <2>2. QED
    BY <1>2, <2>1
<1>10. CASE BusReset \/ BusSuspend \/ BusResume \/ Disconnect
  BY <1>2, <1>10 DEF BusReset, BusSuspend, BusResume, Disconnect, BusEvent, driverVars, endpointVars
<1>11. CASE UNCHANGED usbVars
  BY <1>2, <1>11 DEF usbVars, endpointVars
<1>12. QED
  BY <1>4, <1>5, <1>6, <1>7, <1>8, <1>9, <1>10, <1>11 DEF UsbNext, UsbIsr

LEMMA HostStep ==
  ASSUME NEW stage, NEW moved, Host(stage, moved), host \in Hosts
  PROVE  /\ host'.stage = stage /\ host'.moved = moved /\ host'.request = host.request /\ ~host'.ok
         /\ stage \in {"off", "idle", "data", "status", "asleep"} /\ moved \in Nat => host' \in Hosts
BY DEF Host, Hosts

\* The packet that goes out is of the write that is under way.
LEMMA OutPacket ==
  ASSUME UsbTypeOK, Asked, HostOut
  PROVE  /\ host.request.length - host.moved \in Nat /\ host.request.length > host.moved
         /\ out_length' = Min({host.request.length - host.moved, MaxPacket})
         /\ out_length' \in 0..MaxPacket /\ out_length' > 0 /\ out_length' <= host.request.length - host.moved
         /\ host'.moved = host.moved + out_length' /\ host'.moved \in Nat
         /\ host'.stage = IF host'.moved = host.request.length THEN "status" ELSE "data"
<1>1. /\ host.moved \in Nat /\ host.request.length \in Nat /\ host.moved < host.request.length /\ host \in Hosts
  BY ControlTypes DEF HostOut, Asked, Underway, UsbTypeOK, Hosts
<1>2. host.request.length - host.moved \in Nat /\ host.request.length > host.moved
  BY <1>1
<1>3. out_length' = Min({host.request.length - host.moved, MaxPacket})
  BY DEF HostOut
<1>4. out_length' \in 0..MaxPacket /\ out_length' > 0 /\ out_length' <= host.request.length - host.moved
  BY <1>1, <1>2, <1>3, PacketFits
<1>5. Host(IF host.moved + out_length' = host.request.length THEN "status" ELSE "data", host.moved + out_length')
  BY DEF HostOut
<1>6. QED
  BY <1>1, <1>2, <1>3, <1>4, <1>5, HostStep, UsbAssumption DEF UsbAssumption

LEMMA HostTyped ==
  ASSUME UsbTypeOK, Asked, [UsbNext]_usbVars
  PROVE  /\ host' \in Hosts /\ host_view' \in [address : 0..1, config : 0..1] /\ written' \in Nat
         /\ controls' \in 0..MaxControls /\ bus_events' \in 0..MaxEvents /\ out_length' \in 0..MaxPacket
<1> USE UsbAssumption DEF UsbAssumption
<1>1. /\ host \in Hosts /\ host_view \in [address : 0..1, config : 0..1] /\ written \in Nat
      /\ controls \in 0..MaxControls /\ bus_events \in 0..MaxEvents /\ out_length \in 0..MaxPacket
      /\ cep.txn \in 0..MaxPacket /\ host.moved \in Nat
  BY DEF UsbTypeOK, Hosts
<1>2. CASE UNCHANGED <<hostVars, out_length>> /\ written' \in {written, 0, written + out_length}
  BY <1>1, <1>2 DEF hostVars
<1>3. CASE UsbIsr
  BY <1>2, <1>3 DEF UsbIsr, EnterUsbIsr, TransferOver, SetupPacket, SetAddress, SentPacket, DataPacket, NothingToDo,
                    Expecting, HandleEndpoint, endpointVars
<1>4. ASSUME NEW request \in Controls, HostSetup(request)
      PROVE  host' \in Hosts /\ UNCHANGED <<host_view, written, bus_events>> /\ controls' = controls + 1
             /\ controls < MaxControls /\ out_length' = 1
  BY <1>4 DEF HostSetup, Hosts, driverVars, endpointVars, SetupSize
<1>5. CASE HostIn
  <2>1. host.moved + cep.txn \in Nat
    BY <1>1
  <2>2. host' \in Hosts
    BY <1>1, <1>5, <2>1, HostStep DEF HostIn
  <2>3. QED
    BY <1>1, <1>5, <2>2 DEF HostIn, driverVars, endpointVars
<1>6. CASE HostOut
  <2>1. host' \in Hosts
    BY <1>1, <1>6, OutPacket, HostStep DEF HostOut
  <2>2. QED
    BY <1>1, <1>6, <2>1, OutPacket DEF HostOut, driverVars, endpointVars
<1>7. CASE HostStatus
  <2>1. host' \in Hosts
    BY <1>1, <1>7 DEF HostStatus, Hosts
  <2>2. host_view' \in [address : 0..1, config : 0..1]
    BY <1>1, <1>7 DEF HostStatus
  <2>3. QED
    BY <1>1, <1>7, <2>1, <2>2 DEF HostStatus, driverVars, endpointVars
<1>8. CASE HostStalled \/ HostAbort
  <2>1. host' \in Hosts
    BY <1>1, <1>8, HostStep DEF HostStalled, HostAbort
  <2>2. QED
    BY <1>1, <1>8, <2>1 DEF HostStalled, HostAbort, driverVars, endpointVars
<1>9. CASE BusReset \/ BusSuspend \/ BusResume \/ Disconnect
  <2>1. host' \in Hosts
    BY <1>1, <1>9, HostStep DEF BusReset, BusSuspend, BusResume, Disconnect
  <2>2. host_view' \in [address : 0..1, config : 0..1]
    BY <1>1, <1>9 DEF BusReset, BusSuspend, BusResume, Disconnect
  <2>3. QED
    BY <1>1, <1>9, <2>1, <2>2 DEF BusReset, BusSuspend, BusResume, Disconnect, BusEvent, driverVars, endpointVars
<1>10. CASE UNCHANGED usbVars
  BY <1>2, <1>10 DEF usbVars, endpointVars
<1>11. QED
  BY <1>1, <1>3, <1>4, <1>5, <1>6, <1>7, <1>8, <1>9, <1>10 DEF UsbNext, HostMoves

LEMMA DeviceTyped ==
  ASSUME UsbTypeOK, [UsbNext]_usbVars
  PROVE  /\ device_state' \in DeviceStates /\ device_state_at_suspend' \in DeviceStates
         /\ device_addr' \in 0..1 /\ faddr' \in 0..1
<1>1. /\ device_state \in DeviceStates /\ device_state_at_suspend \in DeviceStates
      /\ device_addr \in 0..1 /\ faddr \in 0..1
  BY DEF UsbTypeOK
<1>2. CASE UNCHANGED deviceVars /\ faddr' \in {faddr, device_addr, 0}
  BY <1>1, <1>2 DEF deviceVars
<1>3. CASE EnterUsbIsr
  BY <1>1, <1>3 DEF EnterUsbIsr, BusEvents, ResetDevice, DeviceEvents, DeviceStates
<1>4. CASE SetupPacket
  <2>1. UNCHANGED deviceVars \/ SetDevice(Request)
    BY <1>4, SetupCases DEF Misread
  <2>2. UNCHANGED faddr
    BY <1>4 DEF SetupPacket
  <2>3. CASE SetDevice(Request)
    <3>1. device_addr' \in 0..1 /\ device_state' \in DeviceStates
      BY <1>1, <2>3 DEF SetDevice, DeviceStates
    <3>2. QED
      BY <1>1, <2>2, <2>3, <3>1 DEF SetDevice
  <2>4. QED
    BY <1>2, <2>1, <2>2, <2>3
<1>5. CASE TransferOver \/ SetAddress \/ SentPacket \/ DataPacket \/ NothingToDo
  BY <1>2, <1>5 DEF TransferOver, SetAddress, SentPacket, DataPacket, NothingToDo
<1>6. CASE HostMoves \/ HostAbort \/ \E request \in Controls : HostSetup(request)
  BY <1>2, <1>6 DEF HostMoves, HostIn, HostOut, HostStatus, HostStalled, HostAbort, HostSetup, driverVars
<1>7. CASE BusReset \/ BusSuspend \/ BusResume \/ Disconnect
  BY <1>2, <1>7 DEF BusReset, BusSuspend, BusResume, Disconnect, BusEvent, driverVars
<1>8. CASE UNCHANGED usbVars
  BY <1>2, <1>8 DEF usbVars
<1>9. QED
  BY <1>3, <1>4, <1>5, <1>6, <1>7, <1>8 DEF UsbNext, UsbIsr

LEMMA UsbIsrTyped ==
  ASSUME UsbTypeOK, [UsbNext]_usbVars
  PROVE  /\ usb_irq' \subseteq {"RESET", "SUSPEND", "RESUME", "DISCONNECT"}
         /\ usb_isr' \in {"exit", "endpoint", "address", "trap"}
<1>1. /\ usb_irq \subseteq {"RESET", "SUSPEND", "RESUME", "DISCONNECT"}
      /\ usb_isr \in {"exit", "endpoint", "address", "trap"}
  BY DEF UsbTypeOK
<1>2. CASE EnterUsbIsr
  BY <1>1, <1>2 DEF EnterUsbIsr
<1>3. CASE SetupPacket
  <2>1. usb_isr' \in {"exit", "address", "trap"}
    BY <1>3, SetupCases DEF Misread, RefusedInSetup, Done, Taking, Sending, Unanswerable
  <2>2. QED
    BY <1>1, <1>3, <2>1 DEF SetupPacket, HandleEndpoint
<1>4. CASE TransferOver \/ SetAddress \/ SentPacket \/ DataPacket \/ NothingToDo
  BY <1>1, <1>4 DEF TransferOver, SetAddress, SentPacket, DataPacket, NothingToDo, Expecting, HandleEndpoint, Exit
<1>5. CASE HostMoves \/ HostAbort \/ \E request \in Controls : HostSetup(request)
  BY <1>1, <1>5 DEF HostMoves, HostIn, HostOut, HostStatus, HostStalled, HostAbort, HostSetup, driverVars
<1>6. CASE BusReset \/ BusSuspend \/ BusResume \/ Disconnect
  BY <1>1, <1>6 DEF BusReset, BusSuspend, BusResume, Disconnect, BusEvent, driverVars
<1>7. CASE UNCHANGED usbVars
  BY <1>1, <1>7 DEF usbVars
<1>8. QED
  BY <1>2, <1>3, <1>4, <1>5, <1>6, <1>7 DEF UsbNext, UsbIsr

LEMMA FlagsTyped ==
  ASSUME UsbTypeOK, [UsbNext]_usbVars
  PROVE  tx_irq' \in BOOLEAN /\ usb_resumed' \in BOOLEAN /\ usb_raced' \in BOOLEAN
<1>1. tx_irq \in BOOLEAN /\ usb_resumed \in BOOLEAN /\ usb_raced \in BOOLEAN
  BY DEF UsbTypeOK
<1>2. usb_resumed' \in BOOLEAN
  <2>1. CASE EnterUsbIsr
    BY <1>1, <2>1 DEF EnterUsbIsr
  <2>2. UNCHANGED usb_resumed \/ EnterUsbIsr
    BY DEF UsbNext, UsbIsr, TransferOver, SetupPacket, SetAddress, SentPacket, DataPacket, NothingToDo, Expecting,
           HandleEndpoint, HostMoves, HostIn, HostOut, HostStatus, HostStalled, HostAbort, HostSetup, BusReset,
           BusSuspend, BusResume, Disconnect, BusEvent, driverVars, usbVars
  <2>3. QED
    BY <1>1, <2>1, <2>2
<1>3. usb_raced' \in BOOLEAN
  <2>1. CASE EnterUsbIsr
    BY <2>1, Zenon DEF EnterUsbIsr
  <2>2. CASE TransferOver
    BY <2>2, Zenon DEF TransferOver
  <2>3. CASE SetupPacket
    BY <2>3, Zenon DEF SetupPacket
  <2>4. CASE SentPacket
    <3>1. usb_raced' = usb_raced \/ usb_raced' = (usb_raced \/ "RXPKTRDY" \in csr0)
      BY <2>4 DEF SentPacket
    <3>2. QED
      BY <1>1, <3>1, Zenon
  <2>5. UNCHANGED usb_raced \/ EnterUsbIsr \/ TransferOver \/ SetupPacket \/ SentPacket
    BY DEF UsbNext, UsbIsr, SetAddress, DataPacket, NothingToDo, HostMoves, HostIn, HostOut, HostStatus, HostStalled,
           HostAbort, HostSetup, BusReset, BusSuspend, BusResume, Disconnect, BusEvent, driverVars, usbVars
  <2>6. QED
    BY <1>1, <2>1, <2>2, <2>3, <2>4, <2>5
<1>4. tx_irq' \in BOOLEAN
  <2>1. CASE HostIn
    BY <2>1, Zenon DEF HostIn
  <2>2. UNCHANGED tx_irq \/ tx_irq' = TRUE \/ tx_irq' = FALSE \/ HostIn
    BY DEF UsbNext, UsbIsr, EnterUsbIsr, TransferOver, SetupPacket, SetAddress, SentPacket, DataPacket, NothingToDo,
           Expecting, HandleEndpoint, HostMoves, HostOut, HostStatus, HostStalled, HostAbort, HostSetup, Interrupt,
           BusReset, BusSuspend, BusResume, Disconnect, BusEvent, driverVars, usbVars
  <2>3. QED
    BY <1>1, <2>1, <2>2
<1>5. QED
  BY <1>2, <1>3, <1>4

LEMMA UsbTyped ==
  ASSUME UsbTypeOK, Asked, [UsbNext]_usbVars
  PROVE  UsbTypeOK'
BY EndpointTyped, HostTyped, DeviceTyped, UsbIsrTyped, FlagsTyped DEF EndpointTypes, UsbTypeOK

LEMMA AskedStep ==
  ASSUME UsbTypeOK, Asked, [UsbNext]_usbVars
  PROVE  Asked'
<1>1. host \in Hosts /\ host' \in Hosts /\ host_view \in [address : 0..1, config : 0..1]
  BY HostTyped DEF UsbTypeOK
<1>2. CASE UNCHANGED <<host, host_view>>
  BY <1>2 DEF Asked, Underway, MayAsk
<1>3. CASE UsbIsr \/ UNCHANGED usbVars
  BY <1>2, <1>3 DEF UsbIsr, EnterUsbIsr, TransferOver, SetupPacket, SetAddress, SentPacket, DataPacket, NothingToDo,
                    Expecting, HandleEndpoint, hostVars, usbVars
<1>4. ASSUME NEW request \in Controls, HostSetup(request) PROVE Asked'
  <2>1. /\ host'.request = request /\ host'.moved = 0 /\ ~host'.ok /\ UNCHANGED host_view /\ MayAsk(request)
        /\ host'.stage = IF request.length = 0 THEN "status" ELSE "data"
    BY <1>4 DEF HostSetup
  <2>2. request.length \in Nat
    BY ControlTypes
  <2>3. QED
    BY <2>1, <2>2 DEF Asked, Underway, MayAsk
<1>5. CASE HostIn \/ HostOut
  <2>1. UNCHANGED host_view /\ host'.request = host.request /\ ~host'.ok /\ Underway
    BY <1>1, <1>5, HostStep DEF HostIn, HostOut, Underway
  <2>2. host.request \in Controls /\ MayAsk(host.request)
    BY <2>1 DEF Asked
  <2>3. CASE HostIn
    BY <2>1, <2>2, <2>3 DEF HostIn, Asked, Underway, MayAsk, Reads, Writes, Short
  <2>4. CASE HostOut
    <3>1. /\ host'.moved = host.moved + out_length' /\ host.moved \in Nat /\ host.request.length \in Nat
          /\ out_length' <= host.request.length - host.moved /\ out_length' \in Nat
          /\ host'.stage = IF host'.moved = host.request.length THEN "status" ELSE "data"
      BY <1>1, <2>2, <2>4, OutPacket, ControlTypes, UsbAssumption DEF UsbAssumption, Hosts
    <3>2. host'.stage = "data" => host'.moved < host.request.length
      BY <3>1
    <3>3. QED
      BY <2>1, <2>2, <3>2 DEF Asked, Underway, MayAsk
  <2>5. QED
    BY <1>5, <2>3, <2>4
<1>6. CASE HostStatus
  <2>1. host'.stage = "idle" /\ Underway
    BY <1>1, <1>6 DEF HostStatus, Hosts, Underway
  <2>2. host_view'.config = 1 => host_view'.address = 1
    <3>1. host.request.name = "SET_CONFIG" => host_view.address = 1
      BY <2>1 DEF Asked, MayAsk
    <3>2. QED
      BY <1>1, <1>6, <3>1 DEF HostStatus, Asked
  <2>3. QED
    BY <2>1, <2>2 DEF Asked, Underway
<1>7. CASE HostStalled \/ HostAbort
  BY <1>1, <1>7, HostStep DEF HostStalled, HostAbort, Asked, Underway
<1>8. CASE BusReset \/ BusSuspend \/ BusResume \/ Disconnect
  <2>1. host'.stage \in {"idle", "asleep", "off"}
    BY <1>1, <1>8, HostStep DEF BusReset, BusSuspend, BusResume, Disconnect
  <2>2. UNCHANGED host_view \/ host_view' = [address |-> 0, config |-> 0]
    BY <1>8 DEF BusReset, BusSuspend, BusResume, Disconnect
  <2>3. QED
    BY <2>1, <2>2 DEF Asked, Underway
<1>9. QED
  BY <1>3, <1>4, <1>5, <1>6, <1>7, <1>8 DEF UsbNext, HostMoves

------------------------------------------------------------------------------
\* What holds whether a request comes in time or not.

LEMMA BusEventsStep ==
  ASSUME UsbTypeOK, Asked, BusEventsServed, UsbNext
  PROVE  BusEventsServed'
<1>1. host \in Hosts
  BY DEF UsbTypeOK
<1>2. CASE EnterUsbIsr
  BY <1>2 DEF EnterUsbIsr, BusEventsServed, hostVars
<1>3. CASE TransferOver \/ SetupPacket \/ SentPacket \/ DataPacket \/ NothingToDo \/ SetAddress
  <2>1. UNCHANGED <<usb_irq, tx_irq, host>> /\ usb_isr \in {"endpoint", "address"}
    BY <1>3 DEF TransferOver, SetupPacket, SentPacket, DataPacket, NothingToDo, SetAddress, Expecting, HandleEndpoint,
                hostVars
  <2>2. usb_irq = {} /\ host.stage # "asleep"
    BY <2>1 DEF BusEventsServed
  <2>3. QED
    BY <2>1, <2>2 DEF BusEventsServed
<1>4. ASSUME NEW request \in Controls, HostSetup(request) PROVE BusEventsServed'
  BY <1>4 DEF HostSetup, QuietBus, BusEventsServed
<1>5. CASE HostMoves \/ HostAbort
  <2>1. UNCHANGED usb_irq /\ Underway /\ host'.stage \in {"data", "status", "idle"}
    BY <1>1, <1>5, HostStep
       DEF HostMoves, HostIn, HostOut, HostStatus, HostStalled, HostAbort, Underway, Hosts
  <2>2. usb_irq = {}
    BY <2>1 DEF BusEventsServed
  <2>3. QED
    BY <2>1, <2>2 DEF BusEventsServed
<1>6. CASE BusReset
  <2>1. /\ usb_irq' = {"RESET"} /\ usb_isr' \in {"exit", "trap"} /\ csr0' = {} /\ ~tx_irq' /\ faddr' = 0
        /\ host_view'.address = 0 /\ host_view'.config = 0
    BY <1>6 DEF BusReset, BusEvent, driverVars
  <2>2. host'.stage = "idle" /\ ~host'.ok
    BY <1>1, <1>6, HostStep DEF BusReset
  <2>3. QED
    BY <2>1, <2>2 DEF BusEventsServed, Underway
<1>7. CASE BusSuspend
  <2>1. usb_irq' = {"SUSPEND"} /\ usb_isr' \in {"exit", "trap"} /\ ~tx_irq'
    BY <1>7 DEF BusSuspend, BusEvent, driverVars
  <2>2. host'.stage = "asleep"
    BY <1>1, <1>7, HostStep DEF BusSuspend
  <2>3. QED
    BY <2>1, <2>2 DEF BusEventsServed, Underway
<1>8. CASE BusResume
  <2>1. usb_irq' = {"RESUME"} /\ usb_isr' \in {"exit", "trap"} /\ ~tx_irq'
    BY <1>8 DEF BusResume, BusEvent, driverVars, BusEventsServed
  <2>2. host'.stage = "idle" /\ ~host'.ok
    BY <1>1, <1>8, HostStep DEF BusResume
  <2>3. QED
    BY <2>1, <2>2 DEF BusEventsServed, Underway
<1>9. CASE Disconnect
  <2>1. usb_irq' = {"DISCONNECT"} /\ usb_isr' \in {"exit", "trap"}
    BY <1>9 DEF Disconnect, BusEvent, driverVars
  <2>2. host'.stage = "off"
    BY <1>1, <1>9, HostStep DEF Disconnect
  <2>3. QED
    BY <2>1, <2>2 DEF BusEventsServed, Underway
<1>10. QED
  BY <1>2, <1>3, <1>4, <1>5, <1>6, <1>7, <1>8, <1>9 DEF UsbNext, UsbIsr

\* Where the host's steps leave what the driver has of the endpoint.
LEMMA EndpointKept ==
  ASSUME HostMoves \/ HostAbort \/ (\E request \in Controls : HostSetup(request)) \/ BusReset \/ BusSuspend
                \/ BusResume \/ Disconnect
  PROVE  UNCHANGED <<cep, cep_state, g_setup_pkt, usb_isr, usb_raced, usb_resumed, deviceVars, written>>
BY DEF HostMoves, HostIn, HostOut, HostStatus, HostStalled, HostAbort, HostSetup, BusReset, BusSuspend, BusResume,
       Disconnect, BusEvent, driverVars, endpointVars

LEMMA BuffersStep ==
  ASSUME UsbTypeOK, BuffersFit, UsbNext
  PROVE  BuffersFit'
<1>1. g_setup_pkt \in Controls \cup {NoControl} /\ cep_state \in {"IDLE", "TX", "RX"}
  BY DEF UsbTypeOK
<1>2. CASE UNCHANGED <<cep, cep_state, g_setup_pkt>>
  BY <1>2 DEF BuffersFit
<1>3. CASE AwaitSetup
  BY <1>3, AwaitTypes DEF BuffersFit
<1>4. CASE SetupPacket
  <2>1. /\ cep_state = "TX" => Request.name \in Reads \cup {"none"}
        /\ cep_state = "RX" => Request.name \in Writes \cup {"none"}
        /\ cep_state = "RX" /\ cep.state # "RX" => Request = NoControl
    BY DEF BuffersFit, Request
  <2>2. Request \in Controls \cup {NoControl}
    BY <1>4, SetupCases
  <2>3. CASE Misread
    BY <1>2, <2>3 DEF Misread
  <2>4. CASE RefusedInSetup(Csr)
    BY <1>1, <2>4 DEF RefusedInSetup, BuffersFit, NoControl, UsbTypeOK
  <2>5. CASE Done(Request, Csr)
    <3>1. CASE Request.name = "TEST_MODE" /\ UNCHANGED <<cep, cep_state>>
      <4>1. cep_state = "IDLE"
        BY <1>1, <2>1, <3>1 DEF Reads, Writes, Short
      <4>2. QED
        BY <3>1, <4>1 DEF BuffersFit
    <3>2. QED
      BY <1>2, <1>3, <2>5, <3>1 DEF Done
  <2>6. CASE Taking(Request, Csr)
    BY <2>6 DEF Taking, Prepare, BuffersFit
  <2>7. CASE Sending(Request, Csr)
    BY <2>7 DEF Sending, WritePacket, BuffersFit
  <2>8. CASE Unanswerable(Request, Csr)
    <3>1. cep_state # "RX" /\ UNCHANGED <<cep, cep_state>> /\ g_setup_pkt' = Request
      BY <2>1, <2>8 DEF Unanswerable, Reads, Writes, Short
    <3>2. QED
      BY <2>1, <3>1 DEF BuffersFit
  <2>9. QED
    BY <1>4, <2>3, <2>4, <2>5, <2>6, <2>7, <2>8, SetupCases
<1>5. CASE SentPacket
  <2>1. CASE cep.state = "TX" /\ cep.count < cep.length
    <3>1. WritePacket([cep EXCEPT !.txn = Min({cep.length - cep.count, MaxPacket})], csr0) /\ UNCHANGED g_setup_pkt
      BY <1>5, <2>1 DEF SentPacket
    <3>2. cep'.buf = cep.buf /\ cep_state' = "TX" /\ cep_state = "TX"
      BY <1>5, <3>1 DEF WritePacket, SentPacket, Expecting, UsbTypeOK
    <3>3. QED
      BY <3>1, <3>2 DEF BuffersFit
  <2>2. QED
    BY <1>2, <1>3, <1>5, <2>1 DEF SentPacket
<1>6. CASE DataPacket
  <2> DEFINE count == cep.count + (IF cep.buf = "null" THEN 0 ELSE out_length)
  <2>1. CASE AwaitSetup
    BY <1>3, <2>1
  <2>2. CASE Prepare("RX", cep.buf, Min({cep.length - count, MaxPacket})) /\ UNCHANGED <<cep_state, g_setup_pkt>>
    BY <1>6, <2>2 DEF Prepare, BuffersFit, DataPacket, Expecting
  <2>3. CASE cep' = [cep EXCEPT !.state = "IDLE", !.count = count] /\ g_setup_pkt' = NoControl /\ UNCHANGED cep_state
    <3>1. cep'.buf = cep.buf /\ cep_state = "RX"
      BY <1>6, <2>3 DEF UsbTypeOK, DataPacket, Expecting
    <3>2. QED
      BY <2>3, <3>1 DEF BuffersFit, NoControl
  <2>4. QED
    BY <1>6, <2>1, <2>2, <2>3 DEF DataPacket
<1>7. CASE EnterUsbIsr \/ TransferOver \/ SetAddress \/ NothingToDo
  BY <1>2, <1>3, <1>7 DEF EnterUsbIsr, BusEvents, ResetDevice, DeviceEvents, TransferOver, SetAddress, NothingToDo,
                          endpointVars
<1>8. QED
  BY <1>2, <1>4, <1>5, <1>6, <1>7, EndpointKept DEF UsbNext, UsbIsr

LEMMA SentCases ==
  ASSUME UsbTypeOK, SentPacket
  PROVE  /\ Expecting("TX") /\ cep_state = "TX" /\ usb_isr' = "exit" /\ UNCHANGED <<host, written, deviceVars, faddr>>
         /\ \/ UNCHANGED <<cep, cep_state, g_setup_pkt, csr0, usb_raced>> /\ cep.state # "TX"
            \/ /\ cep.state = "TX" /\ cep.count < cep.length /\ UNCHANGED usb_raced
               /\ cep_state' = "TX" /\ cep'.state = "TX" /\ cep'.buf = cep.buf /\ cep'.length = cep.length
               /\ cep'.txn = Min({cep.length - cep.count, MaxPacket})
               /\ cep'.count = cep.count + (IF cep.buf = "null" THEN 0 ELSE cep'.txn)
               /\ csr0' = csr0 \cup (IF cep'.count < cep'.length THEN {"TXPKTRDY"} ELSE {"TXPKTRDY", "DATA_END"})
            \/ /\ cep.state = "TX" /\ ~(cep.count < cep.length) /\ AwaitSetup
               /\ usb_raced' = (usb_raced \/ "RXPKTRDY" \in csr0) /\ UNCHANGED csr0
<1>1. /\ Expecting("TX") /\ cep_state = "TX" /\ usb_isr' = "exit" /\ UNCHANGED <<host, written, deviceVars, faddr>>
  BY DEF SentPacket, Expecting, HandleEndpoint, Exit, hostVars
<1>2. CASE cep.state = "TX" /\ cep.count < cep.length
  <2> DEFINE ep == [cep EXCEPT !.txn = Min({cep.length - cep.count, MaxPacket})]
  <2>1. cep.length - cep.count \in Nat /\ cep \in [state : {"IDLE", "TX", "RX"},
           buf : {"null", "setup", "reply", "class"}, txn : 0..MaxPacket, length : Nat, count : Nat]
    BY <1>2 DEF UsbTypeOK
  <2>2. Min({cep.length - cep.count, MaxPacket}) \in 0..MaxPacket
    BY <2>1, PacketFits
  <2>3. /\ ep \in [state : {"IDLE", "TX", "RX"}, buf : {"null", "setup", "reply", "class"},
                   txn : 0..MaxPacket, length : Nat, count : Nat]
        /\ ep.state = cep.state /\ ep.buf = cep.buf /\ ep.length = cep.length /\ ep.count = cep.count
        /\ ep.txn = Min({cep.length - cep.count, MaxPacket})
    BY <2>1, <2>2
  <2>4. WritePacket(ep, csr0) /\ UNCHANGED usb_raced
    BY <1>2 DEF SentPacket
  <2> HIDE DEF ep
  <2>5. /\ cep_state' = "TX" /\ cep'.state = ep.state /\ cep'.buf = ep.buf /\ cep'.length = ep.length
        /\ cep'.txn = ep.txn /\ cep'.count = ep.count + (IF ep.buf = "null" THEN 0 ELSE ep.txn)
        /\ csr0' = csr0 \cup (IF cep'.count < cep'.length THEN {"TXPKTRDY"} ELSE {"TXPKTRDY", "DATA_END"})
    BY <2>3, <2>4, WriteTypes
  <2>6. QED
    BY <1>1, <1>2, <2>3, <2>4, <2>5
<1>3. CASE cep.state # "TX"
  BY <1>1, <1>3 DEF SentPacket
<1>4. CASE cep.state = "TX" /\ ~(cep.count < cep.length)
  BY <1>1, <1>4 DEF SentPacket
<1>5. QED
  BY <1>2, <1>3, <1>4

LEMMA DataCases ==
  ASSUME UsbTypeOK, DataPacket,
         NEW count, count = cep.count + (IF cep.buf = "null" THEN 0 ELSE out_length)
  PROVE  /\ Expecting("RX") /\ cep_state = "RX" /\ "RXPKTRDY" \in csr0 /\ written' = written + out_length
         /\ usb_isr' = "exit" /\ UNCHANGED <<host, deviceVars, faddr, usb_raced>> /\ count \in Nat
         /\ \/ count = cep.length /\ AwaitSetup /\ csr0' = (csr0 \ {"RXPKTRDY"}) \cup {"DATA_END"}
            \/ /\ count < cep.length /\ Prepare("RX", cep.buf, Min({cep.length - count, MaxPacket}))
               /\ csr0' = csr0 \ {"RXPKTRDY"} /\ UNCHANGED <<cep_state, g_setup_pkt>>
            \/ /\ count > cep.length /\ cep' = [cep EXCEPT !.state = "IDLE", !.count = count]
               /\ g_setup_pkt' = NoControl
               /\ csr0' = (csr0 \ {"RXPKTRDY"}) \cup {"SEND_STALL"} /\ UNCHANGED cep_state
<1>1. count \in Nat /\ cep.length \in Nat
  BY UsbAssumption DEF UsbTypeOK, UsbAssumption
<1>2. /\ Expecting("RX") /\ cep_state = "RX" /\ "RXPKTRDY" \in csr0 /\ written' = written + out_length
      /\ usb_isr' = "exit" /\ UNCHANGED <<host, deviceVars, faddr, usb_raced>>
  BY DEF DataPacket, Expecting, HandleEndpoint, Exit, hostVars
<1>3. CASE count = cep.length
  <2>1. ~(count < cep.length)
    BY <1>1, <1>3
  <2>2. QED
    BY <1>1, <1>2, <1>3, <2>1 DEF DataPacket
<1>4. CASE count < cep.length
  <2>1. count # cep.length
    BY <1>1, <1>4
  <2>2. QED
    BY <1>1, <1>2, <1>4, <2>1 DEF DataPacket
<1>5. CASE count > cep.length
  <2>1. count # cep.length /\ ~(count < cep.length)
    BY <1>1, <1>5
  <2>2. QED
    BY <1>1, <1>2, <1>5, <2>1 DEF DataPacket
<1>6. QED
  BY <1>1, <1>3, <1>4, <1>5

\* What the host's steps do with the status bits and the stage.
LEMMA HostCases ==
  ASSUME UsbTypeOK, HostMoves \/ HostAbort
  PROVE  /\ Underway /\ host'.stage \in {"data", "status", "idle"} /\ host'.request = host.request
         /\ \/ /\ HostIn /\ "TXPKTRDY" \in csr0 /\ csr0' = csr0 \ {"TXPKTRDY"} /\ ~host'.ok
               /\ host'.moved = host.moved + cep.txn
               /\ host'.stage = IF "DATA_END" \in csr0 THEN "status" ELSE "data"
            \/ /\ HostOut /\ csr0 \cap {"RXPKTRDY", "SEND_STALL", "DATA_END"} = {} /\ csr0' = csr0 \cup {"RXPKTRDY"}
               /\ host'.stage # "idle" /\ ~host'.ok
            \/ /\ HostStatus /\ "DATA_END" \in csr0 /\ csr0' = csr0 \ {"DATA_END"} /\ host'.stage = "idle"
               /\ host'.moved = host.moved
            \/ /\ HostStalled /\ csr0' = (csr0 \ {"SEND_STALL", "DATA_END"}) \cup {"STALL_SENT"}
               /\ host'.stage = "idle" /\ ~host'.ok
            \/ /\ HostAbort /\ "RXPKTRDY" \notin csr0 /\ host'.stage = "idle" /\ ~host'.ok
               /\ csr0' = (csr0 \ {"TXPKTRDY", "DATA_END", "SEND_STALL"})
                            \cup (IF "DATA_END" \in csr0 THEN {} ELSE {"SETUP_END"})
<1>1. host \in Hosts
  BY DEF UsbTypeOK
<1>2. CASE HostIn
  BY <1>1, <1>2, HostStep DEF HostIn, Underway
<1>3. CASE HostOut
  BY <1>1, <1>3, HostStep DEF HostOut, Underway
<1>4. CASE HostStatus
  <2>1. host'.stage = "idle" /\ host'.request = host.request /\ host'.moved = host.moved
    BY <1>1, <1>4 DEF HostStatus, Hosts
  <2>2. QED
    BY <1>4, <2>1 DEF HostStatus, Underway
<1>5. CASE HostStalled
  BY <1>1, <1>5, HostStep DEF HostStalled, Underway
<1>6. CASE HostAbort
  BY <1>1, <1>6, HostStep DEF HostAbort, Underway
<1>7. QED
  BY <1>2, <1>3, <1>4, <1>5, <1>6 DEF HostMoves

LEMMA BusCases ==
  ASSUME UsbTypeOK, BusReset \/ BusSuspend \/ BusResume \/ Disconnect
  PROVE  /\ ~host'.ok
         /\ \/ BusReset /\ csr0' = {} /\ host'.stage = "idle" /\ "RESET" \in usb_irq'
            \/ /\ UNCHANGED <<csr0, tx_irq, faddr, host_view>> /\ "RESET" \notin usb_irq' /\ usb_irq = {}
               /\ \/ host.stage = "idle" /\ host'.stage = "asleep"
                  \/ host.stage = "asleep" /\ host'.stage = "idle" /\ "RESUME" \in usb_irq'
                  \/ host'.stage = "off"
<1>1. host \in Hosts
  BY DEF UsbTypeOK
<1>2. CASE BusReset
  BY <1>1, <1>2, HostStep DEF BusReset, BusEvent
<1>3. CASE BusSuspend
  BY <1>1, <1>3, HostStep DEF BusSuspend, BusEvent, QuietBus
<1>4. CASE BusResume
  BY <1>1, <1>4, HostStep DEF BusResume, BusEvent, QuietBus
<1>5. CASE Disconnect
  BY <1>1, <1>5, HostStep DEF Disconnect, BusEvent, QuietBus
<1>6. QED
  BY <1>2, <1>3, <1>4, <1>5

LEMMA EntryCases ==
  ASSUME EnterUsbIsr
  PROVE  /\ UNCHANGED <<host, host_view, faddr, out_length, written>> /\ usb_irq' = {} /\ ~tx_irq'
         /\ usb_isr = "exit" /\ usb_isr' = IF tx_irq THEN "endpoint" ELSE "exit"
         /\ \/ /\ usb_irq \cap {"RESUME", "RESET"} # {} /\ AwaitSetup /\ csr0' = {}
               /\ device_addr' = 0 /\ device_state' = "DEFAULT"
            \/ /\ usb_irq \cap {"RESUME", "RESET"} = {} /\ DeviceEvents(usb_irq)
               /\ UNCHANGED <<device_addr, cep, cep_state, g_setup_pkt, csr0>>
BY DEF EnterUsbIsr, BusEvents, ResetDevice, DeviceEvents, hostVars

LEMMA BothEndsStep ==
  ASSUME UsbTypeOK, BuffersFit, EndsApart, UsbNext
  PROVE  EndsApart'
<1>1. host \in Hosts /\ g_setup_pkt \in Controls \cup {NoControl} /\ cep_state \in {"IDLE", "TX", "RX"}
      /\ cep.count \in Nat /\ cep.length \in Nat
  BY DEF UsbTypeOK
<1>2. CASE UNCHANGED <<cep, cep_state, csr0, host>>
  BY <1>2 DEF EndsApart, Away, Unfinished
<1>3. CASE /\ AwaitSetup /\ UNCHANGED host /\ csr0' \subseteq csr0 \cup {"DATA_END"}
           /\ "DATA_END" \in csr0' => "DATA_END" \in csr0 \/ "RXPKTRDY" \notin csr0'
  <2>1. cep_state' = "IDLE"
    BY <1>3, AwaitTypes
  <2>2. QED
    BY <1>3, <2>1 DEF EndsApart, Away, Unfinished
<1>4. CASE SetupPacket
  <2>1. /\ UNCHANGED host /\ "RXPKTRDY" \in csr0 /\ "STALL_SENT" \notin csr0
        /\ "SETUP_END" \in csr0 \/ cep_state = "IDLE"
    BY <1>4 DEF SetupPacket, HandleEndpoint, hostVars
  <2>2. /\ Csr \subseteq csr0 \ {"RXPKTRDY"} /\ ("DATA_END" \in Csr <=> "DATA_END" \in csr0)
    BY DEF Csr
  <2>3. /\ Away => "DATA_END" \notin csr0 /\ cep_state # "RX" /\ ~Unfinished
        /\ cep_state = "RX" => "DATA_END" \notin csr0 /\ ~Away
        /\ "DATA_END" \in csr0 => ~Unfinished
    BY <2>1 DEF EndsApart
  <2>4. /\ cep_state = "TX" => Request.name \in Reads \cup {"none"}
        /\ cep_state = "RX" => Request.name \in Writes \cup {"none"}
    BY DEF BuffersFit, Request
  <2>5. CASE Misread
    BY <2>1, <2>2, <2>3, <2>5 DEF Misread, EndsApart, Away, Unfinished
  <2>6. CASE RefusedInSetup(Csr)
    <3>1. cep'.state = "IDLE" /\ UNCHANGED cep_state
      BY <2>6 DEF RefusedInSetup, UsbTypeOK
    <3>2. "RXPKTRDY" \notin csr0' /\ ("DATA_END" \in csr0' => "DATA_END" \in csr0)
      BY <2>2, <2>6 DEF RefusedInSetup
    <3>3. QED
      BY <2>1, <2>3, <3>1, <3>2 DEF EndsApart, Away, Unfinished
  <2>7. CASE Done(Request, Csr)
    <3>1. "RXPKTRDY" \notin csr0'
      BY <2>2, <2>7 DEF Done
    <3>2. CASE Request.name \in {"SET_ADDRESS", "TEST_MODE"} /\ UNCHANGED <<cep, cep_state>>
      <4>1. cep_state = "IDLE"
        BY <1>1, <2>4, <3>2 DEF Reads, Writes, Short
      <4>2. QED
        BY <2>1, <3>1, <3>2, <4>1 DEF EndsApart, Away, Unfinished
    <3>3. CASE AwaitSetup
      BY <2>1, <3>1, <3>3, AwaitTypes DEF EndsApart, Away, Unfinished
    <3>4. QED
      BY <2>7, <3>2, <3>3 DEF Done
  <2>8. CASE Taking(Request, Csr)
    <3>1. cep_state' = "RX" /\ csr0' = Csr
      BY <2>8 DEF Taking
    <3>2. QED
      BY <2>1, <2>2, <2>3, <3>1 DEF EndsApart, Away, Unfinished
  <2>9. CASE Sending(Request, Csr)
    <3> DEFINE len == Min({IF Request.name \in Short THEN 1 ELSE ReplyLength, Request.length})
               ep == [state |-> "TX", buf |-> "reply", txn |-> Min({len, MaxPacket}), length |-> len, count |-> 0]
    <3>1. WritePacket(ep, Csr)
      BY <2>9 DEF Sending
    <3>2. cep_state' = "TX" /\ csr0' = Csr \cup (IF cep'.count < cep'.length THEN {"TXPKTRDY"} ELSE {"TXPKTRDY", "DATA_END"})
      BY <3>1 DEF WritePacket
    <3>3. "RXPKTRDY" \notin csr0'
      BY <2>2, <3>2
    <3>4. Away /\ "DATA_END" \in csr0' => ~(cep'.count < cep'.length)
      BY <2>2, <2>3, <3>2
    <3>5. QED
      BY <2>1, <3>2, <3>3, <3>4 DEF EndsApart, Away, Unfinished
  <2>10. CASE Unanswerable(Request, Csr)
    BY <2>1, <2>2, <2>3, <2>10 DEF Unanswerable, EndsApart, Away, Unfinished
  <2>11. QED
    BY <1>4, <2>5, <2>6, <2>7, <2>8, <2>9, <2>10, SetupCases
<1>5. CASE SentPacket
  <2>1. CASE /\ cep.state = "TX" /\ cep.count < cep.length
             /\ cep_state' = "TX"
             /\ csr0' = csr0 \cup (IF cep'.count < cep'.length THEN {"TXPKTRDY"} ELSE {"TXPKTRDY", "DATA_END"})
    <3>1. Unfinished /\ "STALL_SENT" \notin csr0 /\ UNCHANGED host
      BY <1>5, <2>1, SentCases DEF Unfinished, Expecting
    <3>2. /\ Away => "RXPKTRDY" \notin csr0 /\ "DATA_END" \notin csr0
          /\ "RXPKTRDY" \in csr0 => "DATA_END" \notin csr0
      BY <3>1 DEF EndsApart
    <3>3. QED
      BY <2>1, <3>1, <3>2 DEF EndsApart, Away, Unfinished
  <2>2. QED
    BY <1>2, <1>3, <1>5, <2>1, SentCases
<1>6. CASE DataPacket
  <2> DEFINE count == cep.count + (IF cep.buf = "null" THEN 0 ELSE out_length)
  <2>1. cep_state = "RX" /\ "RXPKTRDY" \in csr0 /\ "STALL_SENT" \notin csr0 /\ UNCHANGED host
    BY <1>6, DataCases DEF Expecting
  <2>2. "DATA_END" \notin csr0 /\ ~Away
    BY <2>1 DEF EndsApart
  <2>3. "RXPKTRDY" \notin csr0'
    <3>1. \/ csr0' = (csr0 \ {"RXPKTRDY"}) \cup {"DATA_END"} \/ csr0' = csr0 \ {"RXPKTRDY"}
          \/ csr0' = (csr0 \ {"RXPKTRDY"}) \cup {"SEND_STALL"}
      BY <1>6, DataCases
    <3>2. QED
      BY <3>1
  <2>4. QED
    BY <2>1, <2>2, <2>3 DEF EndsApart, Away
<1>7. CASE EnterUsbIsr
  <2>1. CASE AwaitSetup /\ csr0' = {} /\ UNCHANGED host
    BY <1>3, <2>1
  <2>2. QED
    BY <1>2, <1>7, <2>1, EntryCases
<1>8. CASE TransferOver
  BY <1>3, <1>8 DEF TransferOver, HandleEndpoint, hostVars
<1>9. CASE SetAddress
  BY <1>3, <1>9 DEF SetAddress, hostVars
<1>10. CASE NothingToDo
  BY <1>2, <1>10 DEF NothingToDo, HandleEndpoint, endpointVars, hostVars
<1>11. ASSUME NEW request \in Controls, HostSetup(request) PROVE EndsApart'
  <2>1. host.stage = "idle" /\ host'.stage \in {"data", "status"} /\ csr0' = csr0 \cup {"RXPKTRDY"}
    BY <1>11 DEF HostSetup
  <2>2. UNCHANGED <<cep, cep_state>>
    BY <1>11 DEF HostSetup, driverVars, endpointVars
  <2>3. QED
    BY <2>1, <2>2 DEF EndsApart, Away, Unfinished
<1>12. CASE HostMoves \/ HostAbort
  <2>1. UNCHANGED <<cep, cep_state>>
    BY <1>12, EndpointKept
  <2>2. QED
    BY <1>12, <2>1, HostCases DEF EndsApart, Away, Unfinished
<1>13. CASE BusReset \/ BusSuspend \/ BusResume \/ Disconnect
  <2>1. UNCHANGED <<cep, cep_state>>
    BY <1>13, EndpointKept
  <2>2. QED
    BY <1>13, <2>1, BusCases DEF EndsApart, Away, Unfinished
<1>14. QED
  BY <1>4, <1>5, <1>6, <1>7, <1>8, <1>9, <1>10, <1>11, <1>12, <1>13 DEF UsbNext, UsbIsr

LEMMA StoppedStep ==
  ASSUME UsbTypeOK, BuffersFit, EndsApart, BusEventsServed, StoppedIsStalled, UsbNext
  PROVE  StoppedIsStalled'
<1>1. host \in Hosts /\ g_setup_pkt \in Controls \cup {NoControl} /\ cep_state \in {"IDLE", "TX", "RX"}
  BY DEF UsbTypeOK
<1>2. CASE UNCHANGED <<cep, cep_state, csr0, host>> /\ usb_isr # "trap" /\ "RESET" \notin usb_irq
  BY <1>2 DEF StoppedIsStalled, Away
<1>3. CASE cep_state' # "RX"
  BY <1>3 DEF StoppedIsStalled
<1>4. CASE SetupPacket
  <2>1. /\ UNCHANGED host /\ "RXPKTRDY" \in csr0 /\ "STALL_SENT" \notin csr0
        /\ "SETUP_END" \in csr0 \/ cep_state = "IDLE"
    BY <1>4 DEF SetupPacket, HandleEndpoint, hostVars
  <2>2. cep_state = "RX" => "DATA_END" \notin csr0 /\ ~Away
    BY <2>1 DEF EndsApart
  <2>3. /\ cep_state = "RX" => Request.name \in Writes \cup {"none"}
        /\ cep_state = "RX" /\ cep.state # "RX" => Request = NoControl
    BY DEF BuffersFit, Request
  <2>4. CASE Misread
    BY <2>4 DEF Misread, StoppedIsStalled
  <2>5. CASE RefusedInSetup(Csr)
    BY <2>1, <2>2, <2>5 DEF RefusedInSetup, Csr, StoppedIsStalled, Away
  <2>6. CASE Done(Request, Csr)
    <3>1. CASE Request.name \in {"SET_ADDRESS", "TEST_MODE"} /\ UNCHANGED <<cep, cep_state>>
      <4>1. cep_state # "RX"
        BY <2>3, <3>1 DEF Writes
      <4>2. QED
        BY <1>3, <3>1, <4>1
    <3>2. CASE AwaitSetup
      BY <1>3, <3>2, AwaitTypes
    <3>3. QED
      BY <2>6, <3>1, <3>2 DEF Done
  <2>7. CASE Taking(Request, Csr)
    BY <2>7 DEF Taking, Prepare, StoppedIsStalled
  <2>8. CASE Sending(Request, Csr)
    BY <1>3, <2>8 DEF Sending, WritePacket
  <2>9. CASE Unanswerable(Request, Csr)
    BY <2>9 DEF Unanswerable, StoppedIsStalled
  <2>10. QED
    BY <1>4, <2>4, <2>5, <2>6, <2>7, <2>8, <2>9, SetupCases
<1>5. CASE SentPacket
  <2>1. cep_state' \in {"TX", "IDLE"}
    BY <1>5, SentCases, AwaitTypes
  <2>2. QED
    BY <1>3, <2>1
<1>6. CASE DataPacket
  <2> DEFINE count == cep.count + (IF cep.buf = "null" THEN 0 ELSE out_length)
  <2>1. /\ cep_state = "RX" /\ "RXPKTRDY" \in csr0 /\ "STALL_SENT" \notin csr0 /\ UNCHANGED host
        /\ \/ AwaitSetup
           \/ Prepare("RX", cep.buf, Min({cep.length - count, MaxPacket}))
           \/ csr0' = (csr0 \ {"RXPKTRDY"}) \cup {"SEND_STALL"}
    BY <1>6, DataCases DEF Expecting
  <2>2. "DATA_END" \notin csr0 /\ ~Away
    BY <2>1 DEF EndsApart
  <2>3. CASE AwaitSetup
    BY <1>3, <2>3, AwaitTypes
  <2>4. CASE Prepare("RX", cep.buf, Min({cep.length - count, MaxPacket}))
    BY <2>4 DEF Prepare, StoppedIsStalled
  <2>5. CASE csr0' = (csr0 \ {"RXPKTRDY"}) \cup {"SEND_STALL"}
    BY <2>1, <2>2, <2>5 DEF StoppedIsStalled, Away
  <2>6. QED
    BY <2>1, <2>3, <2>4, <2>5
<1>7. CASE EnterUsbIsr
  <2>1. CASE AwaitSetup
    BY <1>3, <2>1, AwaitTypes
  <2>2. QED
    BY <1>2, <1>7, <2>1, EntryCases
<1>8. CASE TransferOver \/ SetAddress
  <2>1. AwaitSetup
    BY <1>8 DEF TransferOver, SetAddress
  <2>2. QED
    BY <1>3, <2>1, AwaitTypes
<1>9. CASE NothingToDo
  <2>1. usb_irq = {}
    BY <1>9 DEF NothingToDo, HandleEndpoint, BusEventsServed
  <2>2. QED
    BY <1>2, <1>9, <2>1 DEF NothingToDo, HandleEndpoint, endpointVars, hostVars
<1>10. ASSUME NEW request \in Controls, HostSetup(request) PROVE StoppedIsStalled'
  <2>1. host.stage = "idle" /\ csr0' = csr0 \cup {"RXPKTRDY"} /\ usb_irq = {}
    BY <1>10 DEF HostSetup, QuietBus
  <2>2. UNCHANGED <<cep, cep_state, usb_isr>>
    BY <1>10 DEF HostSetup, driverVars, endpointVars
  <2>3. QED
    BY <2>1, <2>2 DEF StoppedIsStalled, Away
<1>11. CASE HostMoves \/ HostAbort
  <2>1. UNCHANGED <<cep, cep_state, usb_isr>>
    BY <1>11, EndpointKept
  <2>2. usb_irq = {} /\ ~Away
    BY <1>11, HostCases DEF BusEventsServed, Underway, Away
  <2>3. QED
    BY <1>11, <2>1, <2>2, HostCases DEF StoppedIsStalled, Away
<1>12. CASE BusReset \/ BusSuspend \/ BusResume \/ Disconnect
  <2>1. UNCHANGED <<cep, cep_state, usb_isr>>
    BY <1>12, EndpointKept
  <2>2. QED
    BY <1>12, <2>1, BusCases DEF StoppedIsStalled, Away
<1>13. QED
  BY <1>4, <1>5, <1>6, <1>7, <1>8, <1>9, <1>10, <1>11, <1>12 DEF UsbNext, UsbIsr

------------------------------------------------------------------------------
\* The phases of a transfer, one step of the driver or the host at a time.

\* The part of TransferInStep a step has to bring about, or may rely on.
InPhase ==
  IF Underway
  THEN SetupPending \/ Stalling \/ StatusPending \/ DataSending \/ DataTaking \/ DataTaken
  ELSE Resting

LEMMA PhaseOf ==
  ASSUME TransferInStep, ~usb_raced, host.stage # "off", "RESET" \notin usb_irq, usb_isr # "trap"
  PROVE  InPhase
BY DEF TransferInStep, InPhase

LEMMA InPhaseSuffices ==
  ASSUME InPhase', usb_isr' # "trap", usb_isr' = "address" => Ready'
  PROVE  TransferInStep'
BY DEF TransferInStep, InPhase

\* A request the driver meets in time finds it ready, and is the one it serves.
LEMMA RequestMet ==
  ASSUME UsbTypeOK, Asked, BusEventsServed, TransferInStep, SetupPacket, ~usb_raced, ~usb_raced', host.stage # "off"
  PROVE  /\ UNCHANGED <<host, tx_irq>> /\ usb_isr = "endpoint" /\ written' = 0
         /\ ~(tx_irq /\ cep_state' = "TX") /\ Underway /\ Underway' /\ csr0 # {"DATA_END"}
         /\ Ready /\ Csr = {} /\ Request = host.request /\ Request \in Controls /\ ~host.ok /\ host.moved = 0
         /\ host.stage = "status" <=> Request.length = 0
<1>1. /\ UNCHANGED <<host, tx_irq>> /\ "RXPKTRDY" \in csr0 /\ "STALL_SENT" \notin csr0 /\ usb_isr = "endpoint"
      /\ "SETUP_END" \in csr0 \/ cep_state = "IDLE"
      /\ written' = 0 /\ cep.buf = "setup" /\ ~(tx_irq /\ cep_state' = "TX")
  BY DEF SetupPacket, HandleEndpoint, hostVars
<1>2. usb_irq = {}
  BY <1>1 DEF BusEventsServed
<1>3. Underway /\ SetupPending
  <2>1. InPhase
    BY <1>1, <1>2, PhaseOf
  <2>2. ~Resting /\ ~Stalling /\ ~StatusPending /\ ~DataTaken
    BY <1>1 DEF Resting, Stalling, StatusPending, DataTaken
  <2>3. ~DataSending
    BY <1>1 DEF DataSending
  <2>4. ~DataTaking
    BY <1>1 DEF DataTaking
  <2>5. QED
    BY <2>1, <2>2, <2>3, <2>4 DEF InPhase
<1>4. /\ Ready /\ Csr = {} /\ Request = host.request /\ Request \in Controls /\ ~host.ok /\ host.moved = 0
      /\ host.stage = "status" <=> Request.length = 0
  <2>1. Ready /\ csr0 \subseteq {"RXPKTRDY", "SETUP_END"}
    BY <1>1, <1>3 DEF SetupPending, SentAll, Ready
  <2>2. Csr = {}
    BY <2>1 DEF Csr
  <2>3. QED
    BY <1>1, <1>3, <2>1, <2>2 DEF SetupPending, Asked, Request
<1>5. Underway' /\ UNCHANGED host
  BY <1>1, <1>3 DEF Underway
<1>6. QED
  BY <1>1, <1>3, <1>4, <1>5

LEMMA SetupInStep ==
  ASSUME UsbTypeOK, Asked, BusEventsServed, TransferInStep, SetupPacket, ~usb_raced, ~usb_raced'
  PROVE  TransferInStep'
<1> SUFFICES ASSUME host.stage # "off" PROVE TransferInStep'
  BY DEF SetupPacket, HandleEndpoint, hostVars, TransferInStep
<1>1. UNCHANGED <<host, tx_irq>> /\ written' = 0 /\ ~(tx_irq /\ cep_state' = "TX")
  BY RequestMet
<1>3. Underway
  BY RequestMet
<1>4. /\ Ready /\ Csr = {} /\ Request = host.request /\ Request \in Controls /\ ~host.ok /\ host.moved = 0
      /\ host.stage = "status" <=> Request.length = 0
  BY RequestMet
<1>5. Underway' /\ UNCHANGED host
  BY <1>1, RequestMet
<1>6. CASE Misread
  BY <1>4, <1>6 DEF Misread, Ready, SetupSize
<1>7. CASE RefusedInSetup(Csr)
  <2>1. csr0' = {"SEND_STALL"}
    BY <1>4, <1>7 DEF RefusedInSetup
  <2>2. Ready'
    BY <1>4, <1>7 DEF RefusedInSetup, Ready, UsbTypeOK
  <2>3. Stalling' /\ usb_isr' = "exit"
    BY <1>7, <2>1, <2>2 DEF Stalling, RefusedInSetup
  <2>4. QED
    BY <1>5, <2>3, InPhaseSuffices DEF InPhase
<1>8. CASE Done(Request, Csr)
  <2>1. csr0' = {"DATA_END"} /\ usb_isr' \in {"exit", "address"}
    BY <1>4, <1>8 DEF Done
  <2>2. Ready'
    <3>1. CASE AwaitSetup
      BY <3>1, AwaitTypes DEF Ready, SetupSize
    <3>2. CASE UNCHANGED <<cep, cep_state>>
      BY <1>4, <3>2 DEF Ready
    <3>3. QED
      BY <1>8, <3>1, <3>2 DEF Done
  <2>3. host.stage = "status" /\ host.request.name \in NoData
    BY <1>4, <1>8, ControlTypes DEF Done
  <2>4. StatusPending'
    BY <1>1, <2>1, <2>2, <2>3 DEF StatusPending
  <2>5. QED
    BY <1>5, <2>1, <2>2, <2>4, InPhaseSuffices DEF InPhase
<1>9. CASE Taking(Request, Csr)
  <2>1. PICK len \in Nat, buf \in {"null", "class"} :
          /\ Prepare("RX", buf, len)
          /\ IF Request.name = "CLASS_OUT" THEN buf = "class" /\ len = Request.length ELSE buf = "null" /\ len = 0
    BY <1>9 DEF Taking
  <2>2. /\ csr0' = {} /\ cep_state' = "RX" /\ usb_isr' = "exit" /\ cep'.state = "RX" /\ cep'.count = 0
        /\ cep'.buf = buf /\ cep'.length = len
    BY <1>4, <1>9, <2>1 DEF Taking, Prepare
  <2>3. Request.name \in {"CLASS_OUT", "SET_DESCRIPTOR"} /\ Request.length # 0 /\ host.stage = "data"
    <3>1. Request.name \in Writes
      BY <1>9 DEF Taking
    <3>2. Request.length # 0
      BY <1>4, <3>1, ControlTypes DEF Writes, NoData
    <3>3. QED
      BY <1>3, <1>4, <3>1, <3>2 DEF Writes, Underway
  <2>4. DataTaking'
    BY <1>1, <1>4, <2>1, <2>2, <2>3 DEF DataTaking, Writes
  <2>5. QED
    BY <1>5, <2>2, <2>4, InPhaseSuffices DEF InPhase
<1>10. CASE Sending(Request, Csr)
  <2> DEFINE len == Min({IF Request.name \in Short THEN 1 ELSE ReplyLength, Request.length})
             ep == [state |-> "TX", buf |-> "reply", txn |-> Min({len, MaxPacket}), length |-> len, count |-> 0]
  <2>1. len \in Nat
    BY <1>4, ControlTypes, MinOfTwo, UsbAssumption DEF UsbAssumption
  <2>2. WritePacket(ep, Csr) /\ usb_isr' = "exit" /\ Request.name \in Reads
    BY <1>10 DEF Sending
  <2>3. len = Min({IF host.request.name \in Short THEN 1 ELSE ReplyLength, host.request.length})
    BY <1>4
  <2> HIDE DEF len
  <2>4. Min({len, MaxPacket}) \in 0..MaxPacket /\ Min({len, MaxPacket}) <= len
    BY <2>1, PacketFits
  <2>5. ep \in [state : {"IDLE", "TX", "RX"}, buf : {"null", "setup", "reply", "class"},
                txn : 0..MaxPacket, length : Nat, count : Nat]
    BY <2>1, <2>4
  <2>6. /\ ep.state = "TX" /\ ep.buf = "reply" /\ ep.length = len /\ ep.count = 0
        /\ ep.txn <= len /\ ep.txn \in Nat
    BY <2>1, <2>4, UsbAssumption DEF UsbAssumption
  <2> HIDE DEF ep
  <2>7. /\ cep_state' = "TX" /\ cep'.state = "TX" /\ cep'.buf = "reply" /\ cep'.length = len /\ cep'.txn = ep.txn
        /\ cep'.count = ep.count + (IF ep.buf = "null" THEN 0 ELSE ep.txn)
        /\ csr0' = Csr \cup (IF cep'.count < cep'.length THEN {"TXPKTRDY"} ELSE {"TXPKTRDY", "DATA_END"})
    BY <2>2, <2>5, <2>6, WriteTypes
  <2>8. cep'.count = host.moved + cep'.txn /\ cep'.count <= cep'.length
    BY <1>4, <2>1, <2>6, <2>7
  <2>9. csr0' = {"TXPKTRDY"} \cup (IF cep'.count < cep'.length THEN {} ELSE {"DATA_END"})
    BY <1>4, <2>7
  <2>10. host.stage = "data"
    <3>1. Request.length # 0
      BY <1>4, <2>2, ControlTypes DEF Reads, Short, NoData
    <3>2. QED
      BY <1>3, <1>4, <3>1 DEF Underway
  <2>11. ~tx_irq'
    BY <1>1, <2>7
  <2>12. cep'.length = Min({IF host'.request.name \in Short THEN 1 ELSE ReplyLength, host'.request.length})
    BY <1>1, <2>3, <2>7
  <2>13. host'.request.name \in Reads /\ host'.stage = "data" /\ cep'.count = host'.moved + cep'.txn
    BY <1>1, <1>4, <2>2, <2>8, <2>10
  <2>14. DataSending'
    BY <2>2, <2>7, <2>8, <2>9, <2>11, <2>12, <2>13 DEF DataSending
  <2>15. QED
    BY <1>5, <2>2, <2>14, InPhaseSuffices DEF InPhase
<1>11. CASE Unanswerable(Request, Csr)
  <2>1. csr0' = {} /\ usb_isr' = "trap" /\ ~host'.ok
    BY <1>1, <1>4, <1>11 DEF Unanswerable
  <2>2. QED
    BY <2>1 DEF TransferInStep
<1>12. QED
  BY <1>6, <1>7, <1>8, <1>9, <1>10, <1>11, SetupCases

LEMMA EntryInStep ==
  ASSUME UsbTypeOK, BusEventsServed, TransferInStep, EnterUsbIsr, ~usb_raced'
  PROVE  TransferInStep'
<1> SUFFICES ASSUME host.stage # "off" PROVE TransferInStep'
  BY EntryCases DEF TransferInStep
<1>1. UNCHANGED <<host, written, out_length>> /\ usb_isr = "exit" /\ usb_isr' \in {"exit", "endpoint"} /\ ~tx_irq'
  BY EntryCases
<1>2. CASE usb_irq \cap {"RESUME", "RESET"} # {}
  <2>1. AwaitSetup /\ csr0' = {} /\ ~Underway
    BY <1>2, EntryCases DEF BusEventsServed
  <2>2. Resting' /\ ~Underway'
    BY <1>1, <2>1, AwaitTypes DEF Resting, Ready, SetupSize, Underway
  <2>3. QED
    BY <1>1, <2>2, InPhaseSuffices DEF InPhase
<1>3. CASE usb_irq \cap {"RESUME", "RESET"} = {}
  <2>1. UNCHANGED <<cep, cep_state, csr0>>
    BY <1>3, EntryCases
  <2>2. ~usb_raced
    BY <1>3 DEF EnterUsbIsr
  <2>3. InPhase
    BY <1>1, <1>3, <2>2, PhaseOf
  <2>4. CASE ~Underway
    BY <1>1, <2>1, <2>3, <2>4, InPhaseSuffices DEF InPhase, Underway, Resting, Ready, SentAll
  <2>5. CASE Underway
    <3>1. SetupPending \/ Stalling \/ StatusPending \/ DataTaking \/ DataTaken => InPhase'
      BY <1>1, <2>1, <2>5
         DEF InPhase, Underway, SetupPending, Stalling, StatusPending, DataTaking, DataTaken, Ready, SentAll
    <3>2. ~tx_irq => usb_isr' = "exit"
      BY EntryCases
    <3>3. CASE DataSending
      <4>1. DataSending'
        <5>1. CASE csr0 = {} /\ host.stage = "data" /\ cep.count < cep.length /\ cep.count = host.moved
          BY <1>1, <2>1, <3>3, <5>1 DEF DataSending
        <5>2. CASE ~tx_irq
          BY <1>1, <2>1, <3>2, <3>3, <5>2 DEF DataSending
        <5>3. QED
          BY <3>3, <5>1, <5>2 DEF DataSending
      <4>2. QED
        BY <1>1, <2>5, <4>1, InPhaseSuffices DEF InPhase, Underway
    <3>4. QED
      BY <1>1, <2>3, <2>5, <3>1, <3>3, InPhaseSuffices DEF InPhase
  <2>6. QED
    BY <2>4, <2>5
<1>4. QED
  BY <1>2, <1>3

LEMMA OverInStep ==
  ASSUME UsbTypeOK, BusEventsServed, TransferInStep, TransferOver, ~usb_raced, ~usb_raced'
  PROVE  TransferInStep' /\ (host.stage # "off" => ~Underway)
<1>1. /\ UNCHANGED host /\ usb_isr = "endpoint" /\ usb_isr' = "exit" /\ "RXPKTRDY" \notin csr0 /\ AwaitSetup
      /\ \/ "STALL_SENT" \in csr0 /\ csr0' = csr0 \ {"STALL_SENT"}
         \/ "SETUP_END" \in csr0 /\ csr0' = csr0 \ {"SETUP_END"}
  BY DEF TransferOver, HandleEndpoint, Exit, hostVars
<1> SUFFICES ASSUME host.stage # "off" PROVE TransferInStep' /\ ~Underway
  BY <1>1 DEF TransferInStep
<1>2. InPhase
  BY <1>1, PhaseOf DEF BusEventsServed
<1>3. ~Underway /\ Resting
  BY <1>1, <1>2 DEF InPhase, SetupPending, Stalling, StatusPending, DataSending, DataTaking, DataTaken
<1>4. csr0' = {}
  BY <1>1, <1>3 DEF Resting
<1>5. Resting' /\ ~Underway'
  BY <1>1, <1>3, <1>4, AwaitTypes DEF Resting, Ready, SetupSize, Underway
<1>6. QED
  BY <1>1, <1>3, <1>5, InPhaseSuffices DEF InPhase

LEMMA AddressInStep ==
  ASSUME UsbTypeOK, BusEventsServed, TransferInStep, SetAddress, ~usb_raced, ~usb_raced'
  PROVE  TransferInStep'
<1>1. /\ UNCHANGED <<host, csr0, tx_irq, written, out_length>> /\ usb_isr = "address" /\ usb_isr' = "exit" /\ AwaitSetup
      /\ csr0 \cap {"DATA_END", "SETUP_END"} = {}
  BY DEF SetAddress, Exit, hostVars
<1> SUFFICES ASSUME host.stage # "off" PROVE TransferInStep'
  BY <1>1 DEF TransferInStep
<1>2. "RESET" \notin usb_irq
  BY <1>1 DEF BusEventsServed
<1>3. InPhase /\ Ready
  BY <1>1, <1>2, PhaseOf DEF TransferInStep
<1>4. Ready'
  BY AwaitTypes, <1>1 DEF Ready, SetupSize
<1>5. InPhase'
  BY <1>1, <1>3, <1>4
     DEF InPhase, Underway, Ready, Resting, SetupPending, Stalling, StatusPending, DataSending, DataTaking, DataTaken
<1>6. QED
  BY <1>1, <1>5, InPhaseSuffices

LEMMA SentInStep ==
  ASSUME UsbTypeOK, BusEventsServed, TransferInStep, SentPacket, ~usb_raced, ~usb_raced'
  PROVE  TransferInStep' /\ (host.stage # "off" => ~Underway \/ DataSending)
<1>1. /\ UNCHANGED <<host, tx_irq, written>> /\ usb_isr = "endpoint" /\ usb_isr' = "exit" /\ cep_state = "TX"
      /\ csr0 \cap {"STALL_SENT", "SETUP_END"} = {}
  BY SentCases DEF SentPacket, Expecting, HandleEndpoint, hostVars
<1> SUFFICES ASSUME host.stage # "off" PROVE TransferInStep' /\ (~Underway \/ DataSending)
  BY <1>1 DEF TransferInStep
<1>2. InPhase
  BY <1>1, PhaseOf DEF BusEventsServed
<1>3. CASE ~Underway
  <2>1. csr0 = {} /\ SentAll
    BY <1>1, <1>2, <1>3 DEF InPhase, Resting, Ready
  <2>2. ~(cep.count < cep.length)
    BY <2>1 DEF SentAll, UsbTypeOK
  <2>3. AwaitSetup /\ UNCHANGED csr0
    BY <2>1, <2>2, SentCases DEF SentAll
  <2>4. Resting' /\ ~Underway'
    BY <1>1, <1>3, <2>1, <2>3, AwaitTypes DEF Resting, Ready, SetupSize, Underway
  <2>5. QED
    BY <1>1, <1>3, <2>4, InPhaseSuffices DEF InPhase
<1>4. CASE Underway
  <2>1. ~SetupPending
    <3>1. CASE SetupPending
      <4>1. SentAll /\ csr0 = {"RXPKTRDY"}
        BY <1>1, <3>1 DEF SetupPending, Ready
      <4>2. ~(cep.count < cep.length)
        BY <4>1 DEF SentAll, UsbTypeOK
      <4>3. usb_raced' = (usb_raced \/ "RXPKTRDY" \in csr0)
        BY <4>1, <4>2, SentCases DEF SentAll
      <4>4. QED
        BY <4>1, <4>3
    <3>2. QED
      BY <3>1
  <2>2. DataSending
    BY <1>1, <1>2, <1>4, <2>1 DEF InPhase, Stalling, StatusPending, DataTaking, DataTaken, Ready
  <2>3. /\ cep.state = "TX" /\ csr0 = {} /\ host.stage = "data" /\ cep.count < cep.length /\ cep.count = host.moved
        /\ cep.buf = "reply" /\ ~tx_irq
    BY <1>1, <2>2 DEF DataSending
  <2>4. /\ cep_state' = "TX" /\ cep'.state = "TX" /\ cep'.buf = "reply" /\ cep'.length = cep.length
        /\ cep'.txn = Min({cep.length - cep.count, MaxPacket})
        /\ cep'.count = cep.count + cep'.txn
        /\ csr0' = csr0 \cup (IF cep'.count < cep'.length THEN {"TXPKTRDY"} ELSE {"TXPKTRDY", "DATA_END"})
    BY <2>3, SentCases
  <2>5. cep.length - cep.count \in Nat /\ cep.count \in Nat /\ cep.length \in Nat /\ host.moved \in Nat
    BY <2>3 DEF UsbTypeOK, Hosts
  <2>6. cep'.txn <= cep.length - cep.count /\ cep'.txn \in Nat
    <3>1. cep'.txn \in 0..MaxPacket /\ cep'.txn <= cep.length - cep.count
      BY <2>4, <2>5, PacketFits
    <3>2. QED
      BY <3>1, UsbAssumption DEF UsbAssumption
  <2>7. cep'.count = host'.moved + cep'.txn /\ cep'.count <= cep'.length
    BY <1>1, <2>3, <2>4, <2>5, <2>6
  <2>8. csr0' = {"TXPKTRDY"} \cup (IF cep'.count < cep'.length THEN {} ELSE {"DATA_END"})
    BY <2>3, <2>4
  <2>9. DataSending'
    BY <1>1, <2>2, <2>3, <2>4, <2>7, <2>8 DEF DataSending
  <2>10. QED
    BY <1>1, <1>4, <2>2, <2>9, InPhaseSuffices DEF InPhase, Underway
<1>5. QED
  BY <1>3, <1>4

LEMMA NothingInStep ==
  ASSUME UsbTypeOK, BusEventsServed, TransferInStep, NothingToDo, ~usb_raced, ~usb_raced'
  PROVE  TransferInStep'
<1>1. /\ UNCHANGED <<host, csr0, tx_irq, cep, cep_state, written, out_length>> /\ usb_isr = "endpoint"
      /\ usb_isr' = "exit" /\ cep_state # "TX"
  BY DEF NothingToDo, HandleEndpoint, Exit, hostVars, endpointVars
<1> SUFFICES ASSUME host.stage # "off" PROVE TransferInStep'
  BY <1>1 DEF TransferInStep
<1>2. InPhase
  BY <1>1, PhaseOf DEF BusEventsServed
<1>3. InPhase'
  BY <1>1, <1>2
     DEF InPhase, Underway, Ready, SentAll, Resting, SetupPending, Stalling, StatusPending, DataSending, DataTaking,
         DataTaken
<1>4. QED
  BY <1>1, <1>3, InPhaseSuffices

LEMMA DataInStep ==
  ASSUME UsbTypeOK, Asked, BusEventsServed, TransferInStep, DataPacket, ~usb_raced, ~usb_raced'
  PROVE  TransferInStep' /\ (host.stage # "off" => Underway /\ DataTaking)
<1> DEFINE count == cep.count + (IF cep.buf = "null" THEN 0 ELSE out_length)
           r == host.request.length
<1>1. /\ UNCHANGED <<host, tx_irq, out_length>> /\ usb_isr = "endpoint" /\ usb_isr' = "exit" /\ cep_state = "RX"
      /\ "RXPKTRDY" \in csr0 /\ csr0 \cap {"STALL_SENT", "SETUP_END"} = {} /\ written' = written + out_length
  BY DataCases DEF DataPacket, Expecting, HandleEndpoint, hostVars
<1> SUFFICES ASSUME host.stage # "off" PROVE TransferInStep' /\ Underway /\ DataTaking
  BY <1>1 DEF TransferInStep
<1>2. InPhase
  BY <1>1, PhaseOf DEF BusEventsServed
<1>3. Underway /\ DataTaking
  <2>1. ~Resting /\ ~Stalling /\ ~StatusPending /\ ~DataSending /\ ~DataTaken
    BY <1>1 DEF Resting, Stalling, StatusPending, DataSending, DataTaken
  <2>2. ~SetupPending
    BY <1>1 DEF SetupPending, Ready, SentAll
  <2>3. QED
    BY <1>2, <2>1, <2>2 DEF InPhase
<1>4. r \in Nat /\ written \in Nat /\ out_length \in Nat /\ cep.length \in Nat /\ MaxPacket \in Nat /\ MaxPacket > 0
  BY <1>3, ControlTypes, UsbAssumption DEF UsbAssumption, UsbTypeOK, Asked
<1>5. /\ csr0 = {"RXPKTRDY"} /\ host.moved = written + out_length /\ written < r /\ cep.count = 0
      /\ host.request.name \in Writes /\ (host.stage = "status" <=> host.moved = r)
      /\ out_length = Min({r - written, MaxPacket})
  BY <1>1, <1>3 DEF DataTaking
<1>6. out_length = IF r - written <= MaxPacket THEN r - written ELSE MaxPacket
  <2>1. r - written \in Int /\ MaxPacket \in Int
    BY <1>4
  <2>2. Min({r - written, MaxPacket}) = IF r - written <= MaxPacket THEN r - written ELSE MaxPacket
    BY <2>1, MinOfTwo
  <2>3. QED
    BY <1>5, <2>2
<1>7. CASE AwaitSetup /\ csr0' = (csr0 \ {"RXPKTRDY"}) \cup {"DATA_END"}
  <2>1. csr0' = {"DATA_END"}
    BY <1>5, <1>7
  <2>2. Ready'
    BY <1>7, AwaitTypes DEF Ready, SetupSize
  <2>3. DataTaken'
    BY <1>1, <1>5, <2>1, <2>2 DEF DataTaken
  <2>4. QED
    BY <1>1, <1>3, <2>3, InPhaseSuffices DEF InPhase, Underway
<1>8. CASE count = cep.length
  <2>1. AwaitSetup /\ csr0' = (csr0 \ {"RXPKTRDY"}) \cup {"DATA_END"}
    <3>1. ~(count < cep.length) /\ ~(count > cep.length)
      BY <1>4, <1>8
    <3>2. QED
      BY <1>8, <3>1, DataCases
  <2>2. QED
    BY <1>7, <2>1
<1>9. CASE host.request.name = "SET_DESCRIPTOR"
  <2>1. cep.buf = "null" /\ cep.length = 0
    BY <1>3, <1>9 DEF DataTaking
  <2>2. count = cep.length
    BY <1>5, <2>1
  <2>3. QED
    BY <1>8, <2>2
<1>10. CASE host.request.name = "CLASS_OUT" /\ written = 0 /\ cep.length = r /\ cep.buf = "class"
  <2>1. count = out_length
    BY <1>4, <1>5, <1>10
  <2>2. CASE r <= MaxPacket
    <3>1. count = cep.length
      BY <1>4, <1>6, <1>10, <2>1, <2>2
    <3>2. QED
      BY <1>8, <3>1
  <2>3. CASE r > MaxPacket
    <3>1. out_length = MaxPacket /\ count < cep.length
      BY <1>4, <1>6, <1>10, <2>1, <2>3
    <3>2. /\ Prepare("RX", cep.buf, Min({cep.length - count, MaxPacket}))
          /\ csr0' = csr0 \ {"RXPKTRDY"} /\ UNCHANGED <<cep_state, g_setup_pkt>>
      <4>1. count # cep.length /\ ~(count > cep.length)
        BY <1>4, <2>1, <3>1
      <4>2. QED
        BY <4>1, DataCases
    <3>3. /\ cep'.state = "RX" /\ cep'.buf = "class" /\ cep'.count = 0 /\ cep_state' = "RX" /\ csr0' = {}
          /\ cep'.length = Min({r - MaxPacket, MaxPacket})
      BY <1>1, <1>5, <1>10, <2>1, <3>1, <3>2 DEF Prepare
    <3>4. written' = MaxPacket /\ host.moved = MaxPacket /\ host.moved # r
      BY <1>1, <1>4, <1>5, <1>10, <2>3, <3>1
    <3>5. host.stage = "data"
      BY <1>3, <1>5, <3>4 DEF Underway
    <3>6. DataTaking'
      BY <1>1, <1>5, <1>10, <2>3, <3>3, <3>4, <3>5 DEF DataTaking
    <3>7. QED
      BY <1>1, <1>3, <3>6, InPhaseSuffices DEF InPhase, Underway
  <2>4. QED
    BY <1>4, <2>2, <2>3
<1>11. CASE /\ host.request.name = "CLASS_OUT" /\ written = MaxPacket /\ cep.buf = "class"
            /\ cep.length = Min({r - MaxPacket, MaxPacket})
  <2>1. count = out_length
    BY <1>4, <1>5, <1>11
  <2>2. count = cep.length
    BY <1>5, <1>11, <2>1
  <2>3. QED
    BY <1>8, <2>2
<1>12. QED
  BY <1>3, <1>9, <1>10, <1>11 DEF DataTaking

LEMMA RequestInStep ==
  ASSUME UsbTypeOK, Asked, BusEventsServed, TransferInStep, NEW request \in Controls, HostSetup(request),
         ~usb_raced, ~usb_raced'
  PROVE  TransferInStep'
<1>1. /\ host.stage = "idle" /\ usb_irq = {} /\ "RXPKTRDY" \notin csr0 /\ csr0' = csr0 \cup {"RXPKTRDY"}
      /\ host'.request = request /\ host'.moved = 0 /\ ~host'.ok
      /\ host'.stage = IF request.length = 0 THEN "status" ELSE "data"
  BY DEF HostSetup, QuietBus
<1>2. UNCHANGED <<cep, cep_state, usb_isr>>
  BY DEF HostSetup, driverVars, endpointVars
<1>3. usb_isr = "trap" => csr0 \subseteq {"RXPKTRDY", "SETUP_END", "STALL_SENT"}
  BY <1>1 DEF TransferInStep
<1>4. CASE usb_isr = "trap"
  BY <1>1, <1>2, <1>3, <1>4 DEF TransferInStep
<1>5. CASE usb_isr # "trap"
  <2>1. Resting /\ (usb_isr = "address" => Ready)
    BY <1>1, <1>5 DEF TransferInStep, Underway
  <2>2. \/ csr0' = {"RXPKTRDY"} /\ (Ready \/ SentAll)
        \/ csr0' = {"RXPKTRDY", "STALL_SENT"}
        \/ csr0' = {"RXPKTRDY", "SETUP_END"} /\ (cep.buf = "setup" => Ready)
    BY <1>1, <2>1 DEF Resting
  <2>3. /\ \/ csr0' = {"RXPKTRDY"} /\ (Ready' \/ SentAll')
           \/ csr0' = {"RXPKTRDY", "STALL_SENT"}
           \/ csr0' = {"RXPKTRDY", "SETUP_END"} /\ (cep'.buf = "setup" => Ready')
        /\ usb_isr' = "address" => Ready'
    BY <1>2, <2>1, <2>2 DEF Ready, SentAll
  <2>4. SetupPending' /\ Underway'
    BY <1>1, <2>3 DEF SetupPending, Underway
  <2>5. QED
    BY <1>2, <1>5, <2>3, <2>4, InPhaseSuffices DEF InPhase
<1>6. QED
  BY <1>4, <1>5

LEMMA OutInStep ==
  ASSUME UsbTypeOK, Asked, BusEventsServed, TransferInStep, HostOut, ~usb_raced, ~usb_raced', usb_isr # "trap"
  PROVE  InPhase'
<1> DEFINE r == host.request.length
<1>1. /\ host.stage = "data" /\ host.request.name \in Writes /\ csr0 \cap {"RXPKTRDY", "SEND_STALL", "DATA_END"} = {}
      /\ csr0' = csr0 \cup {"RXPKTRDY"} /\ UNCHANGED <<cep, cep_state, usb_isr, written>>
      /\ host'.request = host.request
  BY HostCases, EndpointKept DEF HostOut, HostMoves
<1>2. InPhase /\ Underway
  BY <1>1, PhaseOf DEF BusEventsServed, Underway
<1>3. DataTaking
  <2>1. ~SetupPending /\ ~Stalling /\ ~StatusPending /\ ~DataTaken
    BY <1>1 DEF SetupPending, Stalling, StatusPending, DataTaken
  <2>2. ~DataSending
    BY <1>1 DEF DataSending, Reads, Writes, Short
  <2>3. QED
    BY <1>2, <2>1, <2>2 DEF InPhase
<1>4. csr0 = {} /\ host.moved = written
  BY <1>1, <1>3 DEF DataTaking
<1>5. /\ r - host.moved \in Nat /\ r > host.moved /\ out_length' = Min({r - host.moved, MaxPacket})
      /\ host'.moved = host.moved + out_length'
      /\ host'.stage = IF host'.moved = r THEN "status" ELSE "data"
  BY OutPacket
<1>6. /\ csr0' = {"RXPKTRDY"} /\ host'.moved = written' + out_length'
      /\ out_length' = Min({host'.request.length - written', MaxPacket})
      /\ written' < host'.request.length
  <2>1. host.moved \in Nat /\ r \in Nat
    BY <1>2, ControlTypes DEF UsbTypeOK, Hosts, Asked
  <2>2. QED
    BY <1>1, <1>4, <1>5, <2>1
<1>7. DataTaking'
  BY <1>1, <1>3, <1>5, <1>6 DEF DataTaking
<1>8. QED
  BY <1>5, <1>7 DEF InPhase, Underway

LEMMA InInStep ==
  ASSUME UsbTypeOK, Asked, BusEventsServed, TransferInStep, HostIn, ~usb_raced, ~usb_raced', usb_isr # "trap"
  PROVE  InPhase' /\ DataSending
<1>1. /\ host.stage = "data" /\ host.request.name \in Reads /\ "TXPKTRDY" \in csr0
      /\ csr0' = csr0 \ {"TXPKTRDY"} /\ UNCHANGED <<cep, cep_state, usb_isr, written>>
      /\ host'.request = host.request /\ host'.moved = host.moved + cep.txn
      /\ host'.stage = IF "DATA_END" \in csr0 THEN "status" ELSE "data"
  BY HostStep, EndpointKept DEF HostIn, HostMoves, UsbTypeOK
<1>2. InPhase /\ Underway
  BY <1>1, PhaseOf DEF BusEventsServed, Underway
<1>3. DataSending
  <2>1. ~SetupPending /\ ~Stalling /\ ~StatusPending /\ ~DataTaking /\ ~DataTaken
    BY <1>1 DEF SetupPending, Stalling, StatusPending, DataTaking, DataTaken
  <2>2. QED
    BY <1>2, <2>1 DEF InPhase
<1>4. /\ csr0 = {"TXPKTRDY"} \cup (IF cep.count < cep.length THEN {} ELSE {"DATA_END"})
      /\ cep.count = host.moved + cep.txn /\ cep.count <= cep.length /\ ~tx_irq /\ usb_isr = "exit"
  BY <1>1, <1>3 DEF DataSending
<1>5. cep.count \in Nat /\ cep.length \in Nat /\ cep'.count = host'.moved
  BY <1>1, <1>4 DEF UsbTypeOK
<1>6. CASE cep.count < cep.length
  <2>1. csr0' = {} /\ host'.stage = "data"
    BY <1>1, <1>4, <1>6
  <2>2. DataSending'
    BY <1>1, <1>3, <1>4, <1>5, <1>6, <2>1 DEF DataSending
  <2>3. QED
    BY <1>3, <2>1, <2>2 DEF InPhase, Underway
<1>7. CASE ~(cep.count < cep.length)
  <2>1. csr0' = {"DATA_END"} /\ host'.stage = "status" /\ cep.count = cep.length
    BY <1>1, <1>4, <1>5, <1>7
  <2>2. ~tx_irq'
    BY <1>4, <1>7 DEF HostIn
  <2>3. DataSending'
    BY <1>1, <1>3, <1>4, <1>5, <2>1, <2>2 DEF DataSending
  <2>4. QED
    BY <1>3, <2>1, <2>3 DEF InPhase, Underway
<1>8. QED
  BY <1>6, <1>7

\* Where the host is when a transfer has succeeded.
LEMMA StatusInStep ==
  ASSUME UsbTypeOK, Asked, BusEventsServed, TransferInStep, HostStatus, ~usb_raced, ~usb_raced', usb_isr # "trap"
  PROVE  InPhase' /\ csr0 = {"DATA_END"} /\ (StatusPending \/ DataSending \/ DataTaken)
<1>1. /\ host.stage = "status" /\ "DATA_END" \in csr0 /\ "TXPKTRDY" \notin csr0 /\ host'.stage = "idle"
      /\ csr0' = csr0 \ {"DATA_END"} /\ UNCHANGED <<cep, cep_state, usb_isr, written>>
  BY HostCases, EndpointKept DEF HostStatus, HostIn, HostOut, HostStalled, HostAbort, HostMoves
<1>2. InPhase /\ Underway
  BY <1>1, PhaseOf DEF BusEventsServed, Underway
<1>3. StatusPending \/ DataSending \/ DataTaken
  BY <1>1, <1>2 DEF InPhase, SetupPending, Stalling, DataTaking
<1>4. csr0 = {"DATA_END"} /\ (Ready \/ SentAll)
  <2>1. CASE StatusPending \/ DataTaken
    BY <2>1 DEF StatusPending, DataTaken
  <2>2. CASE DataSending
    BY <1>1, <2>2 DEF DataSending, SentAll
  <2>3. QED
    BY <1>3, <2>1, <2>2
<1>5. csr0' = {} /\ (Ready' \/ SentAll')
  BY <1>1, <1>4 DEF Ready, SentAll
<1>6. QED
  BY <1>1, <1>3, <1>4, <1>5 DEF InPhase, Underway, Resting

LEMMA StalledInStep ==
  ASSUME UsbTypeOK, Asked, BusEventsServed, TransferInStep, HostStalled, ~usb_raced, ~usb_raced', usb_isr # "trap"
  PROVE  InPhase' /\ (csr0 = {"DATA_END"} => host.request.name \in Writes)
<1>1. /\ Underway /\ host'.stage = "idle" /\ ~host'.ok /\ UNCHANGED <<cep, cep_state, usb_isr, written>>
      /\ csr0' = (csr0 \ {"SEND_STALL", "DATA_END"}) \cup {"STALL_SENT"}
      /\ "SEND_STALL" \in csr0 \/ (host.stage = "data" /\ host.request.name \in Writes /\ "DATA_END" \in csr0)
  <2>1. Underway /\ ("SEND_STALL" \in csr0 \/ (host.stage = "data" /\ host.request.name \in Writes
                                                 /\ "DATA_END" \in csr0))
        /\ csr0' = (csr0 \ {"SEND_STALL", "DATA_END"}) \cup {"STALL_SENT"}
    BY DEF HostStalled
  <2>2. host'.stage = "idle" /\ ~host'.ok
    BY HostStep DEF HostStalled, UsbTypeOK
  <2>3. QED
    BY <2>1, <2>2, EndpointKept DEF HostMoves
<1>2. InPhase
  BY <1>1, PhaseOf DEF BusEventsServed, Underway
<1>3. (csr0 = {"SEND_STALL"} \/ csr0 = {"DATA_END"}) /\ Ready
  <2>1. ~SetupPending /\ ~DataTaking
    BY <1>1 DEF SetupPending, DataTaking
  <2>2. ~DataSending /\ ~StatusPending
    BY <1>1 DEF DataSending, StatusPending, Reads, Writes, Short
  <2>3. Stalling \/ DataTaken
    BY <1>1, <1>2, <2>1, <2>2 DEF InPhase
  <2>4. QED
    BY <2>3 DEF Stalling, DataTaken
<1>4. csr0' = {"STALL_SENT"} /\ Ready'
  BY <1>1, <1>3 DEF Ready
<1>5. QED
  BY <1>1, <1>4 DEF InPhase, Underway, Resting

LEMMA AbortInStep ==
  ASSUME UsbTypeOK, Asked, BusEventsServed, TransferInStep, HostAbort, ~usb_raced, ~usb_raced', usb_isr # "trap"
  PROVE  InPhase'
<1>1. /\ Underway /\ host'.stage = "idle" /\ ~host'.ok /\ UNCHANGED <<cep, cep_state, usb_isr, written>>
      /\ host.request.name \in Reads \cup Writes /\ "RXPKTRDY" \notin csr0
      /\ csr0' = (csr0 \ {"TXPKTRDY", "DATA_END", "SEND_STALL"})
                   \cup (IF "DATA_END" \in csr0 THEN {} ELSE {"SETUP_END"})
  <2>1. /\ Underway /\ host.request.name \in Reads \cup Writes /\ "RXPKTRDY" \notin csr0
        /\ csr0' = (csr0 \ {"TXPKTRDY", "DATA_END", "SEND_STALL"})
                     \cup (IF "DATA_END" \in csr0 THEN {} ELSE {"SETUP_END"})
    BY DEF HostAbort
  <2>2. host'.stage = "idle" /\ ~host'.ok
    BY HostStep DEF HostAbort, UsbTypeOK
  <2>3. QED
    BY <2>1, <2>2, EndpointKept
<1>2. InPhase
  BY <1>1, PhaseOf DEF BusEventsServed, Underway
<1>3. Resting'
  <2>1. CASE Stalling
    BY <1>1, <2>1 DEF Stalling, Resting, Ready
  <2>2. CASE DataSending
    <3>1. CASE csr0 = {"TXPKTRDY"} \cup (IF cep.count < cep.length THEN {} ELSE {"DATA_END"}) /\ cep.count <= cep.length
      <4>1. CASE cep.count < cep.length
        BY <1>1, <2>2, <3>1, <4>1 DEF DataSending, Resting, Ready
      <4>2. CASE ~(cep.count < cep.length)
        <5>1. csr0' = {}
          BY <1>1, <3>1, <4>2
        <5>2. cep.count = cep.length
          BY <3>1, <4>2 DEF UsbTypeOK
        <5>3. QED
          BY <1>1, <2>2, <5>1, <5>2 DEF DataSending, Resting, SentAll
      <4>3. QED
        BY <4>1, <4>2
    <3>2. CASE csr0 = {}
      BY <1>1, <2>2, <3>2 DEF DataSending, Resting, Ready
    <3>3. CASE csr0 = {"DATA_END"} /\ cep.count = cep.length
      BY <1>1, <2>2, <3>3 DEF DataSending, Resting, SentAll
    <3>4. QED
      BY <2>2, <3>1, <3>2, <3>3 DEF DataSending
  <2>3. CASE DataTaking
    BY <1>1, <2>3 DEF DataTaking, Resting, Ready
  <2>4. CASE DataTaken
    BY <1>1, <2>4 DEF DataTaken, Resting, Ready
  <2>5. ~SetupPending /\ ~StatusPending
    BY <1>1 DEF SetupPending, StatusPending, NoData, Reads, Writes, Short
  <2>6. QED
    BY <1>1, <1>2, <2>1, <2>2, <2>3, <2>4, <2>5 DEF InPhase
<1>4. QED
  BY <1>1, <1>3 DEF InPhase, Underway

LEMMA BusInStep ==
  ASSUME UsbTypeOK, BusEventsServed, TransferInStep, BusReset \/ BusSuspend \/ BusResume \/ Disconnect,
         ~usb_raced, ~usb_raced'
  PROVE  TransferInStep'
<1>1. ~host'.ok /\ UNCHANGED <<cep, cep_state, usb_isr, written>>
  BY BusCases, EndpointKept
<1>2. CASE host'.stage = "off" \/ "RESET" \in usb_irq'
  BY <1>2 DEF TransferInStep
<1>3. CASE UNCHANGED csr0 /\ usb_irq = {} /\ host.stage \in {"idle", "asleep"} /\ host'.stage \in {"idle", "asleep"}
  <2>1. CASE usb_isr = "trap"
    BY <1>1, <1>3, <2>1 DEF TransferInStep
  <2>2. CASE usb_isr # "trap"
    <3>1. Resting /\ (usb_isr = "address" => Ready)
      BY <1>3, <2>2 DEF TransferInStep, Underway
    <3>2. Resting' /\ ~Underway' /\ (usb_isr' = "address" => Ready')
      BY <1>1, <1>3, <3>1 DEF Resting, Ready, SentAll, Underway
    <3>3. QED
      BY <1>1, <2>2, <3>2, InPhaseSuffices DEF InPhase
  <2>3. QED
    BY <2>1, <2>2
<1>4. QED
  BY <1>2, <1>3, BusCases

\* A race is forgotten by a bus reset only.
LEMMA RacedStays ==
  ASSUME UsbNext, usb_raced, ~usb_raced'
  PROVE  EnterUsbIsr /\ "RESET" \in usb_irq
<1>1. EnterUsbIsr
  <2>1. usb_raced' \/ EnterUsbIsr
    BY DEF UsbNext, UsbIsr, TransferOver, SetupPacket, SetAddress, SentPacket, DataPacket, NothingToDo, HostMoves,
           HostIn, HostOut, HostStatus, HostStalled, HostAbort, HostSetup, BusReset, BusSuspend, BusResume,
           Disconnect, BusEvent, driverVars
  <2>2. QED
    BY <2>1
<1>2. QED
  BY <1>1 DEF EnterUsbIsr

LEMMA TransferStep ==
  ASSUME UsbTypeOK, Asked, BusEventsServed, TransferInStep, UsbNext
  PROVE  TransferInStep'
<1> SUFFICES ASSUME ~usb_raced' PROVE TransferInStep'
  BY DEF TransferInStep
<1>1. CASE EnterUsbIsr
  BY <1>1, EntryInStep
<1> SUFFICES ASSUME ~usb_raced, ~EnterUsbIsr PROVE TransferInStep'
  BY <1>1, RacedStays
<1>2. CASE UsbIsr
  BY <1>2, OverInStep, SetupInStep, AddressInStep, SentInStep, DataInStep, NothingInStep DEF UsbIsr
<1>3. ASSUME NEW request \in Controls, HostSetup(request) PROVE TransferInStep'
  BY <1>3, RequestInStep
<1>4. CASE HostMoves \/ HostAbort
  <2>1. Underway /\ usb_irq = {} /\ UNCHANGED <<cep, cep_state, usb_isr>>
    BY <1>4, HostCases, EndpointKept DEF BusEventsServed
  <2>2. CASE usb_isr = "trap"
    <3>1. csr0 \subseteq {"RXPKTRDY", "SETUP_END", "STALL_SENT"} /\ host.stage \in {"data", "status"}
      BY <2>1, <2>2 DEF TransferInStep, Underway
    <3>2. ~HostIn /\ ~HostStatus /\ ~HostStalled
      BY <3>1 DEF HostIn, HostStatus, HostStalled
    <3>3. csr0' \subseteq {"RXPKTRDY", "SETUP_END", "STALL_SENT"} /\ ~host'.ok
      BY <1>4, <3>1, <3>2, HostCases
    <3>4. QED
      BY <2>1, <2>2, <3>3 DEF TransferInStep
  <2>3. CASE usb_isr # "trap"
    <3>1. InPhase'
      BY <1>4, <2>3, InInStep, OutInStep, StatusInStep, StalledInStep, AbortInStep DEF HostMoves
    <3>2. usb_isr' = "address" => Ready'
      BY <2>1 DEF TransferInStep, Ready, Underway
    <3>3. QED
      BY <2>1, <2>3, <3>1, <3>2, InPhaseSuffices
  <2>4. QED
    BY <2>2, <2>3
<1>5. CASE BusReset \/ BusSuspend \/ BusResume \/ Disconnect
  BY <1>5, BusInStep
<1>6. QED
  BY <1>2, <1>3, <1>4, <1>5 DEF UsbNext

------------------------------------------------------------------------------
\* What the host has set.

Setters == {"SET_ADDRESS", "SET_CONFIG", "UNSET_CONFIG"}

LEMMA ViewIsHosts ==
  ASSUME host.stage # "status" \/ csr0 # {"DATA_END"} \/ host.request.name \notin Setters
  PROVE  DeviceView = host_view
BY DEF DeviceView, AfterRequest, Setters

LEMMA ViewIsHostsNext ==
  ASSUME host'.stage # "status" \/ csr0' # {"DATA_END"} \/ host'.request.name \notin Setters
  PROVE  DeviceView' = host_view'
BY DEF DeviceView, AfterRequest, Setters

DeviceAgrees ==
  /\ device_addr = DeviceView.address
  /\ device_state = IF DeviceView.config = 1 THEN "CONFIGURED"
                    ELSE IF DeviceView.address = 1 THEN "ADDRESS" ELSE "DEFAULT"
  /\ faddr = IF usb_isr = "address" THEN 0 ELSE DeviceView.address

LEMMA SetupSets ==
  ASSUME UsbTypeOK, Asked, BusEventsServed, TransferInStep, DeviceAgrees, SetupPacket, ~usb_raced, ~usb_raced',
         host.stage # "off", usb_isr' # "trap"
  PROVE  DeviceAgrees'
<1>1. /\ UNCHANGED <<host, host_view, faddr>> /\ usb_isr = "endpoint" /\ Underway /\ csr0 # {"DATA_END"}
      /\ Csr = {} /\ Request = host.request /\ Request \in Controls
      /\ host.stage = "status" <=> Request.length = 0
  BY RequestMet DEF SetupPacket, HandleEndpoint, hostVars
<1>2. /\ device_addr = host_view.address /\ faddr = host_view.address
      /\ device_state = IF host_view.config = 1 THEN "CONFIGURED"
                        ELSE IF host_view.address = 1 THEN "ADDRESS" ELSE "DEFAULT"
  BY <1>1, ViewIsHosts DEF DeviceAgrees
<1>3. MayAsk(Request) /\ host_view \in [address : 0..1, config : 0..1] /\ (host_view.config = 1 => host_view.address = 1)
  BY <1>1 DEF Asked, UsbTypeOK
<1>4. ~Misread
  BY DEF Misread
<1>5. SetDevice(Request)
  BY <1>4, SetupCases
<1>6. CASE Request.name \notin Setters
  <2>1. UNCHANGED <<device_addr, device_state>>
    BY <1>5, <1>6 DEF SetDevice, Setters
  <2>2. DeviceView' = host_view
    BY <1>1, <1>6, ViewIsHostsNext
  <2>3. usb_isr' # "address"
    BY <1>4, <1>6, SetupCases DEF RefusedInSetup, Done, Taking, Sending, Unanswerable, Setters
  <2>4. QED
    BY <1>2, <1>1, <2>1, <2>2, <2>3 DEF DeviceAgrees
<1>7. CASE Request.name \in Setters
  <2>1. Request.length = 0 /\ host.stage = "status"
    BY <1>1, <1>7, ControlTypes DEF Setters, NoData
  <2>2. Done(Request, Csr)
    BY <1>4, <1>7, SetupCases DEF Setters, Taking, Sending, Unanswerable, Reads, Writes, Short
  <2>3. csr0' = {"DATA_END"} /\ usb_isr' = (IF Request.name = "SET_ADDRESS" THEN "address" ELSE "exit")
    <3>1. csr0' = {"DATA_END"}
      BY <1>1, <2>2 DEF Done
    <3>2. QED
      BY <1>7, <2>2, <3>1 DEF Done, Setters
  <2>4. DeviceView' = AfterRequest(host_view, Request)
    BY <1>1, <2>1, <2>3 DEF DeviceView
  <2>5. CASE Request.name = "SET_ADDRESS"
    <3>1. host_view.address = 0 /\ host_view.config = 0 /\ device_state = "DEFAULT" /\ faddr = 0
      BY <1>2, <1>3, <2>5 DEF MayAsk
    <3>2. device_addr' = 1 /\ device_state' = "ADDRESS"
      BY <1>5, <2>5, <3>1 DEF SetDevice
    <3>3. DeviceView'.address = 1 /\ DeviceView'.config = 0
      BY <1>3, <2>4, <2>5, <3>1 DEF AfterRequest
    <3>4. QED
      BY <1>1, <2>3, <2>5, <3>1, <3>2, <3>3 DEF DeviceAgrees
  <2>6. CASE Request.name = "SET_CONFIG"
    <3>1. host_view.address = 1 /\ device_state \in {"ADDRESS", "CONFIGURED"} /\ faddr = 1 /\ device_addr = 1
      BY <1>2, <1>3, <2>6 DEF MayAsk
    <3>2. device_addr' = 1 /\ device_state' = "CONFIGURED"
      BY <1>5, <2>6, <3>1 DEF SetDevice
    <3>3. DeviceView'.address = 1 /\ DeviceView'.config = 1
      BY <1>3, <2>4, <2>6, <3>1 DEF AfterRequest
    <3>4. QED
      BY <1>1, <2>3, <2>6, <3>1, <3>2, <3>3 DEF DeviceAgrees
  <2>7. CASE Request.name = "UNSET_CONFIG"
    <3>1. host_view.config = 1 /\ host_view.address = 1 /\ device_state = "CONFIGURED" /\ faddr = 1 /\ device_addr = 1
      BY <1>2, <1>3, <2>7 DEF MayAsk
    <3>2. device_addr' = 1 /\ device_state' = "ADDRESS"
      BY <1>5, <2>7, <3>1 DEF SetDevice
    <3>3. DeviceView'.address = 1 /\ DeviceView'.config = 0
      BY <1>3, <2>4, <2>7, <3>1 DEF AfterRequest
    <3>4. QED
      BY <1>1, <2>3, <2>7, <3>1, <3>2, <3>3 DEF DeviceAgrees
  <2>8. QED
    BY <1>7, <2>5, <2>6, <2>7 DEF Setters
<1>8. QED
  BY <1>6, <1>7

LEMMA DeviceStep ==
  ASSUME UsbTypeOK, Asked, BusEventsServed, TransferInStep, DeviceInStep, UsbNext
  PROVE  DeviceInStep'
<1> SUFFICES ASSUME ~usb_raced', ~usb_resumed', host'.stage \in {"idle", "data", "status"}, usb_irq' = {},
                    usb_isr' # "trap"
             PROVE  DeviceAgrees'
  BY DEF DeviceInStep, DeviceAgrees
<1>1. CASE EnterUsbIsr
  <2>1. UNCHANGED <<host, host_view, faddr>> /\ usb_isr = "exit" /\ usb_isr' \in {"exit", "endpoint"}
    BY <1>1, EntryCases
  <2>2. CASE "RESET" \in usb_irq
    <3>1. faddr = 0 /\ host_view.address = 0 /\ host_view.config = 0 /\ host.stage = "idle"
      BY <2>2 DEF BusEventsServed
    <3>2. device_addr' = 0 /\ device_state' = "DEFAULT"
      BY <1>1, <2>2, EntryCases
    <3>3. DeviceView' = host_view
      BY <2>1, <3>1, ViewIsHostsNext
    <3>4. QED
      BY <2>1, <3>1, <3>2, <3>3 DEF DeviceAgrees
  <2>3. CASE "RESET" \notin usb_irq
    <3>1. "RESUME" \notin usb_irq /\ ~usb_resumed /\ ~usb_raced
      BY <1>1, <2>3 DEF EnterUsbIsr
    <3>2. usb_irq = {}
      BY <2>1, <2>3, <3>1 DEF BusEventsServed
    <3>3. UNCHANGED <<device_addr, device_state, csr0>>
      BY <1>1, <3>2, EntryCases DEF DeviceEvents
    <3>4. UNCHANGED DeviceView
      BY <2>1, <3>3 DEF DeviceView, AfterRequest
    <3>5. DeviceAgrees
      BY <2>1, <3>1, <3>2 DEF DeviceInStep, DeviceAgrees
    <3>6. QED
      BY <2>1, <3>3, <3>4, <3>5 DEF DeviceAgrees
  <2>4. QED
    BY <2>2, <2>3
<1> SUFFICES ASSUME ~usb_raced, ~EnterUsbIsr PROVE DeviceAgrees'
  BY <1>1, RacedStays
<1>2. UNCHANGED usb_resumed
  BY DEF UsbNext, UsbIsr, TransferOver, SetupPacket, SetAddress, SentPacket, DataPacket, NothingToDo, Expecting,
         HandleEndpoint, HostMoves, HostIn, HostOut, HostStatus, HostStalled, HostAbort, HostSetup, BusReset,
         BusSuspend, BusResume, Disconnect, BusEvent, driverVars
<1>3. CASE UsbIsr
  <2>1. UNCHANGED <<host, host_view>> /\ usb_isr \in {"endpoint", "address"}
    BY <1>3 DEF UsbIsr, TransferOver, SetupPacket, SentPacket, DataPacket, NothingToDo, SetAddress, Expecting,
                HandleEndpoint, hostVars
  <2>2. DeviceAgrees /\ usb_irq = {}
    <3>1. usb_irq = {}
      BY <2>1 DEF BusEventsServed
    <3>2. QED
      BY <1>2, <2>1, <3>1 DEF DeviceInStep, DeviceAgrees
  <2>3. CASE SetupPacket
    BY <2>1, <2>2, <2>3, SetupSets
  <2>4. CASE SetAddress
    <3>1. /\ faddr' = device_addr /\ UNCHANGED <<device_addr, device_state, csr0>> /\ "DATA_END" \notin csr0
          /\ usb_isr' = "exit"
      BY <2>4 DEF SetAddress, deviceVars, Exit
    <3>2. DeviceView = host_view /\ DeviceView' = host_view
      BY <2>1, <3>1, ViewIsHosts, ViewIsHostsNext
    <3>3. QED
      BY <2>1, <2>2, <3>1, <3>2 DEF DeviceAgrees
  <2>5. CASE TransferOver \/ SentPacket \/ DataPacket
    <3>1. host.stage # "status" \/ host.request.name \in Reads \cup Writes
      <4>1. CASE TransferOver
        BY <2>1, <4>1, OverInStep DEF Underway
      <4>2. CASE SentPacket
        BY <2>1, <4>2, SentInStep DEF Underway, DataSending
      <4>3. CASE DataPacket
        BY <2>1, <4>3, DataInStep DEF DataTaking
      <4>4. QED
        BY <2>5, <4>1, <4>2, <4>3
    <3>2. DeviceView = host_view /\ DeviceView' = host_view
      BY <2>1, <3>1, ViewIsHosts, ViewIsHostsNext DEF Reads, Writes, Short, Setters
    <3>3. UNCHANGED <<deviceVars, faddr>> /\ usb_isr = "endpoint" /\ usb_isr' = "exit"
      BY <2>5 DEF TransferOver, SentPacket, DataPacket, Expecting, HandleEndpoint, Exit
    <3>4. QED
      BY <2>2, <3>2, <3>3 DEF DeviceAgrees, deviceVars
  <2>6. CASE NothingToDo
    <3>1. UNCHANGED <<deviceVars, faddr, csr0>> /\ usb_isr = "endpoint" /\ usb_isr' = "exit"
      BY <2>6 DEF NothingToDo, HandleEndpoint, Exit
    <3>2. UNCHANGED DeviceView
      BY <2>1, <3>1 DEF DeviceView, AfterRequest
    <3>3. QED
      BY <2>2, <3>1, <3>2 DEF DeviceAgrees, deviceVars
  <2>7. QED
    BY <1>3, <2>3, <2>4, <2>5, <2>6 DEF UsbIsr
<1>4. ASSUME NEW request \in Controls, HostSetup(request) PROVE DeviceAgrees'
  <2>1. /\ host.stage = "idle" /\ usb_irq = {} /\ csr0' = csr0 \cup {"RXPKTRDY"}
        /\ UNCHANGED <<host_view, deviceVars, faddr, usb_isr>>
    BY <1>4 DEF HostSetup, QuietBus, driverVars
  <2>2. DeviceView = host_view /\ DeviceView' = host_view
    BY <2>1, ViewIsHosts, ViewIsHostsNext
  <2>3. DeviceAgrees
    BY <1>2, <2>1 DEF DeviceInStep, DeviceAgrees
  <2>4. QED
    BY <2>1, <2>2, <2>3 DEF DeviceAgrees, deviceVars
<1>5. CASE HostMoves \/ HostAbort
  <2>1. /\ Underway /\ usb_irq = {} /\ UNCHANGED <<deviceVars, faddr, usb_isr>> /\ usb_isr # "trap"
        /\ host'.request = host.request
    <3>1. UNCHANGED faddr
      BY <1>5 DEF HostMoves, HostIn, HostOut, HostStatus, HostStalled, HostAbort
    <3>2. QED
      BY <1>5, <3>1, HostCases, EndpointKept DEF BusEventsServed
  <2>2. DeviceAgrees
    BY <1>2, <2>1 DEF DeviceInStep, DeviceAgrees, Underway
  <2>3. CASE HostStatus
    <3>1. csr0 = {"DATA_END"} /\ host.stage = "status" /\ host'.stage = "idle"
      BY <2>1, <2>3, StatusInStep DEF HostStatus, UsbTypeOK, Hosts
    <3>2. host_view' = AfterRequest(host_view, host.request)
      BY <2>3 DEF HostStatus, AfterRequest
    <3>3. DeviceView = host_view' /\ DeviceView' = host_view'
      BY <3>1, <3>2, ViewIsHostsNext DEF DeviceView
    <3>4. QED
      BY <2>1, <2>2, <3>3 DEF DeviceAgrees, deviceVars
  <2>4. CASE HostIn \/ HostOut \/ HostStalled \/ HostAbort
    <3>1. UNCHANGED host_view
      BY <2>4 DEF HostIn, HostOut, HostStalled, HostAbort
    <3>2. \/ host.request.name \in Reads \cup Writes
          \/ HostStalled /\ host'.stage = "idle" /\ csr0 # {"DATA_END"}
      <4>1. CASE HostStalled
        BY <2>1, <4>1, StalledInStep, HostStep DEF HostStalled, UsbTypeOK
      <4>2. QED
        BY <2>4, <4>1 DEF HostIn, HostOut, HostAbort
    <3>3. DeviceView = host_view /\ DeviceView' = host_view
      BY <2>1, <3>1, <3>2, ViewIsHosts, ViewIsHostsNext DEF Reads, Writes, Short, Setters
    <3>4. QED
      BY <2>1, <2>2, <3>1, <3>3 DEF DeviceAgrees, deviceVars
  <2>5. QED
    BY <1>5, <2>3, <2>4 DEF HostMoves
<1>6. CASE BusReset \/ BusSuspend \/ BusResume \/ Disconnect
  BY <1>6 DEF BusReset, BusSuspend, BusResume, Disconnect, BusEvent
<1>7. QED
  BY <1>3, <1>4, <1>5, <1>6 DEF UsbNext

------------------------------------------------------------------------------
\* Transfers the host sees succeed, and the theorems.

LEMMA MovedStep ==
  ASSUME UsbTypeOK, Asked, BusEventsServed, TransferInStep, usb_raced \/ MovedAll, UsbNext
  PROVE  usb_raced' \/ MovedAll'
<1> SUFFICES ASSUME ~usb_raced', host'.ok, host'.stage = "idle" PROVE MovedAll'
  BY DEF MovedAll
<1>1. CASE UNCHANGED <<host, written>> /\ ~usb_raced
  BY <1>1 DEF MovedAll
<1>2. CASE EnterUsbIsr
  <2>1. UNCHANGED <<host, written>>
    BY <1>2, EntryCases
  <2>2. "RESET" \notin usb_irq
    BY <2>1 DEF BusEventsServed
  <2>3. ~usb_raced
    BY <1>2, <2>2 DEF EnterUsbIsr
  <2>4. QED
    BY <1>1, <2>1, <2>3
<1> SUFFICES ASSUME ~usb_raced, ~EnterUsbIsr PROVE MovedAll'
  BY <1>2, RacedStays
<1>3. CASE UsbIsr
  <2>1. UNCHANGED host
    BY <1>3 DEF UsbIsr, TransferOver, SetupPacket, SentPacket, DataPacket, NothingToDo, SetAddress, Expecting,
                HandleEndpoint, hostVars
  <2>2. ~SetupPacket /\ ~DataPacket
    BY <2>1, RequestMet, DataInStep DEF Underway
  <2>3. UNCHANGED written
    BY <1>3, <2>2 DEF UsbIsr, TransferOver, SentPacket, NothingToDo, SetAddress, endpointVars
  <2>4. QED
    BY <1>1, <2>1, <2>3
<1>4. CASE HostStatus
  <2>1. /\ host.stage = "status" /\ "DATA_END" \in csr0 /\ host'.request = host.request /\ host'.moved = host.moved
        /\ UNCHANGED written
    BY <1>4, EndpointKept DEF HostMoves, HostStatus, UsbTypeOK, Hosts
  <2>2. usb_isr # "trap"
    BY <2>1 DEF TransferInStep, BusEventsServed, Underway
  <2>3. StatusPending \/ DataSending \/ DataTaken
    BY <1>4, <2>2, StatusInStep
  <2>4. CASE StatusPending
    BY <2>1, <2>4 DEF StatusPending, MovedAll, NoData, Reads, Writes, Short
  <2>5. CASE DataTaken
    BY <2>1, <2>5 DEF DataTaken, MovedAll, Reads, Writes, Short
  <2>6. CASE DataSending
    <3>1. /\ host.request.name \in Reads /\ host.moved = cep.length
          /\ cep.length = Min({IF host.request.name \in Short THEN 1 ELSE ReplyLength, host.request.length})
      BY <2>1, <2>6 DEF DataSending
    <3>2. CASE host.request.name \in Short
      BY <2>1, <3>2 DEF MovedAll, Short
    <3>3. CASE host.request.name \notin Short
      <4>1. {ReplyLength, host.request.length} = {host.request.length, ReplyLength}
        OBVIOUS
      <4>2. host.moved = Min({host.request.length, ReplyLength})
        BY <3>1, <3>3, <4>1
      <4>3. host'.moved = Min({host'.request.length, ReplyLength}) /\ host'.request.name # "CLASS_OUT"
        BY <2>1, <3>1, <4>2 DEF Reads, Short
      <4>4. QED
        BY <4>3 DEF MovedAll
    <3>4. QED
      BY <3>2, <3>3
  <2>7. QED
    BY <2>3, <2>4, <2>5, <2>6
<1>5. CASE HostIn \/ HostOut \/ HostStalled \/ HostAbort
  BY <1>5, HostStep DEF HostIn, HostOut, HostStalled, HostAbort, UsbTypeOK
<1>6. ASSUME NEW request \in Controls, HostSetup(request) PROVE MovedAll'
  BY <1>6 DEF HostSetup
<1>7. CASE BusReset \/ BusSuspend \/ BusResume \/ Disconnect
  BY <1>7, BusCases
<1>8. QED
  BY <1>3, <1>4, <1>5, <1>6, <1>7 DEF UsbNext, HostMoves

LEMMA UsbInitially == UsbInit => UsbInv
<1> SUFFICES ASSUME UsbInit PROVE UsbInv
  OBVIOUS
<1> USE UsbAssumption DEF UsbAssumption, UsbInit
<1>1. UsbTypeOK
  <2>1. host \in Hosts
    BY DEF Hosts
  <2>2. 0 \in 0..MaxPacket /\ 0 \in 0..MaxControls /\ 0 \in 0..MaxEvents
    OBVIOUS
  <2>3. cep \in [state : {"IDLE", "TX", "RX"}, buf : {"null", "setup", "reply", "class"},
                 txn : 0..MaxPacket, length : Nat, count : Nat]
    BY <2>2
  <2>4. EndpointTypes
    BY <2>3 DEF EndpointTypes
  <2>5. host_view \in [address : 0..1, config : 0..1]
    OBVIOUS
  <2>6. {tx_irq, usb_resumed, usb_raced} \subseteq BOOLEAN
    OBVIOUS
  <2>7. QED
    BY <2>1, <2>2, <2>4, <2>5, <2>6, TypeParts DEF DeviceStates
<1>2. Asked /\ BusEventsServed /\ BuffersFit
  BY DEF Asked, BusEventsServed, BuffersFit, Underway
<1>3. EndsApart /\ StoppedIsStalled
  BY DEF EndsApart, StoppedIsStalled, Unfinished, Away
<1>4. TransferInStep /\ DeviceInStep /\ MovedAll
  BY DEF TransferInStep, DeviceInStep, MovedAll
<1>5. QED
  BY <1>1, <1>2, <1>3, <1>4 DEF UsbInv

LEMMA UsbInductive == UsbInv /\ [UsbNext]_usbVars => UsbInv'
<1> SUFFICES ASSUME UsbInv, [UsbNext]_usbVars PROVE UsbInv'
  OBVIOUS
<1> USE DEF UsbInv
<1>1. UsbTypeOK' /\ Asked'
  BY UsbTyped, AskedStep
<1>2. CASE UsbNext
  <2>1. BusEventsServed' /\ BuffersFit' /\ EndsApart'
    BY <1>2, BusEventsStep, BuffersStep, BothEndsStep
  <2>2. StoppedIsStalled'
    BY <1>2, StoppedStep
  <2>3. TransferInStep' /\ DeviceInStep'
    BY <1>2, TransferStep, DeviceStep
  <2>4. usb_raced' \/ MovedAll'
    BY <1>2, MovedStep
  <2>5. QED
    BY <1>1, <2>1, <2>2, <2>3, <2>4
<1>3. CASE UNCHANGED usbVars
  <2> USE <1>3 DEF usbVars, deviceVars, endpointVars, hostVars
  <2>1. BusEventsServed' /\ BuffersFit' /\ EndsApart' /\ StoppedIsStalled'
    BY DEF BusEventsServed, BuffersFit, EndsApart, StoppedIsStalled, Underway, Unfinished, Away
  <2>2. TransferInStep'
    BY DEF TransferInStep, Underway, Ready, SentAll, Resting, SetupPending, Stalling, StatusPending, DataSending,
           DataTaking, DataTaken
  <2>3. DeviceInStep'
    BY DEF DeviceInStep, DeviceView, AfterRequest
  <2>4. usb_raced' \/ MovedAll'
    BY DEF MovedAll
  <2>5. QED
    BY <1>1, <2>1, <2>2, <2>3, <2>4
<1>4. QED
  BY <1>2, <1>3

\* What the driver and the host have of the endpoint stays in its type, whatever
\* the host asks for and when; and no packet is longer than the FIFO.
THEOREM UsbTyping == UsbSpec => []UsbTypeOK
<1>1. UsbInit => UsbTypeOK /\ Asked
  BY UsbInitially DEF UsbInv
<1>2. (UsbTypeOK /\ Asked) /\ [UsbNext]_usbVars => (UsbTypeOK /\ Asked)'
  BY UsbTyped, AskedStep
<1>3. QED
  BY <1>1, <1>2, PTL DEF UsbSpec

LEMMA UsbInvIsSafe == UsbInv => UsbSafety
<1> SUFFICES ASSUME UsbInv PROVE UsbSafety
  OBVIOUS
<1> USE DEF UsbInv
<1>1. DataIsExpected
  <2> SUFFICES ASSUME usb_isr = "endpoint", cep_state = "RX", "RXPKTRDY" \in csr0,
                      csr0 \cap {"STALL_SENT", "SETUP_END"} = {}
               PROVE  cep.state = "RX"
    BY DEF DataIsExpected
  <2>1. "RESET" \notin usb_irq
    BY DEF BusEventsServed
  <2>2. QED
    BY <2>1 DEF StoppedIsStalled
<1>2. usb_raced \/ usb_resumed \/ AsTheHostSet
  <2> SUFFICES ASSUME ~usb_raced, ~usb_resumed, usb_isr = "exit", usb_irq = {}, host.stage = "idle"
               PROVE  faddr = host_view.address /\ (device_state = "CONFIGURED" <=> host_view.config = 1)
    BY DEF AsTheHostSet
  <2>1. DeviceView = host_view
    BY ViewIsHosts
  <2>2. QED
    BY <2>1 DEF DeviceInStep
<1>3. QED
  BY <1>1, <1>2 DEF UsbSafety

\* The driver takes a packet for data in a write only; unless a request has come
\* too soon, a transfer the host sees succeed has moved all it should, and the
\* device has the state and the address the host has set.
THEOREM TransfersWhole == UsbSpec => []UsbSafety
BY UsbInvIsSafe, UsbInitially, UsbInductive, PTL DEF UsbSpec
=============================================================================
