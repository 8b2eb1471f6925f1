------------------------------ MODULE MacQueue ------------------------------
(***************************************************************************)
(* The queues of the Ethernet MAC driver                                   *)
(* (drivers/mss/mss_ethernet_mac/mss_ethernet_mac.c): the receive ring of   *)
(* queue 0, the transmit rings of every queue, the handler of each queue's  *)
(* interrupt, and the GEM's DMA.                                           *)
(*                                                                         *)
(* One hart makes the calls and takes the interrupts; a call with the       *)
(* queue's interrupt disabled is one step.  The client attaches RxBuffers   *)
(* buffers with INT_DISABLE, the last with INT_ARM, gives every buffer back *)
(* in the receive callback, and sends from the thread or from that callback.*)
(*                                                                         *)
(* GEM_ENABLE_TRANSMIT is set when the MAC is initialised (438, 470), and   *)
(* nothing in src/ clears it, so the branches of the send functions that    *)
(* find it clear (1904-1920, 2091-2094, 2197-2253) are not taken here.      *)
(***************************************************************************)
EXTENDS Naturals, Sequences, FiniteSets, FiniteSetsExt

CONSTANTS
  MacQueues,   \* the transmit queues, 0 among them
  RxRing,      \* MSS_MAC_RX_RING_SIZE
  TxRing,      \* MSS_MAC_TX_RING_SIZE
  RxBuffers,   \* the buffers the client attaches
  MaxFrames,   \* bound on the frames received
  MaxPackets,  \* bound on the packets accepted by all the queues
  MaxTries     \* calls on a busy queue that has sent all it had, 3 in the code

ASSUME MacAssumption ==
  /\ 0 \in MacQueues /\ MacQueues \subseteq Nat /\ RxRing \in Nat \ {0}
  /\ TxRing \in Nat \ {0, 1} /\ RxBuffers \in 1..RxRing /\ MaxFrames \in Nat
  /\ MaxPackets \in Nat /\ MaxTries \in Nat

VARIABLES
  enable_receive,          \* GEM_ENABLE_RECEIVE
  rx_desc,                 \* rx_desc_tab: the buffer, 0 when none, and GEM_RX_DMA_USED
  rx_dma,                  \* the descriptor the DMA fills next
  nb_available_rx_desc, next_free_rx_desc_index, first_rx_desc_index,
  received,                \* the number of the frame in each buffer, 0 being no buffer
  frames,                  \* frames written by the DMA
  delivered,               \* history: what the receive callback was given
  tx_desc,                 \* tx_desc_tab: "ready", "used" or "failed"
  tx_caller_info,          \* the packet in each descriptor
  nb_available_tx_desc, current_tx_desc, tries,
  tx_go,                   \* GEM_TRANSMIT_GO
  tx_status,               \* GEM_STAT_TRANSMIT_COMPLETE, one bit for every queue
  accepted,                \* packets accepted by each queue
  called_back, given_up,   \* history: the packets called back, and those the driver gave up
  int_status,              \* each queue's enabled and pending interrupts
  plic,                    \* the queues whose interrupt is enabled at the PLIC
  mac_isr,                 \* the handler, see IsrStates
  mac_lost                 \* history: a completion found tx_status cleared, or a transmission failed

rxVars == <<enable_receive, rx_desc, rx_dma, nb_available_rx_desc, next_free_rx_desc_index,
            first_rx_desc_index, received, frames, delivered>>
txVars == <<tx_desc, tx_caller_info, nb_available_tx_desc, current_tx_desc, tries, tx_go, tx_status, accepted,
            called_back, given_up>>
macVars == <<rxVars, txVars, int_status, plic, mac_isr, mac_lost>>

Interrupts == {"RECEIVE_COMPLETE", "RX_USED_BIT_READ", "TRANSMIT_COMPLETE"}
Buffers == 1..RxBuffers
IsrStates == [queue : MacQueues, pending : SUBSET Interrupts, burst : 0..RxRing,
              at : {"exit", "receive", "packet", "callback", "transmit", "others"}]
NoIsr == [queue |-> 0, pending |-> {}, burst |-> 0, at |-> "exit"]

\* rx_desc_ring_init(): no buffer, but not marked as used either.
RxRingInit == [i \in 0..RxRing-1 |-> [buffer |-> 0, used |-> FALSE]]
TxRingInit == [q \in MacQueues |-> [i \in 0..TxRing-1 |-> "used"]]

MacInit ==
  /\ enable_receive = FALSE /\ rx_desc = RxRingInit /\ rx_dma = 0
  /\ nb_available_rx_desc = RxRing /\ next_free_rx_desc_index = 0 /\ first_rx_desc_index = 0
  /\ received = [b \in 0..RxBuffers |-> 0] /\ frames = 0 /\ delivered = <<>>
  /\ tx_desc = TxRingInit /\ tx_go = FALSE /\ tx_status = FALSE
  /\ nb_available_tx_desc = [q \in MacQueues |-> TxRing]
  /\ current_tx_desc = [q \in MacQueues |-> 0] /\ tries = [q \in MacQueues |-> 0]
  /\ accepted = [q \in MacQueues |-> 0]
  /\ tx_caller_info = [q \in MacQueues |-> [i \in 0..TxRing-1 |-> 0]]
  /\ called_back = [q \in MacQueues |-> {}] /\ given_up = [q \in MacQueues |-> {}]
  /\ int_status = [q \in MacQueues |-> {}] /\ plic = {} /\ mac_isr = NoIsr /\ mac_lost = FALSE

------------------------------------------------------------------------------
\* Calls.

InThread == mac_isr.at = "exit"
InCallback == mac_isr.at = "callback"

\* The PLIC's enable is left as it is for a queue whose handler is running.
EnableIrq(queues) ==
  plic' = plic \cup (IF InThread THEN queues ELSE queues \ {mac_isr.queue})

\* The descriptor gets the buffer, and with it the right to be written.
Attach(buffer) ==
  /\ nb_available_rx_desc' = nb_available_rx_desc - 1
  /\ rx_desc' = [rx_desc EXCEPT ![next_free_rx_desc_index] = [buffer |-> buffer, used |-> FALSE]]
  /\ next_free_rx_desc_index' = (next_free_rx_desc_index + 1) % RxRing

\* MSS_MAC_receive_pkt() before the reception starts: INT_DISABLE, at last INT_ARM.
ReceivePkt ==
  /\ InThread /\ ~enable_receive /\ next_free_rx_desc_index = RxRing - nb_available_rx_desc
  /\ LET buffer == next_free_rx_desc_index + 1 IN
       /\ Attach(buffer)
       /\ enable_receive' = (buffer = RxBuffers)
       /\ IF buffer = RxBuffers THEN rx_dma' = 0 /\ plic' = plic \cup {0}
          ELSE UNCHANGED rx_dma /\ plic' = plic \ {0}
  /\ UNCHANGED <<first_rx_desc_index, received, frames, delivered, txVars, int_status, mac_isr,
                 mac_lost>>

Available(q) == nb_available_tx_desc[q] = TxRing
Outstanding(q) == 1..accepted[q] \ (called_back[q] \cup given_up[q])

\* n[q] packets go to the first descriptors of each queue; the next one stops
\* the DMA, and nothing looks behind it.
Chain(n) ==
  /\ MapThenSumSet(LAMBDA q : accepted[q] + n[q], MacQueues) <= MaxPackets
  /\ tx_desc' = [q \in MacQueues |-> IF n[q] = 0 THEN tx_desc[q]
                   ELSE [i \in 0..TxRing-1 |-> IF i < n[q] THEN "ready" ELSE "used"]]
  /\ tx_caller_info' = [q \in MacQueues |-> IF n[q] = 0 THEN tx_caller_info[q]
                          ELSE [i \in 0..TxRing-1 |-> IF i < n[q] THEN accepted[q] + i + 1 ELSE 0]]
  /\ nb_available_tx_desc' = [q \in MacQueues |-> nb_available_tx_desc[q] - n[q]]
  /\ current_tx_desc' = [q \in MacQueues |-> IF n[q] = 0 THEN current_tx_desc[q] ELSE 0]
  /\ accepted' = [q \in MacQueues |-> accepted[q] + n[q]]
  /\ tx_go' = (\E q \in MacQueues : n[q] > 0)

\* Mutant: nb_available_tx_desc is not looked at.
SendPktWhenIdle(queue) ==
  /\ InThread \/ InCallback
  /\ ~tx_go
  /\ Chain([q \in MacQueues |-> IF q = queue THEN 1 ELSE 0])
  /\ tries' = [tries EXCEPT ![queue] = 0]
  /\ EnableIrq({queue})
  /\ UNCHANGED <<rxVars, tx_status, called_back, given_up, int_status, mac_isr, mac_lost>>

\* MSS_MAC_send_pkt() waits until the transmitter is idle.
SendPkt(queue) ==
  /\ InThread \/ InCallback
  /\ Available(queue) /\ ~tx_go
  /\ Chain([q \in MacQueues |-> IF q = queue THEN 1 ELSE 0])
  /\ tries' = [tries EXCEPT ![queue] = 0]
  /\ EnableIrq({queue})
  /\ UNCHANGED <<rxVars, tx_status, called_back, given_up, int_status, mac_isr, mac_lost>>

\* The driver gives up the packets of these queues.
GiveUp(queues) ==
  /\ nb_available_tx_desc' = [q \in MacQueues |-> IF q \in queues THEN TxRing
                                                  ELSE nb_available_tx_desc[q]]
  /\ given_up' = [q \in MacQueues |-> given_up[q] \cup
                    IF q \in queues THEN Outstanding(q) ELSE {}]

\* Kicking the transmitter makes it go on with what is ready.
Kick == tx_go' = (\E q \in MacQueues, i \in 0..TxRing-1 : tx_desc[q][i] = "ready")

\* Another try for these queues, which have sent all they had, up to the one
\* that is one too many.
TryAgain(queues) ==
  tries' = [q \in MacQueues |-> IF q \in queues /\ tries[q] <= MaxTries THEN tries[q] + 1 ELSE tries[q]]

\* MSS_MAC_send_pkt() on a busy queue.
SendPktBusy(queue) ==
  /\ InThread \/ InCallback
  /\ ~Available(queue)
  /\ Kick
  /\ TryAgain(IF tx_desc[queue][0] # "ready" THEN {queue} ELSE {})
  /\ IF (tries'[queue] > MaxTries /\ tx_desc[queue][0] # "ready") \/ tx_desc[queue][0] = "failed"
     THEN GiveUp({queue}) ELSE UNCHANGED <<nb_available_tx_desc, given_up>>
  /\ EnableIrq({queue})
  /\ UNCHANGED <<rxVars, tx_desc, tx_caller_info, current_tx_desc, tx_status, accepted, called_back, int_status,
                 mac_isr, mac_lost>>

AllAvailable == \A q \in MacQueues : Available(q)

\* MSS_MAC_send_pkts(), whose mask names the queues it has packets for.
SendPkts(n) ==
  /\ InThread \/ InCallback
  /\ AllAvailable /\ ~tx_go
  /\ Chain(n)
  /\ tries' = [q \in MacQueues |-> 0]
  /\ IF InCallback THEN UNCHANGED plic ELSE EnableIrq({0} \cup {q \in MacQueues : n[q] > 0})
  /\ UNCHANGED <<rxVars, tx_status, called_back, given_up, int_status, mac_isr, mac_lost>>

AllSent(q) == \A i \in 0..TxRing-1 : tx_desc[q][i] # "ready"
Failed(q) == \E i \in 0..TxRing-1 : tx_desc[q][i] = "failed"

\* On busy queues it counts a try for the idle ones too.  With transmission
\* disabled (not here, see above) it would restart the queues from their first
\* descriptor not used, or free at once those that have none.
SendPktsBusy ==
  /\ InThread \/ InCallback
  /\ ~AllAvailable
  /\ Kick
  /\ TryAgain({q \in MacQueues : AllSent(q)})
  /\ GiveUp({q \in MacQueues : (AllSent(q) /\ tries'[q] > MaxTries) \/ Failed(q)})
  /\ IF InCallback THEN UNCHANGED plic ELSE EnableIrq(MacQueues)
  /\ UNCHANGED <<rxVars, tx_desc, tx_caller_info, current_tx_desc, tx_status, accepted, called_back, int_status,
                 mac_isr, mac_lost>>

MacClient ==
  \/ ReceivePkt
  \/ \E q \in MacQueues : SendPkt(q) \/ SendPktBusy(q)
  \/ \E n \in [MacQueues -> 0..(TxRing - 1)] : SendPkts(n)
  \/ SendPktsBusy

------------------------------------------------------------------------------
\* The handler of a queue: what is pending is read once and worked through.

IsrAt(place) == mac_isr' = [mac_isr EXCEPT !.at = place]

EnterIsr(q) ==
  /\ InThread /\ q \in plic /\ int_status[q] # {}
  /\ mac_isr' = [queue |-> q, pending |-> int_status[q], burst |-> 0, at |-> "receive"]
  /\ UNCHANGED <<rxVars, txVars, int_status, plic, mac_lost>>

\* Clear first, handle then; and enter the loop of rxpkt_handler() if there is a packet.
StartReceive(interrupt) ==
  /\ int_status' = [int_status EXCEPT ![mac_isr.queue] = @ \ {interrupt}]
  /\ mac_isr' = [mac_isr EXCEPT !.burst = RxRing, !.at = "packet", !.pending = @ \ {interrupt}]

ReceiveIsr ==
  /\ mac_isr.at = "receive"
  /\ IF "RECEIVE_COMPLETE" \in mac_isr.pending THEN StartReceive("RECEIVE_COMPLETE")
     ELSE IsrAt("transmit") /\ UNCHANGED int_status
  /\ UNCHANGED <<rxVars, txVars, plic, mac_lost>>

\* A packet is passed up and its buffer comes back before the callback returns.
RxPacket ==
  /\ mac_isr.at = "packet" /\ mac_isr.burst > 0
  /\ LET desc == rx_desc[first_rx_desc_index] IN
       /\ desc.used
       /\ IF desc.buffer = 0
          THEN /\ nb_available_rx_desc' = nb_available_rx_desc + 1
               /\ UNCHANGED <<rx_desc, next_free_rx_desc_index, delivered>>
          ELSE /\ delivered' = Append(delivered, received[desc.buffer])
               /\ rx_desc' = [rx_desc EXCEPT ![next_free_rx_desc_index] =
                                [buffer |-> desc.buffer, used |-> FALSE]]
               /\ next_free_rx_desc_index' = (next_free_rx_desc_index + 1) % RxRing
               /\ UNCHANGED nb_available_rx_desc
  /\ IsrAt("callback")
  /\ UNCHANGED <<enable_receive, rx_dma, first_rx_desc_index, received, frames, txVars, int_status,
                 plic, mac_lost>>

\* Mutant: the index does not wrap.
RxNextUnwrapped ==
  /\ mac_isr.at = "callback"
  /\ first_rx_desc_index' = first_rx_desc_index + 1
  /\ mac_isr' = [mac_isr EXCEPT !.at = "packet", !.burst = @ - 1]
  /\ UNCHANGED <<enable_receive, rx_desc, rx_dma, nb_available_rx_desc, next_free_rx_desc_index,
                 received, frames, delivered, txVars, int_status, plic, mac_lost>>

RxNext ==
  /\ mac_isr.at = "callback"
  /\ first_rx_desc_index' = (first_rx_desc_index + 1) % RxRing
  /\ mac_isr' = [mac_isr EXCEPT !.at = "packet", !.burst = @ - 1]
  /\ UNCHANGED <<enable_receive, rx_desc, rx_dma, nb_available_rx_desc, next_free_rx_desc_index,
                 received, frames, delivered, txVars, int_status, plic, mac_lost>>

\* Mutant: the interrupt is cleared after the loop.
RxDoneClears ==
  /\ mac_isr.at = "packet" /\ (mac_isr.burst = 0 \/ ~rx_desc[first_rx_desc_index].used)
  /\ enable_receive' = TRUE
  /\ IsrAt("transmit")
  /\ int_status' = [int_status EXCEPT ![mac_isr.queue] = @ \ {"RECEIVE_COMPLETE"}]
  /\ UNCHANGED <<rx_desc, rx_dma, nb_available_rx_desc, next_free_rx_desc_index,
                 first_rx_desc_index, received, frames, delivered, txVars, plic, mac_lost>>

\* Also when no packet was there.
RxDone ==
  /\ mac_isr.at = "packet" /\ (mac_isr.burst = 0 \/ ~rx_desc[first_rx_desc_index].used)
  /\ enable_receive' = TRUE
  /\ IsrAt("transmit")
  /\ UNCHANGED <<rx_desc, rx_dma, nb_available_rx_desc, next_free_rx_desc_index,
                 first_rx_desc_index, received, frames, delivered, txVars, int_status, plic, mac_lost>>

\* txpkt_handler(): every descriptor done since the last time, up to the end of the chain.
TxPackets(q) ==
  LET done == {i \in current_tx_desc[q]..(current_tx_desc[q] + TxRing - nb_available_tx_desc[q] - 1) :
                 \A j \in current_tx_desc[q]..i : tx_desc[q][j] # "ready"}
      n == Cardinality(done)
  IN /\ called_back' = [called_back EXCEPT ![q] = @ \cup {tx_caller_info[q][i] : i \in done}]
     /\ nb_available_tx_desc' = [nb_available_tx_desc EXCEPT ![q] = @ + n]
     /\ current_tx_desc' = [current_tx_desc EXCEPT ![q] = @ + n]

\* A completion of another queue may have taken tx_status away; then nothing
\* is cleared and nothing is handled.
TransmitIsr ==
  /\ mac_isr.at = "transmit"
  /\ mac_isr' = [mac_isr EXCEPT !.at = "others", !.pending = @ \ {"TRANSMIT_COMPLETE"}]
  /\ LET q == mac_isr.queue IN
       IF "TRANSMIT_COMPLETE" \in mac_isr.pending /\ tx_status
       THEN /\ tx_status' = FALSE
            /\ int_status' = [int_status EXCEPT ![q] = @ \ {"TRANSMIT_COMPLETE"}]
            /\ TxPackets(q)
            /\ UNCHANGED mac_lost
       ELSE /\ mac_lost' = (mac_lost \/ "TRANSMIT_COMPLETE" \in mac_isr.pending)
            /\ UNCHANGED <<tx_status, int_status, called_back, nb_available_tx_desc, current_tx_desc>>
  /\ UNCHANGED <<rxVars, tx_desc, tx_caller_info, tries, tx_go, accepted, given_up, plic>>

OthersIsr ==
  /\ mac_isr.at = "others"
  /\ IF "RX_USED_BIT_READ" \in mac_isr.pending THEN StartReceive("RX_USED_BIT_READ")
     ELSE mac_isr' = NoIsr /\ UNCHANGED int_status
  /\ UNCHANGED <<rxVars, txVars, plic, mac_lost>>

MacIsr ==
  \/ \E q \in MacQueues : EnterIsr(q)
  \/ ReceiveIsr \/ RxPacket \/ RxNext \/ RxDone \/ TransmitIsr \/ OthersIsr

------------------------------------------------------------------------------
\* The DMA.

Raise(q, interrupt) == int_status' = [int_status EXCEPT ![q] = @ \cup {interrupt}]

\* A frame is dropped when the next descriptor is used; a descriptor without a
\* buffer sends it to address 0.
RxFrame ==
  /\ enable_receive /\ frames < MaxFrames
  /\ LET desc == rx_desc[rx_dma] IN
       IF desc.used THEN Raise(0, "RX_USED_BIT_READ") /\ UNCHANGED <<rx_desc, rx_dma, received, frames>>
       ELSE /\ rx_desc' = [rx_desc EXCEPT ![rx_dma].used = TRUE]
            /\ rx_dma' = (rx_dma + 1) % RxRing
            /\ frames' = frames + 1
            /\ received' = [received EXCEPT ![desc.buffer] = frames + 1]
            /\ Raise(0, "RECEIVE_COMPLETE")
  /\ UNCHANGED <<enable_receive, nb_available_rx_desc, next_free_rx_desc_index,
                 first_rx_desc_index, delivered, txVars, plic, mac_isr, mac_lost>>

\* The first packet of some queue is sent, or fails and stops the transmitter.
TxFrame ==
  /\ tx_go
  /\ \E q \in MacQueues, i \in 0..TxRing-1 :
       /\ tx_desc[q][i] = "ready" /\ \A j \in 0..i-1 : tx_desc[q][j] # "ready"
       /\ \/ /\ tx_desc' = [tx_desc EXCEPT ![q][i] = "used"]
             /\ tx_go' = (\E p \in MacQueues, j \in 0..TxRing-1 : tx_desc'[p][j] = "ready")
             /\ tx_status' = TRUE /\ Raise(q, "TRANSMIT_COMPLETE") /\ UNCHANGED mac_lost
          \/ /\ tx_desc' = [tx_desc EXCEPT ![q][i] = "failed"]
             /\ tx_go' = FALSE /\ mac_lost' = TRUE /\ UNCHANGED <<tx_status, int_status>>
  /\ UNCHANGED <<rxVars, tx_caller_info, nb_available_tx_desc, current_tx_desc, tries, accepted,
                 called_back, given_up, plic, mac_isr>>

MacNext == MacClient \/ MacIsr \/ RxFrame \/ TxFrame

\* The client finishes attaching its buffers, enabled interrupts are taken, and
\* the transmitter goes on; nothing makes the client send or a frame arrive.
MacFairness == WF_macVars(ReceivePkt) /\ WF_macVars(MacIsr) /\ WF_macVars(TxFrame)
MacSpec == MacInit /\ [][MacNext]_macVars /\ MacFairness

------------------------------------------------------------------------------
\* Properties.

MacTypeOK ==
  /\ enable_receive \in BOOLEAN /\ rx_dma \in 0..RxRing-1 /\ nb_available_rx_desc \in Nat
  /\ rx_desc \in [0..RxRing-1 -> [buffer : 0..RxBuffers, used : BOOLEAN]]
  /\ {next_free_rx_desc_index, first_rx_desc_index} \subseteq 0..RxRing-1
  /\ received \in [0..RxBuffers -> 0..MaxFrames] /\ frames \in 0..MaxFrames
  /\ delivered \in Seq(0..MaxFrames)
  /\ tx_desc \in [MacQueues -> [0..TxRing-1 -> {"ready", "used", "failed"}]]
  /\ tx_caller_info \in [MacQueues -> [0..TxRing-1 -> Nat]]
  /\ nb_available_tx_desc \in [MacQueues -> 1..TxRing]
  /\ current_tx_desc \in [MacQueues -> 0..TxRing-1] /\ tries \in [MacQueues -> 0..MaxTries+1]
  /\ {tx_go, tx_status, mac_lost} \subseteq BOOLEAN /\ accepted \in [MacQueues -> Nat]
  /\ called_back \in [MacQueues -> SUBSET Nat] /\ given_up \in [MacQueues -> SUBSET Nat]
  /\ int_status \in [MacQueues -> SUBSET Interrupts] /\ plic \subseteq MacQueues
  /\ mac_isr \in IsrStates

\* With a buffer in every descriptor, each frame the DMA writes is passed up
\* once, in the order of arrival, and none goes to address 0; and the packets a
\* transmit queue has no descriptor back for are those neither called back
\* nor given up, none of which is both (rxpkt_handler(), txpkt_handler()).
MacSafety ==
  /\ RxBuffers = RxRing =>
       /\ received[0] = 0
       /\ \A k \in 1..Len(delivered) : delivered[k] = k
  /\ \A q \in MacQueues :
       /\ Cardinality(Outstanding(q)) = TxRing - nb_available_tx_desc[q]
       /\ called_back[q] \cap given_up[q] = {}

\* Every frame written is delivered in the end, and the descriptors of a queue
\* whose interrupt is enabled come back, unless a transmission failed or a
\* handler found its completion's status bit cleared by another queue's.
MacServed ==
  /\ \A k \in 1..MaxFrames : (frames >= k) ~> (Len(delivered) >= k \/ mac_lost)
  /\ \A q \in MacQueues : (~Available(q) /\ q \in plic) ~> (Available(q) \/ mac_lost)
------------------------------------------------------------------------------
\* What keeps MacSafety true.

Receptions == {"RECEIVE_COMPLETE", "RX_USED_BIT_READ"}

\* Until the client has attached its last buffer nothing is received, and no
\* handler looks at the ring.
Attaching ==
  ~enable_receive =>
    /\ next_free_rx_desc_index < RxBuffers /\ first_rx_desc_index = 0 /\ rx_dma = 0
    /\ rx_desc = [i \in 0..RxRing-1 |->
         [buffer |-> IF i < next_free_rx_desc_index THEN i + 1 ELSE 0, used |-> FALSE]]
    /\ frames = 0 /\ delivered = <<>> /\ received = [b \in 0..RxBuffers |-> 0]
    /\ \A q \in MacQueues : int_status[q] \cap Receptions = {}
    /\ mac_isr.pending \cap Receptions = {} /\ mac_isr.at \notin {"packet", "callback"}

Full == enable_receive /\ RxBuffers = RxRing

\* The frames passed up next, and how many descriptors before its own they come.
Filled == frames - Len(delivered)
Ahead(i) == IF i < next_free_rx_desc_index THEN i + RxRing - next_free_rx_desc_index
            ELSE i - next_free_rx_desc_index

\* Every descriptor keeps its buffer; the used ones start at the one given back
\* next, hold the frames in their order, and end where the DMA writes.
RingInStep ==
  Full =>
    /\ Filled \in 0..RxRing
    /\ IF Filled = RxRing THEN rx_dma = next_free_rx_desc_index ELSE Ahead(rx_dma) = Filled
    /\ \A i \in 0..RxRing-1 :
         /\ rx_desc[i].buffer = i + 1
         /\ rx_desc[i].used <=> Ahead(i) < Filled
         /\ rx_desc[i].used => received[i + 1] = Len(delivered) + Ahead(i) + 1
    /\ received[0] = 0
    /\ \A k \in 1..Len(delivered) : delivered[k] = k

\* The handler reads the descriptor that is given back next, and in the callback
\* the one that has just been.
HandlerInStep ==
  /\ mac_isr.at = "callback" => mac_isr.burst > 0
  /\ Full => IF mac_isr.at = "callback"
              THEN next_free_rx_desc_index = (first_rx_desc_index + 1) % RxRing
              ELSE next_free_rx_desc_index = first_rx_desc_index

\* The packets a queue has no descriptor back for, the last it accepted, are in
\* order in the descriptors from current_tx_desc on; each of the others was called
\* back or given up.
Held(q) == TxRing - nb_available_tx_desc[q]
QueueInStep(q) ==
  /\ current_tx_desc[q] + Held(q) < TxRing /\ Held(q) <= accepted[q]
  /\ \A j \in 0..Held(q)-1 :
       tx_caller_info[q][current_tx_desc[q] + j] = accepted[q] - Held(q) + j + 1
  /\ called_back[q] \cup given_up[q] = 1..(accepted[q] - Held(q))
  /\ called_back[q] \cap given_up[q] = {}

MacInv ==
  /\ MacTypeOK /\ Attaching /\ RingInStep /\ HandlerInStep
  /\ \A q \in MacQueues : QueueInStep(q)

=============================================================================
