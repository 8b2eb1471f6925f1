------------------------- MODULE MmuartClientsProof -------------------------
(***************************************************************************)
(* Proofs about the clients of the MMUART driver: the application of hart 1 *)
(* in HelloUart, for every length of its messages, and the two clients of   *)
(* MCMmuart, each an instance of MmuartProof with constants of its own.      *)
(***************************************************************************)
EXTENDS HelloUart, MCMmuart, MmuartProof, TLAPS

-----------------------------------------------------------------------------
(* The application of hart 1 as the client of the driver, for every length of *)
(* its messages.                                                             *)

\* What a call of u54_1() before its command loop does to the driver, when the
\* message before it, if any, is out.
LEMMA CallKeepsDriver ==
  ASSUME DriverInv, NewCall, ~outstanding
  PROVE  DriverInv'
BY CallType, CallControl DEF DriverInv, Control

\* Steps of the driver that are not calls.
LEMMA DriverRuns ==
  ASSUME DriverInv, Thread \/ Isr \/ Transmitter \/ Receive
  PROVE  DriverInv'
BY ThreadType, ThreadControl, IsrType, IsrControl, HardwareType, HardwareControl
   DEF DriverInv, Control

\* While the application is silent every signal stays away from the handler.
LEMMA NoHandlerYet ==
  ASSUME StartInv, at \in BeforeMenu
  PROVE  ~RxHandler /\ ~OtherIsr
<1>1. Silent
  BY DEF StartInv, BeforeMenu
<1>2. isrTx = 0 /\ (~listening \/ ~plic)
  BY <1>1 DEF Silent
<1>3. QED
  BY <1>2 DEF RxHandler, OtherIsr, ReceiveIsr, TransmitIsr, EchoIsr, Interrupted

LEMMA InstallKeeps ==
  ASSUME StartInv, InstallHandler
  PROVE  StartInv'
<1>1. at = "set_rx" /\ at' = "plic_init" /\ UNCHANGED <<g_rx_size, listening>>
  BY DEF InstallHandler, Step
<1>2. DriverInv /\ Silent
  BY <1>1 DEF StartInv, BeforeMenu
<1>3. NewCall
  BY DEF InstallHandler, NewCall
<1>4. DriverInv' /\ FifoInv' /\ NoOverrun'
  BY <1>2, <1>3, CallKeepsDriver, FifoCall DEF Silent, Fifo
<1>5. "rx" \in handlers' /\ UNCHANGED <<outstanding, isrTx>>
  BY DEF InstallHandler, SetRxHandler, SetHandler
<1>6. QED
  BY <1>1, <1>2, <1>4, <1>5 DEF StartInv, Silent, BeforeMenu

LEMMA InitPlicKeeps ==
  ASSUME StartInv, InitPlic
  PROVE  StartInv'
<1>1. /\ at = "plic_init" /\ at' = "enable_irq" /\ pc = "idle"
      /\ UNCHANGED <<g_rx_size, listening>>
  BY DEF InitPlic, Step, At
<1>2. DriverInv /\ Silent /\ "rx" \in handlers
  BY <1>1 DEF StartInv, BeforeMenu
<1>3. plic' = FALSE /\ UNCHANGED <<hwVars, ier, instVars, status, threadVars, isrTx, halted,
                                   overrun, outstanding, unsent>>
  BY DEF InitPlic
<1>4. Control'
  BY <1>2, <1>3, UnchangedControl DEF instVars, threadVars
<1>5. TypeOK'
  BY <1>2, <1>3 DEF DriverInv, TypeOK, hwVars, instVars, threadVars
<1>6. FifoInv' /\ NoOverrun'
  BY <1>2, <1>3 DEF Silent, FifoInv, NoOverrun, hwVars, threadVars
<1>7. QED
  BY <1>1, <1>2, <1>3, <1>4, <1>5, <1>6
     DEF StartInv, Silent, BeforeMenu, DriverInv, Control, instVars, threadVars

LEMMA EnableUartIrqKeeps ==
  ASSUME StartInv, EnableUartIrq
  PROVE  StartInv'
<1>1. at = "enable_irq" /\ at' = "priority" /\ UNCHANGED <<g_rx_size, listening>>
  BY DEF EnableUartIrq, Step
<1>2. DriverInv /\ Silent /\ "rx" \in handlers
  BY <1>1 DEF StartInv, BeforeMenu
<1>3. Enter("enable_irq", 0, {"RBF"}, "ier")
  BY DEF EnableUartIrq
<1>4. NewCall
  <2>1. {"RBF"} \in SUBSET (HandledSources \cup {"TBE"}) /\ {"RBF"} \ {"TBE"} = {"RBF"}
    BY <1>2 DEF HandledSources
  <2>2. EnableIrq
    BY <1>3, <2>1 DEF EnableIrq
  <2>3. QED
    BY <2>2 DEF NewCall
<1>5. DriverInv' /\ FifoInv' /\ NoOverrun'
  BY <1>2, <1>4, CallKeepsDriver, FifoCall DEF Silent, Fifo
<1>6. pc' = "ier" /\ call' = "enable_irq" /\ UNCHANGED <<handlers, outstanding, isrTx, plic>>
  BY <1>3 DEF Enter, instVars
<1>7. QED
  BY <1>1, <1>2, <1>5, <1>6 DEF StartInv, Silent, BeforeMenu

LEMMA SetPriorityKeeps ==
  ASSUME StartInv, SetPriority
  PROVE  StartInv'
<1>1. /\ at = "priority" /\ at' = "greet" /\ listening' = TRUE
      /\ UNCHANGED <<vars, g_rx_size>>
  BY DEF SetPriority
<1>2. DriverInv /\ Silent /\ "rx" \in handlers
  BY <1>1 DEF StartInv, BeforeMenu
<1>3. DriverInv'
  BY <1>1, <1>2, HardwareType, HardwareControl DEF DriverInv, Control
<1>4. FifoInv' /\ NoOverrun'
  BY <1>1, <1>2, FifoHardware DEF Silent, Fifo
<1>5. UNCHANGED <<handlers, outstanding, isrTx, plic, pc, call>>
  BY <1>1 DEF vars, instVars, threadVars
<1>6. QED
  BY <1>1, <1>2, <1>3, <1>4, <1>5 DEF StartInv, Silent, BeforeMenu

LEMMA GreetKeeps ==
  ASSUME StartInv, Greet
  PROVE  StartInv'
<1>1. at = "greet" /\ at' = "menu" /\ UNCHANGED <<g_rx_size, listening>>
  BY DEF Greet, Step
<1>2. DriverInv /\ Silent /\ "rx" \in handlers
  BY <1>1 DEF StartInv, BeforeMenu
<1>3. Enter("polled_tx", Greeting, {}, "lsr")
  BY DEF Greet
<1>4. NewCall
  BY <1>3, HelloAssumption DEF HelloAssumption, NewCall, PolledTx
<1>5. DriverInv' /\ FifoInv' /\ NoOverrun'
  BY <1>2, <1>4, CallKeepsDriver, FifoCall DEF Silent, Fifo
<1>6. pc' = "lsr" /\ UNCHANGED <<handlers, outstanding, isrTx, plic>>
  BY <1>3 DEF Enter, instVars
<1>7. QED
  BY <1>1, <1>2, <1>5, <1>6 DEF StartInv, Silent, BeforeMenu

LEMMA SendMenuKeeps ==
  ASSUME StartInv, SendMenu
  PROVE  StartInv'
<1>1. at = "menu" /\ at' = "wait"
  BY DEF SendMenu, Step
<1>2. DriverInv /\ Silent /\ "rx" \in handlers
  BY <1>1 DEF StartInv, BeforeMenu
<1>3. HandOver(Menu) /\ UNCHANGED handlers
  BY DEF SendMenu, HandOver
<1>4. NewCall
  BY <1>3, HelloAssumption DEF HelloAssumption, NewCall, IrqTx
<1>5. DriverInv'
  BY <1>2, <1>4, CallKeepsDriver DEF Silent
<1>6. QED
  BY <1>1, <1>2, <1>3, <1>5 DEF StartInv, BeforeMenu

LEMMA AwaitSentKeeps ==
  ASSUME StartInv, AwaitSent
  PROVE  StartInv'
<1>1. at = "wait"
  BY DEF AwaitSent
<1>2. CASE outstanding
  <2>1. TxComplete /\ at' = at
    BY <1>2 DEF AwaitSent
  <2>2. DriverInv /\ "rx" \in handlers
    BY <1>1 DEF StartInv
  <2>3. TypeOK' /\ Control'
    BY <2>1, <2>2, CallType, WatchControl DEF DriverInv, NewCall
  <2>4. UNCHANGED handlers
    BY <2>1 DEF TxComplete, Enter, instVars
  <2>5. QED
    BY <1>1, <2>1, <2>2, <2>3, <2>4 DEF StartInv, BeforeMenu, DriverInv, Control
<1>3. CASE ~outstanding
  BY <1>3 DEF AwaitSent, StartInv
<1>4. QED
  BY <1>2, <1>3

\* Steps in which the application stays where it is.
LEMMA ElsewhereKeeps ==
  ASSUME StartInv, PressKey \/ RxHandler \/ OtherIsr \/ InDriver
  PROVE  StartInv'
<1> SUFFICES ASSUME at \notin {"loop", "served"} PROVE StartInv'
  BY DEF StartInv, PressKey, RxHandler, OtherIsr, InDriver, appVars
<1>1. at' = at /\ listening' = listening
  BY DEF PressKey, RxHandler, OtherIsr, InDriver, appVars
<1>2. Thread \/ Isr \/ Transmitter \/ Receive
  BY DEF PressKey, RxHandler, OtherIsr, InDriver, Isr
<1>3. DriverInv'
  BY <1>2, DriverRuns DEF StartInv
<1>4. UNCHANGED handlers
  BY <1>2 DEF Thread, ResetIdx, ReadIer, WriteIer, EnablePlic, ReadLsr, ReadStatus, WriteStatus,
              WriteThr, ReadRbr, ClearStatus, Complete, Isr, LineStatusIsr, ReceiveIsr, EchoIsr,
              TransmitIsr, Transmitter, LoadShift, ShiftOut, Receive, instVars
<1>5. ASSUME at \in BeforeMenu PROVE Silent'
  <2>1. DriverInv /\ Silent
    BY <1>5 DEF StartInv
  <2>2. InDriver \/ (Receive /\ UNCHANGED g_rx_size)
    BY <1>5, NoHandlerYet DEF PressKey
  <2>3. g_rx_size' = g_rx_size /\ (Thread \/ Transmitter \/ Receive)
    BY <2>2 DEF InDriver, appVars
  <2>4. FifoInv' /\ NoOverrun'
    BY <2>1, <2>3, FifoThread, FifoHardware DEF Silent, Fifo
  <2>5. CASE Thread
    <3>1. UNCHANGED isrTx /\ ~outstanding' /\ pc # "idle"
      <4>1. CASE Complete
        BY <2>1, <4>1 DEF Silent, Complete, At
      <4>2. CASE ~Complete
        BY <2>1, <2>5, <4>2 DEF Silent, Thread, ResetIdx, ReadIer, WriteIer, EnablePlic, ReadLsr,
                                ReadStatus, WriteStatus, WriteThr, ReadRbr, ClearStatus, At
      <4>3. QED
        BY <4>1, <4>2
    <3>2. at # "set_rx"
      BY <2>1, <3>1 DEF Silent
    <3>3. ASSUME at # "plic_init"
          PROVE  ~plic' /\ pc' # "plic" /\ (pc' \in {"ier", "ier_write"} => call' = "enable_irq")
      <4>1. ~plic /\ pc # "plic" /\ (pc \in {"ier", "ier_write"} => call = "enable_irq")
        BY <2>1, <3>2, <3>3 DEF Silent
      <4>2. pc # "idx"
        BY <2>1 DEF Silent, DriverInv, MessageInv, TypeOK, Bytes
      <4>3. QED
        BY <2>5, <4>1, <4>2, AfterStatusType
           DEF Thread, ResetIdx, ReadIer, WriteIer, EnablePlic, ReadLsr, ReadStatus, WriteStatus,
               WriteThr, ReadRbr, ClearStatus, Complete, At
    <3>4. QED
      BY <1>1, <2>1, <2>3, <2>4, <3>1, <3>2, <3>3 DEF Silent
  <2>6. CASE Transmitter \/ Receive
    <3>1. UNCHANGED <<isrTx, outstanding, pc, call, plic>>
      BY <2>6 DEF Transmitter, LoadShift, ShiftOut, Receive, threadVars
    <3>2. QED
      BY <1>1, <2>1, <2>3, <2>4, <3>1 DEF Silent
  <2>7. QED
    BY <2>3, <2>5, <2>6
<1>6. QED
  BY <1>1, <1>3, <1>4, <1>5 DEF StartInv

LEMMA StartInductive == StartInv /\ [HelloNext]_allVars => StartInv'
<1> SUFFICES ASSUME StartInv, [HelloNext]_allVars PROVE StartInv'
  OBVIOUS
<1>1. CASE Serve \/ ForgetKey
  BY <1>1 DEF Serve, ForgetKey, Step, StartInv
<1>2. CASE UNCHANGED allVars
  <2>1. UNCHANGED vars /\ UNCHANGED appVars
    BY <1>2 DEF allVars
  <2>2. DriverInv => DriverInv'
    BY <2>1, HardwareType, HardwareControl DEF DriverInv, Control
  <2>3. DriverInv /\ FifoInv /\ NoOverrun => FifoInv' /\ NoOverrun'
    BY <2>1, FifoHardware DEF Fifo
  <2>4. UNCHANGED <<handlers, outstanding, isrTx, pc, call, plic, at, g_rx_size, listening>>
    BY <2>1 DEF vars, instVars, threadVars, appVars
  <2>5. QED
    BY <2>2, <2>3, <2>4 DEF StartInv, Silent
<1>3. QED
  BY <1>1, <1>2, InstallKeeps, InitPlicKeeps, EnableUartIrqKeeps, SetPriorityKeeps, GreetKeeps,
     SendMenuKeeps, AwaitSentKeeps, ElsewhereKeeps DEF HelloNext, App

LEMMA StartInitially == HelloInit => StartInv
<1> SUFFICES ASSUME HelloInit PROVE StartInv
  OBVIOUS
<1>1. DriverInv
  BY DriverInit DEF HelloInit
<1>2. Silent /\ at = "set_rx"
  BY DEF HelloInit, Init, Silent, FifoInv, NoOverrun
<1>3. QED
  BY <1>1, <1>2 DEF StartInv

\* Until the menu is started no interrupt of the UART is served, so that the
\* polled greeting is sent undisturbed and overruns nothing (u54_1.c:109-123).
THEOREM GreetingAlone == HelloSpec => []GreetingUndisturbed
<1>1. StartInv => GreetingUndisturbed
  BY DEF StartInv, Silent, BeforeMenu, GreetingUndisturbed, NoOverrun
<1>2. QED
  BY <1>1, StartInitially, StartInductive, PTL DEF HelloSpec

\* The command loop is entered only with the menu out of its buffer and the
\* transmit interrupt disabled (u54_1.c:131).
THEOREM MenuFirst == HelloSpec => MenuSentFirst
<1>1. StartInv /\ [HelloNext]_allVars
        => [at = "wait" /\ at' = "loop" => tx_buff_size = 0 /\ "TBE" \notin ier]_allVars
  <2> SUFFICES ASSUME StartInv, HelloNext, at = "wait", at' = "loop"
               PROVE  tx_buff_size = 0 /\ "TBE" \notin ier
    OBVIOUS
  <2>1. ~outstanding
    BY DEF HelloNext, App, InstallHandler, InitPlic, EnableUartIrq, SetPriority, Greet, SendMenu,
           AwaitSent, Serve, ForgetKey, Step, PressKey, RxHandler, OtherIsr, InDriver, appVars
  <2>2. DriverInv
    BY DEF StartInv
  <2>3. tx_buff_size = 0
    BY <2>1, <2>2 DEF DriverInv, MessageInv, TypeOK, Bytes
  <2>4. QED
    BY <2>2, <2>3 DEF DriverInv, TbeInv
<1>2. QED
  BY <1>1, StartInitially, StartInductive, PTL DEF HelloSpec, MenuSentFirst

-----------------------------------------------------------------------------
(* The two clients of MCMmuart.  What MmuartProof says of a step is said of   *)
(* the steps of each, with its own calls and echo.                           *)

\* The invariants of the client at hand, with its own constants.
OwnInv ==
  /\ client \in {"sending", "echoing"}
  /\ client = "sending" => Sending!DriverInv /\ Sending!Fifo /\ Sending!NoPolling
  /\ client = "echoing" => Echoing!DriverInv /\ Echoing!Fifo /\ Echoing!NoPolling

\* The constants of each are such as Mmuart is about; both are disciplined, and of
\* neither do thread and handlers fill the FIFO in turns.
LEMMA OwnConstants ==
  ASSUME Disciplined, Overlap \subseteq SendCalls
  PROVE  /\ Sending!MmuartAssumption /\ Sending!Disciplined /\ Sending!OneFills
         /\ Echoing!MmuartAssumption /\ Echoing!Disciplined /\ Echoing!OneFills
<1> USE MmuartAssumption DEF MmuartAssumption, Disciplined, TxCalls, LsrCalls, IerCalls
<1>1. Sending!MmuartAssumption
  BY DEF Sending!MmuartAssumption, SendCalls, Watching, SetUpCalls, Sending!LsrCalls,
     Sending!TxCalls, Sending!IerCalls
<1>2. Sending!Disciplined /\ Sending!OneFills
  BY DEF Sending!Disciplined, Sending!OneFills, Sending!TxCalls, Sending!IerCalls
<1>3. Echoing!MmuartAssumption
  BY DEF Echoing!MmuartAssumption, EchoCalls, Echoing!LsrCalls, Echoing!TxCalls, Echoing!IerCalls
<1>4. Echoing!Disciplined /\ Echoing!OneFills
  BY DEF Echoing!Disciplined, Echoing!OneFills, EchoCalls, Echoing!TxCalls, Echoing!IerCalls
<1>5. QED
  BY <1>1, <1>2, <1>3, <1>4

\* They have the variables in common, and start alike.
LEMMA OwnVars ==
  /\ UNCHANGED vars => UNCHANGED Sending!vars
  /\ UNCHANGED vars => UNCHANGED Echoing!vars
BY DEF vars, hwVars, instVars, threadVars,
   Sending!vars, Sending!hwVars, Sending!instVars, Sending!threadVars,
   Echoing!vars, Echoing!hwVars, Echoing!instVars, Echoing!threadVars

LEMMA OwnStart ==
  ASSUME Disciplined, Overlap \subseteq SendCalls, ClientsInit
  PROVE  OwnInv
<1>1. Sending!Init /\ Echoing!Init
  BY DEF ClientsInit, Init, Sending!Init, Echoing!Init, NoCall, Sending!NoCall, Echoing!NoCall
<1>2. Sending!DriverInv /\ Sending!Fifo /\ Sending!NoPolling
  BY <1>1, OwnConstants, Sending!DriverInit, Sending!FifoInit
<1>3. Echoing!DriverInv /\ Echoing!Fifo /\ Echoing!NoPolling
  BY <1>1, OwnConstants, Echoing!DriverInit, Echoing!FifoInit
<1>4. QED
  BY <1>2, <1>3 DEF OwnInv, ClientsInit

LEMMA OwnStep ==
  ASSUME Disciplined, Overlap \subseteq SendCalls, OwnInv, [ClientsNext]_<<vars, client>>
  PROVE  OwnInv'
<1>1. client' = client
  BY DEF ClientsNext
<1>2. CASE client = "sending"
  <2>1. [Sending!Next]_(Sending!vars)
    BY <1>2, OwnVars DEF ClientsNext
  <2>2. Sending!DriverInv /\ Sending!Fifo /\ Sending!NoPolling
    BY <1>2 DEF OwnInv
  <2>3. Sending!DriverInv' /\ Sending!Fifo' /\ Sending!NoPolling'
    BY <2>1, <2>2, OwnConstants, Sending!DriverStep, Sending!FifoStep
  <2>4. QED
    BY <1>1, <1>2, <2>3 DEF OwnInv
<1>3. CASE client = "echoing"
  <2>1. [Echoing!Next]_(Echoing!vars)
    BY <1>3, OwnVars DEF ClientsNext
  <2>2. Echoing!DriverInv /\ Echoing!Fifo /\ Echoing!NoPolling
    BY <1>3 DEF OwnInv
  <2>3. Echoing!DriverInv' /\ Echoing!Fifo' /\ Echoing!NoPolling'
    BY <2>1, <2>2, OwnConstants, Echoing!DriverStep, Echoing!FifoStep
  <2>4. QED
    BY <1>1, <1>3, <2>3 DEF OwnInv
<1>4. QED
  BY <1>2, <1>3 DEF OwnInv

\* The invariants of each say the same with the constants of both: the two differ in
\* the bounds of the types only.
LEMMA SendingDriver ==
  ASSUME Sending!DriverInv
  PROVE  DriverInv
<1>1. TypeOK
  <2> USE DEF Sending!DriverInv, Sending!TypeOK
  <2>1. /\ txFifo \in 0..FifoSize /\ shift \in BOOLEAN
        /\ rxFifo \in 0..RxSize /\ lsrErr \subseteq Faults
        /\ plic \in BOOLEAN /\ status \subseteq Faults /\ handlers \subseteq {"rx", "ls"}
        /\ halted \in BOOLEAN /\ overrun \in BOOLEAN /\ outstanding \in BOOLEAN
    OBVIOUS
  <2>2. /\ tx_buff_size \in Bytes /\ tx_idx \in Bytes /\ unsent \in Bytes
        /\ left \in Bytes /\ blk \in 0..FifoSize
    BY DEF Bytes, Sending!Bytes
  <2>3. isrTx \in 0..Echo
    BY MmuartAssumption DEF MmuartAssumption
  <2>4. /\ ier \subseteq Sources /\ mask \subseteq Sources
        /\ snap \subseteq Flags \cup Faults /\ reg \subseteq Sources \cup Faults
        /\ pc = "ier_write" => reg \subseteq Sources
        /\ pc \in {"status_write", "status_clear"} => reg \subseteq Faults
    BY DEF Sources, Sending!Sources, Flags, Sending!Flags
  <2>5. pc \in Pc /\ call \in LsrCalls \cup IerCalls \cup {NoCall}
    BY DEF Pc, Sending!Pc, LsrCalls, Sending!LsrCalls, TxCalls, Sending!TxCalls, IerCalls,
       Sending!IerCalls, NoCall, Sending!NoCall
  <2>6. QED
    BY <2>1, <2>2, <2>3, <2>4, <2>5 DEF TypeOK
<1>2. MessageInv /\ NoAssert
  BY DEF Sending!DriverInv, MessageInv, Sending!MessageInv, NoAssert, Sending!NoAssert
<1>3. TbeInv
  BY DEF Sending!DriverInv, TbeInv, Sending!TbeInv, IerCalls, Sending!IerCalls
<1>4. HandlerInv
  BY DEF Sending!DriverInv, HandlerInv, Sending!HandlerInv, HandlerOf, Sending!HandlerOf
<1>5. CallInv
  BY DEF Sending!DriverInv, CallInv, Sending!CallInv, TxCalls, Sending!TxCalls
<1>6. QED
  BY <1>1, <1>2, <1>3, <1>4, <1>5 DEF DriverInv

LEMMA EchoingDriver ==
  ASSUME Echoing!DriverInv
  PROVE  DriverInv
<1>1. TypeOK
  <2> USE DEF Echoing!DriverInv, Echoing!TypeOK
  <2>1. /\ txFifo \in 0..FifoSize /\ shift \in BOOLEAN
        /\ rxFifo \in 0..RxSize /\ lsrErr \subseteq Faults
        /\ plic \in BOOLEAN /\ status \subseteq Faults /\ handlers \subseteq {"rx", "ls"}
        /\ halted \in BOOLEAN /\ overrun \in BOOLEAN /\ outstanding \in BOOLEAN
    OBVIOUS
  <2>2. /\ tx_buff_size \in Bytes /\ tx_idx \in Bytes /\ unsent \in Bytes
        /\ left \in Bytes /\ blk \in 0..FifoSize
    BY DEF Bytes, Echoing!Bytes
  <2>3. isrTx \in 0..Echo
    BY MmuartAssumption DEF MmuartAssumption
  <2>4. /\ ier \subseteq Sources /\ mask \subseteq Sources
        /\ snap \subseteq Flags \cup Faults /\ reg \subseteq Sources \cup Faults
        /\ pc = "ier_write" => reg \subseteq Sources
        /\ pc \in {"status_write", "status_clear"} => reg \subseteq Faults
    BY DEF Sources, Echoing!Sources, Flags, Echoing!Flags
  <2>5. pc \in Pc /\ call \in LsrCalls \cup IerCalls \cup {NoCall}
    BY DEF Pc, Echoing!Pc, LsrCalls, Echoing!LsrCalls, TxCalls, Echoing!TxCalls, IerCalls,
       Echoing!IerCalls, NoCall, Echoing!NoCall
  <2>6. QED
    BY <2>1, <2>2, <2>3, <2>4, <2>5 DEF TypeOK
<1>2. MessageInv /\ NoAssert
  BY DEF Echoing!DriverInv, MessageInv, Echoing!MessageInv, NoAssert, Echoing!NoAssert
<1>3. TbeInv
  BY DEF Echoing!DriverInv, TbeInv, Echoing!TbeInv, IerCalls, Echoing!IerCalls
<1>4. HandlerInv
  BY DEF Echoing!DriverInv, HandlerInv, Echoing!HandlerInv, HandlerOf, Echoing!HandlerOf
<1>5. CallInv
  BY DEF Echoing!DriverInv, CallInv, Echoing!CallInv, TxCalls, Echoing!TxCalls
<1>6. QED
  BY <1>1, <1>2, <1>3, <1>4, <1>5 DEF DriverInv

LEMMA Owning ==
  ASSUME Disciplined, Overlap \subseteq SendCalls
  PROVE  ClientsSpec => []OwnInv
<1>1. ClientsInit => OwnInv
  BY OwnStart
<1>2. OwnInv /\ [ClientsNext]_<<vars, client>> => OwnInv'
  BY OwnStep
<1>3. QED
  BY <1>1, <1>2, PTL DEF ClientsSpec

\* Both clients find the driver's assertions true, and its message, index, interrupt
\* enables and handlers in step.
THEOREM ClientsKeepDriver ==
  ASSUME Disciplined, Overlap \subseteq SendCalls
  PROVE  ClientsSpec => []DriverInv
<1>1. OwnInv => DriverInv
  BY SendingDriver, EchoingDriver DEF OwnInv
<1>2. QED
  BY <1>1, Owning, PTL

\* Neither writes a byte to a full FIFO: one polls and does not echo, the other leaves
\* its transmitter to the handlers (MSS_UART_polled_tx(), default_tx_handler()).
THEOREM ClientsNeverOverrun ==
  ASSUME Disciplined, Overlap \subseteq SendCalls
  PROVE  ClientsSpec => []NoOverrun
<1>1. OwnInv => NoOverrun
  BY DEF OwnInv, Sending!Fifo, Echoing!Fifo, NoOverrun, Sending!NoOverrun, Echoing!NoOverrun
<1>2. QED
  BY <1>1, Owning, PTL

\* Each has its buffer back once tx_complete() has said so.
THEOREM ClientsBuffersReleased ==
  ASSUME Disciplined, Overlap \subseteq SendCalls
  PROVE  ClientsSpec => []CompleteReleasesBuffer
<1>1. DriverInv => CompleteReleasesBuffer
  BY DEF DriverInv, TypeOK, Bytes, MessageInv, CompleteReleasesBuffer
<1>2. QED
  BY <1>1, ClientsKeepDriver, PTL
=============================================================================
