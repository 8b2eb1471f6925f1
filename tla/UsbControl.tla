----------------------------- MODULE UsbControl -----------------------------
(***************************************************************************)
(* The control endpoint of the USB device driver                           *)
(* (drivers/mss/mss_usb/mss_usb_device.c, mss_usb_device_cif.c and the      *)
(* handler in mss_usb_common_cif.c), the controller, and a host that makes  *)
(* control transfers and resets, suspends, resumes and leaves the bus.      *)
(*                                                                         *)
(* The handler reads and clears the interrupts and deals with the bus       *)
(* events, which are milliseconds apart, in one step, and with the endpoint *)
(* in another; the host goes on between them.  Lengths count units of which *)
(* a SETUP packet is one.  A failed assertion ends in the trap handler.     *)
(***************************************************************************)
EXTENDS Naturals, FiniteSets, FiniteSetsExt

CONSTANTS
  MaxControls,   \* bound on the control transfers
  MaxEvents,     \* bound on the bus events
  MaxPacket,     \* max_pkt_size
  ReplyLength,   \* length of the descriptors and of what the class sends
  DataLengths    \* lengths of the data stages the host asks for

ASSUME UsbAssumption ==
  /\ MaxControls \in Nat /\ MaxEvents \in Nat /\ MaxPacket \in Nat \ {0}
  /\ ReplyLength \in Nat \ {0} /\ DataLengths \subseteq Nat \ {0}

VARIABLES
  device_state, device_state_at_suspend, device_addr,  \* g_usbd_dev_conf
  faddr,         \* the address the controller answers to
  cep,           \* gd_tx_ep[MSS_USB_CEP]
  cep_state,     \* what the handler expects next: "IDLE", "TX" or "RX"
  g_setup_pkt,   \* the request in the setup buffer
  csr0,          \* the endpoint's status bits
  out_length,    \* length of the packet in the receive FIFO
  usb_irq, tx_irq,  \* bus events, and the endpoint's interrupt
  usb_isr,       \* the handler: "exit", "endpoint", "address" (its delay) or "trap"
  host,          \* the host's transfer, see Hosts
  host_view,     \* the address and the configuration the host has set
  controls, bus_events,
  written,       \* history: the data of this write that the class has
  usb_resumed,   \* history: a resume since the last bus reset
  usb_raced      \* history: a SETUP packet was not the one its interrupt was taken for: it came
                 \* before the handler saw the last transfer end, or its interrupt came after it
                 \* was served and passes for that of a packet sent; no bus reset since

deviceVars == <<device_state, device_state_at_suspend, device_addr>>
endpointVars == <<cep, cep_state, g_setup_pkt, written>>
hostVars == <<host, host_view, controls, bus_events>>
usbVars == <<deviceVars, faddr, endpointVars, csr0, out_length, usb_irq, tx_irq, usb_isr, hostVars,
             usb_resumed, usb_raced>>

SetupSize == 1
DeviceStates == {"POWERED", "DEFAULT", "ADDRESS", "CONFIGURED", "SUSPENDED", "NOT_ATTACHED"}
Short == {"GET_CONFIG", "GET_STATUS"}
Reads == {"GET_DESCRIPTOR", "CLASS_IN"} \cup Short
Writes == {"CLASS_OUT", "SET_DESCRIPTOR"}
NoData == {"SET_ADDRESS", "SET_CONFIG", "UNSET_CONFIG", "SET_FEATURE", "TEST_MODE", "UNKNOWN"}
Controls == [name : NoData, length : {0}] \cup [name : Short, length : {1}]
              \cup [name : (Reads \ Short) \cup Writes, length : DataLengths]
NoControl == [name |-> "none", length |-> 0]
Hosts == [stage : {"off", "idle", "data", "status", "asleep"}, request : Controls \cup {NoControl},
          moved : Nat, ok : BOOLEAN]

\* MSS_USBD_init()
UsbInit ==
  /\ device_state = "POWERED" /\ device_state_at_suspend = "NOT_ATTACHED" /\ device_addr = 0
  /\ cep = [state |-> "IDLE", buf |-> "null", txn |-> 0, length |-> 0, count |-> 0]
  /\ cep_state = "IDLE" /\ g_setup_pkt = NoControl /\ written = 0
  /\ faddr = 0 /\ csr0 = {} /\ out_length = 0 /\ usb_irq = {} /\ tx_irq = FALSE /\ usb_isr = "exit"
  /\ host = [stage |-> "off", request |-> NoControl, moved |-> 0, ok |-> FALSE]
  /\ host_view = [address |-> 0, config |-> 0]
  /\ controls = 0 /\ bus_events = 0 /\ usb_resumed = FALSE /\ usb_raced = FALSE

------------------------------------------------------------------------------
\* The handler: bus events.

\* MSS_USBD_cep_read_prepare() for a buffer, as the state of the endpoint asks.
Prepare(state, buf, length) ==
  cep' = [state |-> state, buf |-> buf, txn |-> Min({length, MaxPacket}), length |-> length,
          count |-> 0]

AwaitSetup ==
  /\ Prepare("IDLE", "setup", SetupSize) /\ cep_state' = "IDLE" /\ g_setup_pkt' = NoControl

\* mss_usbd_suspend_cb() and mss_usbd_disconnect_cb()
DeviceEvents(events) ==
  /\ device_state' = CASE "DISCONNECT" \in events -> "NOT_ATTACHED"
                       [] "SUSPEND" \in events -> "SUSPENDED"
                       [] OTHER -> device_state
  /\ device_state_at_suspend' = IF "SUSPEND" \in events THEN device_state
                                ELSE device_state_at_suspend
  /\ UNCHANGED <<device_addr, cep, cep_state, g_setup_pkt, csr0>>

\* Mutant: the device keeps its state through a reset.
ResetDeviceKeepsState ==
  /\ device_addr' = 0 /\ AwaitSetup /\ csr0' = {}
  /\ UNCHANGED <<device_state, device_state_at_suspend>>

\* mss_usbd_reset_cb()
ResetDevice ==
  /\ device_addr' = 0 /\ device_state' = "DEFAULT" /\ AwaitSetup /\ csr0' = {}
  /\ UNCHANGED device_state_at_suspend

\* A resume restores the state, and then resets the device as a bus reset does.
BusEvents(events) ==
  IF events \cap {"RESUME", "RESET"} # {} THEN ResetDevice ELSE DeviceEvents(events)

EnterUsbIsr ==
  /\ usb_isr = "exit" /\ (usb_irq # {} \/ tx_irq)
  /\ usb_irq' = {} /\ tx_irq' = FALSE
  /\ usb_isr' = IF tx_irq THEN "endpoint" ELSE "exit"
  /\ BusEvents(usb_irq)
  /\ usb_resumed' = CASE "RESET" \in usb_irq -> FALSE [] "RESUME" \in usb_irq -> TRUE
                      [] OTHER -> usb_resumed
  /\ usb_raced' = (usb_raced /\ "RESET" \notin usb_irq)
  /\ UNCHANGED <<faddr, out_length, hostVars, written>>

------------------------------------------------------------------------------
\* The handler: the control endpoint.

HandleEndpoint == usb_isr = "endpoint" /\ UNCHANGED <<out_length, usb_irq, tx_irq, hostVars, usb_resumed>>
Exit == usb_isr' = "exit"

\* The stall has gone out, or the host has cut the transfer short: wait for the
\* next request.  One that is there already has used up its interrupt.
TransferOver ==
  /\ HandleEndpoint
  /\ \/ "STALL_SENT" \in csr0 /\ csr0' = csr0 \ {"STALL_SENT"}
     \/ "STALL_SENT" \notin csr0 /\ "SETUP_END" \in csr0 /\ "RXPKTRDY" \notin csr0
        /\ csr0' = csr0 \ {"SETUP_END"}
  /\ AwaitSetup /\ Exit
  /\ usb_raced' = (usb_raced \/ "RXPKTRDY" \in csr0)
  /\ UNCHANGED <<deviceVars, faddr, written>>

Reply(buf, length) == [ok |-> TRUE, buf |-> buf, length |-> length]
Done0 == Reply("null", 0)
Refusal == [Done0 EXCEPT !.ok = FALSE]

GetDescriptor ==
  {Refusal} \cup (IF device_state \in {"NOT_ATTACHED", "POWERED"} THEN {}
                  ELSE {Reply("reply", ReplyLength)})

GetConfig == {Reply("reply", 1)}

\* In the default state this fails, and the result is not looked at.
GetStatus == {IF device_state \in {"ADDRESS", "CONFIGURED"} THEN Reply("reply", 1) ELSE Done0}

\* The features the device has: the host does not ask for remote wake-up, which
\* no configuration descriptor of the classes offers.
Feature == {Refusal, Done0}

\* The class decides; so it does on vendor requests.
ClassRequest(request) ==
  {Refusal, IF request.name = "CLASS_IN" THEN Reply("reply", ReplyLength)
                                         ELSE Reply("class", request.length)}

\* mss_usbd_set_descriptor() fails too, with a result not looked at.  An empty
\* setup buffer reads as a GET_STATUS of no length.
Replies(request) ==
  CASE request.name = "GET_DESCRIPTOR" -> GetDescriptor
    [] request.name = "GET_CONFIG" -> GetConfig
    [] request.name = "GET_STATUS" -> GetStatus
    [] request.name \in {"SET_FEATURE", "TEST_MODE"} -> Feature
    [] request.name \in {"CLASS_IN", "CLASS_OUT"} -> ClassRequest(request)
    [] request.name = "UNKNOWN" -> {Refusal}
    [] OTHER -> {Done0}

\* mss_usbd_set_address() and mss_usbd_set_config()
SetDevice(request) ==
  /\ device_addr' = IF request.name = "SET_ADDRESS" THEN 1 ELSE device_addr
  /\ device_state' = CASE request.name = "SET_ADDRESS" /\ device_state = "DEFAULT" -> "ADDRESS"
                       [] request.name = "SET_CONFIG" /\ device_state = "ADDRESS" -> "CONFIGURED"
                       [] request.name = "UNSET_CONFIG" /\ device_state = "CONFIGURED" -> "ADDRESS"
                       [] OTHER -> device_state
  /\ UNCHANGED device_state_at_suspend

\* MSS_USBD_CIF_cep_write_pkt(): the last packet goes out with DATA_END.
WritePacket(ep, csr) ==
  LET count == ep.count + (IF ep.buf = "null" THEN 0 ELSE ep.txn) IN
    /\ cep' = [ep EXCEPT !.count = count]
    /\ csr0' = csr \cup (IF count < ep.length THEN {"TXPKTRDY"} ELSE {"TXPKTRDY", "DATA_END"})
    /\ cep_state' = "TX"

\* The request is answered with a stall, with a status, or with a data stage.
AnswerRequest(request, reply, csr) ==
  IF ~reply.ok THEN
    /\ csr0' = csr \cup {"SEND_STALL"} /\ cep' = [cep EXCEPT !.state = "IDLE"]
    /\ g_setup_pkt' = NoControl /\ Exit /\ UNCHANGED cep_state
  ELSE IF request.length = 0 THEN
    /\ csr0' = csr \cup {"DATA_END"}
    /\ IF request.name = "SET_ADDRESS"
       THEN usb_isr' = "address" /\ UNCHANGED <<cep, cep_state, g_setup_pkt>>
       ELSE /\ Exit
            /\ IF request.name = "TEST_MODE"
               THEN g_setup_pkt' = request /\ UNCHANGED <<cep, cep_state>>
               ELSE AwaitSetup
  ELSE IF request.name \in Writes THEN
    /\ csr0' = csr /\ Prepare("RX", reply.buf, reply.length) /\ cep_state' = "RX"
    /\ g_setup_pkt' = request /\ Exit
  ELSE IF reply.buf = "null" THEN
    /\ usb_isr' = "trap" /\ csr0' = csr /\ UNCHANGED <<cep, cep_state>> /\ g_setup_pkt' = request
  ELSE
    LET length == Min({reply.length, request.length}) IN
      /\ WritePacket([state |-> "TX", buf |-> reply.buf, txn |-> Min({length, MaxPacket}),
                      length |-> length, count |-> 0], csr)
      /\ g_setup_pkt' = request /\ Exit

\* mss_usbd_cep_setup_cb() reads the packet to wherever the endpoint's buffer
\* is, and serves what is in the setup buffer.
SetupPacket ==
  /\ HandleEndpoint
  /\ "STALL_SENT" \notin csr0 /\ "RXPKTRDY" \in csr0
  /\ "SETUP_END" \in csr0 \/ cep_state = "IDLE"
  /\ LET csr == csr0 \ {"SETUP_END", "RXPKTRDY"}
         request == IF cep.buf = "setup" THEN host.request ELSE g_setup_pkt
     IN /\ IF cep.txn = SetupSize
           THEN /\ SetDevice(request)
                /\ \E reply \in Replies(request) : AnswerRequest(request, reply, csr)
           ELSE usb_isr' = "trap" /\ csr0' = csr /\ UNCHANGED <<deviceVars, cep, cep_state, g_setup_pkt>>
  /\ usb_raced' = (usb_raced \/ cep.buf # "setup" \/ (tx_irq /\ cep_state' = "TX"))
  /\ written' = 0 /\ UNCHANGED faddr

\* The delay of set address is long enough for the status stage.
SetAddress ==
  /\ usb_isr = "address" /\ csr0 \cap {"DATA_END", "SETUP_END"} = {}
  /\ faddr' = device_addr /\ AwaitSetup /\ Exit
  /\ UNCHANGED <<deviceVars, csr0, out_length, written, usb_irq, tx_irq, hostVars, usb_resumed, usb_raced>>

Expecting(what) ==
  HandleEndpoint /\ csr0 \cap {"STALL_SENT", "SETUP_END"} = {} /\ cep_state = what

\* mss_usbd_cep_tx_complete_cb()
SentPacket ==
  /\ Expecting("TX")
  /\ CASE cep.state # "TX" -> UNCHANGED <<cep, cep_state, g_setup_pkt, csr0, usb_raced>>
       [] cep.state = "TX" /\ cep.count < cep.length ->
            /\ WritePacket([cep EXCEPT !.txn = Min({cep.length - cep.count, MaxPacket})], csr0)
            /\ UNCHANGED <<g_setup_pkt, usb_raced>>
       [] OTHER ->
            AwaitSetup /\ usb_raced' = (usb_raced \/ "RXPKTRDY" \in csr0) /\ UNCHANGED csr0
  /\ Exit /\ UNCHANGED <<deviceVars, faddr, written>>

\* Mutant: the packet is not released.
DataPacketKept ==
  /\ Expecting("RX") /\ "RXPKTRDY" \in csr0
  /\ LET count == cep.count + (IF cep.buf = "null" THEN 0 ELSE out_length) IN
       CASE count = cep.length -> AwaitSetup /\ csr0' = (csr0 \ {"RXPKTRDY"}) \cup {"DATA_END"}
         [] count < cep.length ->
              /\ Prepare("RX", cep.buf, Min({cep.length - count, MaxPacket}))
              /\ UNCHANGED <<cep_state, g_setup_pkt, csr0>>
         [] OTHER ->
              /\ cep' = [cep EXCEPT !.state = "IDLE", !.count = count] /\ g_setup_pkt' = NoControl
              /\ csr0' = (csr0 \ {"RXPKTRDY"}) \cup {"SEND_STALL"} /\ UNCHANGED cep_state
  /\ written' = written + out_length /\ Exit /\ UNCHANGED <<deviceVars, faddr, usb_raced>>

\* mss_usbd_cep_rx_cb(): what is left of a long write is prepared for as a
\* transfer of one packet, so the second packet always ends it.  Its assertion
\* is part of UsbSafety.
DataPacket ==
  /\ Expecting("RX") /\ "RXPKTRDY" \in csr0
  /\ LET count == cep.count + (IF cep.buf = "null" THEN 0 ELSE out_length) IN
       CASE count = cep.length -> AwaitSetup /\ csr0' = (csr0 \ {"RXPKTRDY"}) \cup {"DATA_END"}
         [] count < cep.length ->
              /\ Prepare("RX", cep.buf, Min({cep.length - count, MaxPacket}))
              /\ csr0' = csr0 \ {"RXPKTRDY"} /\ UNCHANGED <<cep_state, g_setup_pkt>>
         [] OTHER ->
              /\ cep' = [cep EXCEPT !.state = "IDLE", !.count = count] /\ g_setup_pkt' = NoControl
              /\ csr0' = (csr0 \ {"RXPKTRDY"}) \cup {"SEND_STALL"} /\ UNCHANGED cep_state
  /\ written' = written + out_length /\ Exit /\ UNCHANGED <<deviceVars, faddr, usb_raced>>

NothingToDo ==
  /\ HandleEndpoint /\ csr0 \cap {"STALL_SENT", "SETUP_END", "RXPKTRDY"} = {} /\ cep_state # "TX"
  /\ Exit /\ UNCHANGED <<deviceVars, faddr, endpointVars, csr0, usb_raced>>

UsbIsr ==
  \/ EnterUsbIsr \/ TransferOver \/ SetupPacket \/ SetAddress \/ SentPacket \/ DataPacket
  \/ NothingToDo

------------------------------------------------------------------------------
\* The controller and the host.

driverVars == <<deviceVars, endpointVars, usb_isr, usb_resumed, usb_raced>>
Interrupt == tx_irq' = TRUE
Host(stage, moved) == host' = [host EXCEPT !.stage = stage, !.moved = moved, !.ok = FALSE]
Underway == host.stage \in {"data", "status"}
QuietBus == usb_irq = {}

\* The host asks for what makes sense to it.
MayAsk(request) ==
  /\ request.name = "SET_ADDRESS" => host_view.address = 0
  /\ request.name \in Short \cup {"SET_CONFIG"} => host_view.address = 1
  /\ request.name \in {"CLASS_IN", "CLASS_OUT", "UNSET_CONFIG", "SET_FEATURE"} => host_view.config = 1

HostSetup(request) ==
  /\ host.stage = "idle" /\ QuietBus /\ "RXPKTRDY" \notin csr0 /\ controls < MaxControls
  /\ MayAsk(request)
  /\ host' = [stage |-> IF request.length = 0 THEN "status" ELSE "data",
              request |-> request, moved |-> 0, ok |-> FALSE]
  /\ csr0' = csr0 \cup {"RXPKTRDY"} /\ out_length' = SetupSize /\ Interrupt
  /\ controls' = controls + 1
  /\ UNCHANGED <<driverVars, faddr, usb_irq, host_view, bus_events>>

\* The packet is as long as the FIFO holds.
HostIn ==
  /\ host.stage = "data" /\ host.request.name \in Reads /\ "TXPKTRDY" \in csr0
  /\ csr0' = csr0 \ {"TXPKTRDY"}
  /\ Host(IF "DATA_END" \in csr0 THEN "status" ELSE "data", host.moved + cep.txn)
  /\ tx_irq' = (tx_irq \/ "DATA_END" \notin csr0)
  /\ UNCHANGED <<driverVars, faddr, out_length, usb_irq, host_view, controls, bus_events>>

HostOut ==
  /\ host.stage = "data" /\ host.request.name \in Writes
  /\ csr0 \cap {"RXPKTRDY", "SEND_STALL", "DATA_END"} = {}
  /\ out_length' = Min({host.request.length - host.moved, MaxPacket})
  /\ Host(IF host.moved + out_length' = host.request.length THEN "status" ELSE "data",
          host.moved + out_length')
  /\ csr0' = csr0 \cup {"RXPKTRDY"} /\ Interrupt
  /\ UNCHANGED <<driverVars, faddr, usb_irq, host_view, controls, bus_events>>

HostStatus ==
  /\ host.stage = "status" /\ "DATA_END" \in csr0 /\ "TXPKTRDY" \notin csr0
  /\ csr0' = csr0 \ {"DATA_END"} /\ Interrupt
  /\ host' = [host EXCEPT !.stage = "idle", !.ok = TRUE]
  /\ host_view' = CASE host.request.name = "SET_ADDRESS" -> [host_view EXCEPT !.address = 1]
                    [] host.request.name = "SET_CONFIG" -> [host_view EXCEPT !.config = 1]
                    [] host.request.name = "UNSET_CONFIG" -> [host_view EXCEPT !.config = 0]
                    [] OTHER -> host_view
  /\ UNCHANGED <<driverVars, faddr, out_length, usb_irq, controls, bus_events>>

\* The driver asks for a stall, or ends a write the host has more data for.
HostStalled ==
  /\ Underway /\ ("SEND_STALL" \in csr0 \/ (host.stage = "data" /\ host.request.name \in Writes
                                              /\ "DATA_END" \in csr0))
  /\ csr0' = (csr0 \ {"SEND_STALL", "DATA_END"}) \cup {"STALL_SENT"} /\ Interrupt
  /\ Host("idle", host.moved)
  /\ UNCHANGED <<driverVars, faddr, out_length, usb_irq, host_view, controls, bus_events>>

\* The host gives a transfer of data up and begins another one: the endpoint's
\* FIFO is flushed.
HostAbort ==
  /\ Underway /\ host.request.name \in Reads \cup Writes /\ "RXPKTRDY" \notin csr0
  /\ csr0' = (csr0 \ {"TXPKTRDY", "DATA_END", "SEND_STALL"})
               \cup (IF "DATA_END" \in csr0 THEN {} ELSE {"SETUP_END"})
  /\ Interrupt /\ Host("idle", host.moved)
  /\ UNCHANGED <<driverVars, faddr, out_length, usb_irq, host_view, controls, bus_events>>

BusEvent(event) ==
  /\ bus_events < MaxEvents /\ bus_events' = bus_events + 1
  /\ QuietBus /\ usb_isr \in {"exit", "trap"} /\ usb_irq' = {event}
  /\ UNCHANGED <<driverVars, out_length, controls>>

BusReset ==
  /\ BusEvent("RESET")
  /\ csr0' = {} /\ tx_irq' = FALSE /\ faddr' = 0
  /\ Host("idle", 0) /\ host_view' = [address |-> 0, config |-> 0]

BusSuspend ==
  /\ host.stage = "idle" /\ ~tx_irq /\ BusEvent("SUSPEND")
  /\ Host("asleep", 0) /\ UNCHANGED <<csr0, tx_irq, faddr, host_view>>

BusResume ==
  /\ host.stage = "asleep" /\ BusEvent("RESUME")
  /\ Host("idle", 0) /\ UNCHANGED <<csr0, tx_irq, faddr, host_view>>

Disconnect ==
  /\ host.stage # "off" /\ BusEvent("DISCONNECT")
  /\ Host("off", 0) /\ UNCHANGED <<csr0, tx_irq, faddr, host_view>>

HostMoves == HostIn \/ HostOut \/ HostStatus \/ HostStalled

UsbNext ==
  \/ UsbIsr
  \/ \E request \in Controls : HostSetup(request)
  \/ HostMoves \/ HostAbort \/ BusReset \/ BusSuspend \/ BusResume \/ Disconnect

\* An interrupt is served and its handler ends, and the host goes on with its transfer.
UsbFairness == WF_usbVars(UsbIsr) /\ WF_usbVars(HostMoves)
UsbSpec == UsbInit /\ [][UsbNext]_usbVars /\ UsbFairness

------------------------------------------------------------------------------
\* Properties.

UsbTypeOK ==
  /\ {device_state, device_state_at_suspend} \subseteq DeviceStates /\ {device_addr, faddr} \subseteq 0..1
  /\ cep \in [state : {"IDLE", "TX", "RX"}, buf : {"null", "setup", "reply", "class"},
              txn : 0..MaxPacket, length : Nat, count : Nat]
  /\ cep_state \in {"IDLE", "TX", "RX"} /\ g_setup_pkt \in Controls \cup {NoControl}
  /\ csr0 \subseteq {"RXPKTRDY", "TXPKTRDY", "DATA_END", "SEND_STALL", "STALL_SENT", "SETUP_END"}
  /\ out_length \in 0..MaxPacket /\ {tx_irq, usb_resumed, usb_raced} \subseteq BOOLEAN
  /\ usb_irq \subseteq {"RESET", "SUSPEND", "RESUME", "DISCONNECT"}
  /\ usb_isr \in {"exit", "endpoint", "address", "trap"} /\ host \in Hosts
  /\ host_view \in [address : 0..1, config : 0..1] /\ written \in Nat
  /\ controls \in 0..MaxControls /\ bus_events \in 0..MaxEvents

DataIsExpected ==
  usb_isr = "endpoint" /\ cep_state = "RX" /\ "RXPKTRDY" \in csr0
    /\ csr0 \cap {"STALL_SENT", "SETUP_END"} = {} => cep.state = "RX"

MovedAll ==
  host.ok /\ host.stage = "idle" =>
    /\ host.request.name = "CLASS_OUT" => written = host.request.length
    /\ host.request.name \in Reads \ Short => host.moved = Min({host.request.length, ReplyLength})

AsTheHostSet ==
  usb_isr = "exit" /\ ~tx_irq /\ usb_irq = {} /\ host.stage = "idle" =>
    /\ faddr = host_view.address
    /\ device_state = "CONFIGURED" <=> host_view.config = 1

\* The driver takes a packet for data in a write only (mss_usb_device.c:1135).
\* Unless a request has come too soon, a transfer the host sees succeed has
\* moved all it should, a write what the host wanted to send and a read as much
\* as both sides have; and, with no resume either, a driver at rest is in the
\* state and has the address the host has given it (mss_usbd_cep_setup_cb(),
\* mss_usbd_cep_rx_cb(), mss_usbd_cep_tx_complete_cb()).
UsbSafety ==
  /\ DataIsExpected
  /\ usb_raced \/ MovedAll
  /\ usb_raced \/ usb_resumed \/ AsTheHostSet

\* Every control transfer the host begins comes to an end, unless the bus has
\* been resumed or a request has come too soon.
UsbEnds == Underway ~> (~Underway \/ usb_raced \/ usb_resumed)

\* The assertions of the control endpoint hold: what is taken for a SETUP packet
\* is one, and an answer with data has data (mss_usb_device.c:959, 1021).
UsbAssertionsHold == usb_isr # "trap"
------------------------------------------------------------------------------
\* What keeps UsbSafety true.

Away == host.stage \in {"idle", "asleep"}
Unfinished == cep_state = "TX" /\ cep.state = "TX" /\ cep.count < cep.length

\* The driver waits for a request, or has sent all of an answer.
Ready == cep.buf = "setup" /\ cep.txn = SetupSize /\ cep_state = "IDLE"
SentAll == cep_state = "TX" /\ cep.state = "TX" /\ cep.count = cep.length

\* What the host asks for makes sense to it until it has had the answer.
Asked ==
  /\ host_view.config = 1 => host_view.address = 1
  /\ Underway => host.request \in Controls /\ MayAsk(host.request) /\ ~host.ok
  /\ host.stage = "data" /\ host.request.name \in Writes => host.moved < host.request.length

\* Bus events are dealt with one by one, before the host goes on.
BusEventsServed ==
  /\ usb_irq # {} => usb_isr \in {"exit", "trap"} /\ ~Underway
  /\ usb_irq \in {{}, {"RESET"}, {"SUSPEND"}, {"RESUME"}, {"DISCONNECT"}}
  /\ "RESET" \in usb_irq =>
       /\ csr0 = {} /\ ~tx_irq /\ faddr = 0 /\ host_view.address = 0 /\ host_view.config = 0
       /\ host.stage = "idle" /\ ~host.ok
  /\ "SUSPEND" \in usb_irq => host.stage = "asleep"
  /\ "RESUME" \in usb_irq => host.stage = "idle" /\ ~tx_irq /\ ~host.ok
  /\ "DISCONNECT" \in usb_irq => host.stage = "off"
  /\ host.stage = "asleep" => ~tx_irq /\ usb_isr \in {"exit", "trap"}

\* The request and the buffer are those of the data stage the driver is in.
BuffersFit ==
  /\ cep_state = "TX" => cep.buf = "reply" /\ g_setup_pkt.name \in Reads \cup {"none"}
  /\ cep_state = "RX" => cep.buf \in {"class", "null"} /\ g_setup_pkt.name \in Writes \cup {"none"}
  /\ cep_state = "RX" /\ cep.state # "RX" => g_setup_pkt = NoControl

\* A request in time or not, the driver does not meet the packet of one transfer
\* and the end of another.
EndsApart ==
  /\ Away /\ "DATA_END" \in csr0 => "RXPKTRDY" \notin csr0 /\ ~Unfinished /\ cep_state # "RX"
  /\ "RXPKTRDY" \in csr0 /\ "DATA_END" \in csr0 => ~Unfinished
  /\ "RXPKTRDY" \in csr0 /\ "STALL_SENT" \notin csr0 =>
       /\ Away => ~Unfinished
       /\ cep_state = "RX" => "DATA_END" \notin csr0 /\ ~Away

\* A write that the driver has stopped is stalled or cut short before another request comes.
StoppedIsStalled ==
  cep_state = "RX" /\ cep.state # "RX" /\ "RESET" \notin usb_irq /\ usb_isr # "trap" =>
    \/ csr0 \cap {"STALL_SENT", "SETUP_END"} # {}
    \/ "SEND_STALL" \in csr0 /\ csr0 \cap {"DATA_END", "RXPKTRDY"} = {} /\ ~Away

\* Between transfers.
Resting ==
  \/ csr0 = {} /\ (Ready \/ SentAll)
  \/ csr0 = {"STALL_SENT"} /\ Ready /\ ~host.ok
  \/ csr0 = {"SETUP_END"} /\ (cep.buf = "setup" => Ready) /\ ~host.ok

\* The phases of a transfer: its request is in the FIFO; it is refused; it is
\* done and has no data; it sends data; it takes data; it has taken data.
SetupPending ==
  /\ host.moved = 0 /\ (host.stage = "status" <=> host.request.length = 0)
  /\ \/ csr0 = {"RXPKTRDY"} /\ (Ready \/ SentAll)
     \/ csr0 = {"RXPKTRDY", "STALL_SENT"}
     \/ csr0 = {"RXPKTRDY", "SETUP_END"} /\ (cep.buf = "setup" => Ready)

Stalling == csr0 = {"SEND_STALL"} /\ Ready

StatusPending ==
  csr0 = {"DATA_END"} /\ Ready /\ host.stage = "status" /\ host.request.name \in NoData

DataSending ==
  /\ host.request.name \in Reads /\ cep_state = "TX" /\ cep.state = "TX" /\ cep.buf = "reply"
  /\ cep.length = Min({IF host.request.name \in Short THEN 1 ELSE ReplyLength, host.request.length})
  /\ tx_irq => usb_isr = "exit"
  /\ \/ /\ csr0 = {"TXPKTRDY"} \cup (IF cep.count < cep.length THEN {} ELSE {"DATA_END"})
        /\ host.stage = "data" /\ cep.count = host.moved + cep.txn /\ cep.count <= cep.length
        /\ ~tx_irq /\ usb_isr = "exit"
     \/ csr0 = {} /\ host.stage = "data" /\ cep.count < cep.length /\ cep.count = host.moved
     \/ csr0 = {"DATA_END"} /\ host.stage = "status" /\ cep.count = cep.length /\ cep.count = host.moved
        /\ ~tx_irq /\ usb_isr = "exit"

DataTaking ==
  /\ host.request.name \in Writes /\ cep_state = "RX" /\ cep.state = "RX" /\ cep.count = 0
  /\ \/ host.request.name = "SET_DESCRIPTOR" /\ cep.buf = "null" /\ cep.length = 0 /\ written = 0
     \/ /\ host.request.name = "CLASS_OUT" /\ cep.buf = "class"
        /\ \/ written = 0 /\ cep.length = host.request.length
           \/ written = MaxPacket /\ host.request.length > MaxPacket
              /\ cep.length = Min({host.request.length - MaxPacket, MaxPacket})
  /\ host.stage = "status" <=> host.moved = host.request.length
  /\ \/ csr0 = {} /\ host.moved = written /\ host.stage = "data"
     \/ csr0 = {"RXPKTRDY"} /\ host.moved = written + out_length
        /\ out_length = Min({host.request.length - written, MaxPacket})
        /\ written < host.request.length

DataTaken ==
  /\ csr0 = {"DATA_END"} /\ Ready /\ host.request.name \in Writes
  /\ host.request.name = "CLASS_OUT" /\ host.stage = "status" => written = host.request.length

\* Unless a request has come too soon, the driver and the host are in the same
\* phase, and the delay of set address ends in no other transfer's data stage.
TransferInStep ==
  ~usb_raced /\ host.stage # "off" /\ "RESET" \notin usb_irq =>
    /\ usb_isr = "trap" => csr0 \subseteq {"RXPKTRDY", "SETUP_END", "STALL_SENT"} /\ ~host.ok
    /\ usb_isr = "address" => Ready
    /\ usb_isr # "trap" =>
         IF Underway
         THEN SetupPending \/ Stalling \/ StatusPending \/ DataSending \/ DataTaking \/ DataTaken
         ELSE Resting

\* The device is ahead of what the host has set by the request it has just done.
AfterRequest(view, request) ==
  CASE request.name = "SET_ADDRESS" -> [view EXCEPT !.address = 1]
    [] request.name = "SET_CONFIG" -> [view EXCEPT !.config = 1]
    [] request.name = "UNSET_CONFIG" -> [view EXCEPT !.config = 0]
    [] OTHER -> view
DeviceView ==
  IF host.stage = "status" /\ csr0 = {"DATA_END"} THEN AfterRequest(host_view, host.request) ELSE host_view

DeviceInStep ==
  ~usb_raced /\ ~usb_resumed /\ host.stage \in {"idle", "data", "status"} /\ usb_irq = {} /\ usb_isr # "trap" =>
    /\ device_addr = DeviceView.address
    /\ device_state = IF DeviceView.config = 1 THEN "CONFIGURED"
                      ELSE IF DeviceView.address = 1 THEN "ADDRESS" ELSE "DEFAULT"
    /\ faddr = IF usb_isr = "address" THEN 0 ELSE DeviceView.address

UsbInv ==
  /\ UsbTypeOK /\ Asked /\ BusEventsServed /\ BuffersFit /\ EndsApart /\ StoppedIsStalled
  /\ TransferInStep /\ DeviceInStep /\ (usb_raced \/ MovedAll)
=============================================================================
