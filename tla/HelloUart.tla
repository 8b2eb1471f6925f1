------------------------------ MODULE HelloUart -----------------------------
(***************************************************************************)
(* The application of hart 1, u54_1() (application/hart1/u54_1.c), from    *)
(* __enable_irq() on, as the client of the MMUART driver of Mmuart: it     *)
(* sets up the receive interrupt, sends a greeting by polling and the menu *)
(* by interrupt, and then serves single-character commands received by     *)
(* uart0_rx_handler(), which echoes the interrupt count.                   *)
(***************************************************************************)
EXTENDS Mmuart, Sequences

CONSTANTS
  Greeting, Menu, Reply,   \* lengths of g_message1, g_message2 and the replies
  Keys,                    \* the keys the user presses: "polled" for '0', '2'
                           \* and unknown ones, "irq" for '1' and '3'
  MaxKeys                  \* bound on the number of key presses

ASSUME HelloAssumption ==
  /\ {Greeting, Menu, Reply} \subseteq 1..MaxMsg
  /\ Keys \subseteq {"polled", "irq"}
  /\ MaxKeys \in Nat

VARIABLES
  at,          \* where u54_1() is
  g_rx_size,   \* bytes reported by the receive handler and not yet served
  key,         \* g_rx_buff[0]
  line,        \* keys pressed whose byte is still in the receive FIFO
  pressed,     \* number of key presses so far
  listening    \* can a PLIC interrupt reach the hart: mie.MEIP and a priority?

appVars  == <<at, g_rx_size, key, line, pressed, listening>>
uartVars == vars
allVars  == <<vars, appVars>>

HelloInit ==
  /\ Init
  /\ at = "set_rx" /\ g_rx_size = 0 /\ key = "polled" /\ line = <<>>
  /\ pressed = 0 /\ listening = FALSE

Step(l, m) ==
  /\ at = l /\ at' = m
  /\ UNCHANGED <<g_rx_size, key, line, pressed, listening>>

-----------------------------------------------------------------------------
(* u54_1() *)

InstallHandler == Step("set_rx", "plic_init") /\ SetRxHandler

\* Mutant: PLIC_init() leaves the enables alone.
InitPlicKeepsEnable ==
  /\ Step("plic_init", "enable_irq") /\ At("idle")
  /\ UNCHANGED vars

\* PLIC_init() clears every enable of the hart, that of set_rx_handler() too
InitPlic ==
  /\ Step("plic_init", "enable_irq") /\ At("idle")
  /\ plic' = FALSE
  /\ UNCHANGED <<hwVars, ier, instVars, status, threadVars, isrTx, halted,
                 overrun, outstanding, unsent>>

\* MSS_UART_enable_irq(RBF | TBE): IER_MASK removes TBE
EnableUartIrq == Step("enable_irq", "priority") /\ Enter("enable_irq", 0, {"RBF"}, "ier")

\* PLIC_SetPriority(), PLIC_SetPriority_Threshold(0)
SetPriority ==
  /\ at = "priority" /\ At("idle")
  /\ at' = "greet" /\ listening' = TRUE
  /\ UNCHANGED <<vars, g_rx_size, key, line, pressed>>

Greet    == Step("greet", "menu") /\ Enter("polled_tx", Greeting, {}, "lsr")
SendMenu == Step("menu", "wait") /\ HandOver(Menu)
\* Mutant: the menu is not waited for.
AwaitNothing ==
  /\ at = "wait"
  /\ At("idle") /\ at' = "loop" /\ UNCHANGED vars
  /\ UNCHANGED <<g_rx_size, key, line, pressed, listening>>

AwaitSent ==
  /\ at = "wait"
  /\ IF outstanding
       THEN TxComplete /\ at' = at
       ELSE At("idle") /\ at' = "loop" /\ UNCHANGED vars
  /\ UNCHANGED <<g_rx_size, key, line, pressed, listening>>

\* while (1u): if (g_rx_size > 0u) switch (g_rx_buff[0u])
Serve ==
  /\ Step("loop", "served")
  /\ g_rx_size > 0
  /\ IF key = "irq" THEN HandOver(Reply)
     ELSE Enter("polled_tx", Reply, {}, "lsr")

\* g_rx_size = 0u, whatever has been received since
ForgetKey ==
  /\ at = "served" /\ At("idle")
  /\ at' = "loop" /\ g_rx_size' = 0
  /\ UNCHANGED <<vars, key, line, pressed, listening>>

-----------------------------------------------------------------------------
(* The handlers, the driver and the user *)

PressKey ==
  /\ pressed < MaxKeys
  /\ pressed' = pressed + 1
  /\ \E k \in Keys : line' = Append(line, k)
  /\ Receive
  /\ UNCHANGED <<at, g_rx_size, key, listening>>

\* uart0_rx_handler(): g_rx_size = MSS_UART_get_rx(g_rx_buff)
RxHandler ==
  /\ listening
  /\ ReceiveIsr
  /\ g_rx_size' = Len(line) /\ key' = Head(line) /\ line' = <<>>
  /\ UNCHANGED <<at, pressed, listening>>

OtherIsr ==
  /\ listening
  /\ TransmitIsr \/ EchoIsr
  /\ UNCHANGED appVars

InDriver == (Thread \/ Transmitter) /\ UNCHANGED appVars

App == \/ InstallHandler \/ InitPlic \/ EnableUartIrq \/ SetPriority \/ Greet
       \/ SendMenu \/ AwaitSent \/ Serve \/ ForgetKey

HelloNext == App \/ PressKey \/ RxHandler \/ OtherIsr \/ InDriver

HelloSpec == HelloInit /\ [][HelloNext]_allVars

HelloFairSpec ==
  /\ HelloSpec
  /\ WF_allVars(App) /\ WF_allVars(RxHandler \/ OtherIsr)
  /\ WF_allVars(Thread /\ UNCHANGED appVars)
  /\ WF_allVars(Transmitter /\ UNCHANGED appVars)

-----------------------------------------------------------------------------
(* Properties *)

\* Until the menu is started no interrupt is served: the greeting, which is
\* polled, cannot be mixed with the handler's echo (u54_1.c:109-123).
GreetingUndisturbed ==
  at \in {"greet", "menu"} => isrTx = 0 /\ g_rx_size = 0 /\ ~overrun

\* The command loop starts only when the menu has left its buffer, with no
\* transmit interrupt left to come (the wait at u54_1.c:131).
MenuSentFirst ==
  [][at = "wait" /\ at' = "loop" => tx_buff_size = 0 /\ "TBE" \notin ier]_allVars

\* The application reaches its command loop.
ReachesLoop == <>(at = "loop")

-----------------------------------------------------------------------------
(* Why GreetingUndisturbed and MenuSentFirst hold *)

BeforeMenu == {"set_rx", "plic_init", "enable_irq", "priority", "greet", "menu"}

\* Until the menu no handler can run: first no interrupt reaches the hart, and
\* then none of the calls between PLIC_init() and the menu enables the UART's.
Silent ==
  /\ ~outstanding /\ isrTx = 0 /\ g_rx_size = 0 /\ FifoInv /\ NoOverrun
  /\ listening <=> at \in {"greet", "menu"}
  /\ at = "set_rx" => pc = "idle"
  /\ at \notin {"set_rx", "plic_init"} =>
       ~plic /\ pc # "plic" /\ (pc \in {"ier", "ier_write"} => call = "enable_irq")

\* The application keeps the driver's invariant up to its command loop, where
\* it may hand a reply over while another is being sent.
StartInv ==
  at \notin {"loop", "served"} =>
    /\ DriverInv
    /\ at # "set_rx" => "rx" \in handlers
    /\ at \in BeforeMenu => Silent
=============================================================================
