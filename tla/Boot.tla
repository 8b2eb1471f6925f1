-------------------------------- MODULE Boot --------------------------------
(***************************************************************************)
(* Multi-hart start-up of the PolarFire SoC image: the assembly entry code *)
(* (mss_entry.S), main_first_hart() and main_other_hart()                  *)
(* (system_startup.c), the CLINT software interrupt (mss_clint.h), and the *)
(* application entry points e51() and u54_1()..u54_4() up to the point     *)
(* where each of them settles.                                             *)
(*                                                                         *)
(* One step of the model is one access to memory or to a register another  *)
(* hart can observe: the hart-local storage (HLS) words, which live at the *)
(* top of every hart's stack and are shared, the CLINT MSIP registers, and *)
(* MMUART0.  A reset restarts every hart, and the harts then leave reset   *)
(* one by one; it clears the CLINT but not the LIM that holds the stacks.  *)
(* What a reset leaves in the HLS words stays until their own hart clears  *)
(* them, or until hart 0 clears the whole LIM, which it does unless the    *)
(* image itself starts there.                                              *)
(***************************************************************************)
EXTENDS Integers

CONSTANTS
  LastHart,      \* MPFS_HAL_LAST_HART; MPFS_HAL_FIRST_HART is 0
  InitMarks,     \* what an HLS indicator word may hold when power comes up
  MaxResets,     \* bound on the number of resets
  MidBootReset,  \* may a reset arrive before the boot has finished?
  StartInLim     \* is _start in the LIM (the LIM images) or not (eNVM)?

Marks == {"clear", "started", "fin_init", "in_wfi", "passed"}

ASSUME BootAssumption ==
  /\ LastHart \in 1..4
  /\ InitMarks \subseteq Marks
  /\ InitMarks # {}
  /\ MaxResets \in Nat
  /\ {MidBootReset, StartInLim} \subseteq BOOLEAN

First  == 0
Harts  == 0..LastHart
Others == 1..LastHart
NoApp  == -1

VARIABLES
  pc,          \* pc[h]: the next shared access of hart h
  mark,        \* mark[h]: hls->in_wfi_indicator of hart h
  my_hart_id,  \* my_hart_id[h]: hls->my_hart_id of hart h
  msip,        \* harts h with CLINT->MSIP[h] set
  msie,        \* harts whose mie CSR has the MSIP bit set
  sm,          \* sm_check_thread of main_first_hart()
  hart_id,     \* loop variable of main_first_hart()
  app,         \* app[h]: the application routine hart h has entered
  uart,        \* MMUART0: held in reset, clocked, initialised
  resets       \* resets so far

vars == <<pc, mark, my_hart_id, msip, msie, sm, hart_id, app, uart, resets>>

MainPc  == {"clear_lim", "mem_init", "publish", "release", "ipi", "fabric"}
OtherPc == {"wait_main", "flag", "wfi", "woken"}
E51Pc   == {"e51_clk", "e51_uart_init", "e51_greet", "e51_clear", "e51_raise",
            "e51_spin"}
U54Pc   == {"u54_clear", "u54_wfi", "u54_ack", "u54_run"}
AppPc   == E51Pc \cup U54Pc
Pc      == {"reset", "dispatch"} \cup MainPc \cup OtherPc \cup AppPc

WfiSm   == {"INIT_THREAD_PR", "CHECK_WFI", "SEND_WFI", "CHECK_WAKE"}

Init ==
  /\ pc = [h \in Harts |-> "reset"]
  /\ mark \in [Harts -> InitMarks]
  /\ my_hart_id \in [Harts -> Harts]
  /\ msip = {}
  /\ msie = {}
  /\ sm = "INIT_THREAD_PR"
  /\ hart_id = First + 1
  /\ app = [h \in Harts |-> NoApp]
  /\ uart = "held"
  /\ resets = 0

Goto(h, l) == pc' = [pc EXCEPT ![h] = l]

-----------------------------------------------------------------------------
(* mss_entry.S *)

\* Mutant: the hart parks without enabling its software interrupt.
ClearOwnHlsNoMsie(h) ==
  /\ pc[h] = "reset"
  /\ mark' = [mark EXCEPT ![h] = "clear"]
  /\ my_hart_id' = [my_hart_id EXCEPT ![h] = 0]
  /\ Goto(h, IF h = First THEN "clear_lim" ELSE "wait_main")
  /\ UNCHANGED <<msip, msie, sm, hart_id, app, uart, resets>>

\* .continue/.init_stack: the hart clears its own stack and HLS; hart 0 goes
\* on to clear the memories, the others enable MSIE and wait for hart 0.
ClearOwnHls(h) ==
  /\ pc[h] = "reset"
  /\ mark' = [mark EXCEPT ![h] = "clear"]
  /\ my_hart_id' = [my_hart_id EXCEPT ![h] = 0]
  /\ msie' = IF h = First THEN msie ELSE msie \cup {h}
  /\ Goto(h, IF h = First THEN "clear_lim" ELSE "wait_main")
  /\ UNCHANGED <<msip, sm, hart_id, app, uart, resets>>

\* .clear_l2lim: every hart's HLS is in the LIM, whatever has been written there
\* by harts that were faster.  That the words go at once here makes no difference:
\* hart 0's own is clear already, and it reads no other before it has published.
ClearLim ==
  /\ pc[First] = "clear_lim"
  /\ mark' = IF StartInLim THEN mark ELSE [h \in Harts |-> "clear"]
  /\ my_hart_id' = IF StartInLim THEN my_hart_id ELSE [h \in Harts |-> 0]
  /\ Goto(First, "mem_init")
  /\ UNCHANGED <<msip, msie, sm, hart_id, app, uart, resets>>

\* .wait_main_hart: spin on hart 0's indicator ...
SeeMainStarted(h) ==
  /\ pc[h] = "wait_main"
  /\ mark[First] = "started"
  /\ Goto(h, "flag")
  /\ UNCHANGED <<mark, my_hart_id, msip, msie, sm, hart_id, app, uart, resets>>

\* ... then flag in_wfi, once
FlagInWfi(h) ==
  /\ pc[h] = "flag"
  /\ mark' = [mark EXCEPT ![h] = "in_wfi"]
  /\ Goto(h, "wfi")
  /\ UNCHANGED <<my_hart_id, msip, msie, sm, hart_id, app, uart, resets>>

\* .LwaitOtherHart: leave wfi only with MSIP pending; csrw mie, zero.  The
\* csrw mip, zero that follows cannot clear MSIP, which belongs to the CLINT.
WakeFromWfi(h) ==
  /\ pc[h] = "wfi"
  /\ h \in msip \cap msie
  /\ msie' = msie \ {h}
  /\ Goto(h, "woken")
  /\ UNCHANGED <<mark, my_hart_id, msip, sm, hart_id, app, uart, resets>>

FlagPassed(h) ==
  /\ pc[h] = "woken"
  /\ mark' = [mark EXCEPT ![h] = "passed"]
  /\ Goto(h, "dispatch")
  /\ UNCHANGED <<my_hart_id, msip, msie, sm, hart_id, app, uart, resets>>

-----------------------------------------------------------------------------
(* system_startup.c *)

\* config_l2_cache(), .clear_scratchpad, init_memory() .. PLIC_init_on_reset():
\* nothing another hart reads
InitSystem ==
  /\ pc[First] = "mem_init"
  /\ Goto(First, "publish")
  /\ UNCHANGED <<mark, my_hart_id, msip, msie, sm, hart_id, app, uart, resets>>

\* Mutant: the release loop starts with hart 0 itself.
PublishStartedAtFirst ==
  /\ pc[First] = "publish"
  /\ mark' = [mark EXCEPT ![First] = "started"]
  /\ my_hart_id' = [my_hart_id EXCEPT ![First] = First]
  /\ sm' = "INIT_THREAD_PR"
  /\ hart_id' = First
  /\ Goto(First, "release")
  /\ UNCHANGED <<msip, msie, app, uart, resets>>

\* hls->in_wfi_indicator = HLS_MAIN_HART_STARTED; hls->my_hart_id = ...
PublishStarted ==
  /\ pc[First] = "publish"
  /\ mark' = [mark EXCEPT ![First] = "started"]
  /\ my_hart_id' = [my_hart_id EXCEPT ![First] = First]
  /\ sm' = "INIT_THREAD_PR"
  /\ hart_id' = First + 1
  /\ Goto(First, "release")
  /\ UNCHANGED <<msip, msie, app, uart, resets>>

Releasing == pc[First] = "release" /\ hart_id <= LastHart

InitThread ==
  /\ Releasing
  /\ sm = "INIT_THREAD_PR"
  /\ sm' = "CHECK_WFI"
  /\ UNCHANGED <<pc, mark, my_hart_id, msip, msie, hart_id, app, uart, resets>>

\* Mutant: hart 0 does not look at the indicator before it releases.
CheckWfiBlind ==
  /\ Releasing
  /\ sm = "CHECK_WFI"
  /\ sm' = "SEND_WFI"
  /\ UNCHANGED <<pc, mark, my_hart_id, msip, msie, hart_id, app, uart, resets>>


CheckWfi ==
  /\ Releasing
  /\ sm = "CHECK_WFI"
  /\ mark[hart_id] = "in_wfi"
  /\ sm' = "SEND_WFI"
  /\ UNCHANGED <<pc, mark, my_hart_id, msip, msie, hart_id, app, uart, resets>>

\* hls->my_hart_id = hart_id, the first half of SEND_WFI
SendId ==
  /\ Releasing
  /\ sm = "SEND_WFI"
  /\ my_hart_id' = [my_hart_id EXCEPT ![hart_id] = hart_id]
  /\ Goto(First, "ipi")
  /\ UNCHANGED <<mark, msip, msie, sm, hart_id, app, uart, resets>>

\* raise_soft_interrupt(hart_id), the second half
SendIpi ==
  /\ pc[First] = "ipi" /\ hart_id <= LastHart
  /\ msip' = msip \cup {hart_id}
  /\ sm' = "CHECK_WAKE"
  /\ Goto(First, "release")
  /\ UNCHANGED <<mark, my_hart_id, msie, hart_id, app, uart, resets>>

\* Mutant: the resend the source intends, with a counter that works.
CheckWakeResend ==
  /\ Releasing
  /\ sm = "CHECK_WAKE"
  /\ IF mark[hart_id] = "passed"
     THEN sm' = "INIT_THREAD_PR" /\ hart_id' = hart_id + 1
     ELSE sm' = "SEND_WFI" /\ UNCHANGED hart_id
  /\ UNCHANGED <<pc, mark, my_hart_id, msip, msie, app, uart, resets>>

\* Mutant: on to the next hart without an acknowledgement.
CheckWakeSkipped ==
  /\ Releasing
  /\ sm = "CHECK_WAKE"
  /\ sm' = "INIT_THREAD_PR"
  /\ hart_id' = hart_id + 1
  /\ UNCHANGED <<pc, mark, my_hart_id, msip, msie, app, uart, resets>>

\* The else branch counts in wait_count, which the loop body declares and sets
\* to 0 on every iteration: its test > 0x10 never holds, so nothing is resent.
CheckWake ==
  /\ Releasing
  /\ sm = "CHECK_WAKE"
  /\ mark[hart_id] = "passed"
  /\ sm' = "INIT_THREAD_PR"
  /\ hart_id' = hart_id + 1
  /\ UNCHANGED <<pc, mark, my_hart_id, msip, msie, app, uart, resets>>

\* Mutant: the loop ends one hart early.
FinishInitEarly ==
  /\ pc[First] = "release"
  /\ hart_id >= LastHart
  /\ mark' = [mark EXCEPT ![First] = "fin_init"]
  /\ Goto(First, "fabric")
  /\ UNCHANGED <<my_hart_id, msip, msie, sm, hart_id, app, uart, resets>>


FinishInit ==
  /\ pc[First] = "release"
  /\ hart_id > LastHart
  /\ mark' = [mark EXCEPT ![First] = "fin_init"]
  /\ Goto(First, "fabric")
  /\ UNCHANGED <<my_hart_id, msip, msie, sm, hart_id, app, uart, resets>>

\* RAM clocks off, FIC0..3 on, fabric out of reset
EnableFabric ==
  /\ pc[First] = "fabric"
  /\ Goto(First, "dispatch")
  /\ UNCHANGED <<mark, my_hart_id, msip, msie, sm, hart_id, app, uart, resets>>

\* main_other_hart(): the application is picked by hls->my_hart_id
Dispatch(h) ==
  /\ pc[h] = "dispatch"
  /\ app' = [app EXCEPT ![h] = my_hart_id[h]]
  /\ Goto(h, IF my_hart_id[h] = First THEN "e51_clk" ELSE "u54_clear")
  /\ UNCHANGED <<mark, my_hart_id, msip, msie, sm, hart_id, uart, resets>>

-----------------------------------------------------------------------------
(* e51.c *)

E51ClockOn(h) ==
  /\ pc[h] = "e51_clk"
  /\ uart' = IF uart = "held" THEN "clocked" ELSE uart
  /\ Goto(h, "e51_uart_init")
  /\ UNCHANGED <<mark, my_hart_id, msip, msie, sm, hart_id, app, resets>>

E51UartInit(h) ==
  /\ pc[h] = "e51_uart_init"
  /\ uart' = "ready"
  /\ Goto(h, "e51_greet")
  /\ UNCHANGED <<mark, my_hart_id, msip, msie, sm, hart_id, app, resets>>

\* MSS_UART_polled_tx(g_message3) returns
E51Greet(h) ==
  /\ pc[h] = "e51_greet"
  /\ Goto(h, "e51_clear")
  /\ UNCHANGED <<mark, my_hart_id, msip, msie, sm, hart_id, app, uart, resets>>

\* clear_soft_interrupt(); set_csr(mie, MIP_MSIP)
E51Clear(h) ==
  /\ pc[h] = "e51_clear"
  /\ msip' = msip \ {h}
  /\ msie' = msie \cup {h}
  /\ Goto(h, "e51_raise")
  /\ UNCHANGED <<mark, my_hart_id, sm, hart_id, app, uart, resets>>

\* raise_soft_interrupt(1U), then __enable_irq() and the idle loop
E51Raise(h) ==
  /\ pc[h] = "e51_raise"
  /\ msip' = msip \cup {1}
  /\ Goto(h, "e51_spin")
  /\ UNCHANGED <<mark, my_hart_id, msie, sm, hart_id, app, uart, resets>>

-----------------------------------------------------------------------------
(* u54_1.c .. u54_4.c *)

\* Mutant: the application does not enable its software interrupt again.
U54ClearNoMsie(h) ==
  /\ pc[h] = "u54_clear"
  /\ msip' = msip \ {h}
  /\ Goto(h, "u54_wfi")
  /\ UNCHANGED <<mark, my_hart_id, msie, sm, hart_id, app, uart, resets>>

\* clear_soft_interrupt(); set_csr(mie, MIP_MSIP)
U54Clear(h) ==
  /\ pc[h] = "u54_clear"
  /\ msip' = msip \ {h}
  /\ msie' = msie \cup {h}
  /\ Goto(h, "u54_wfi")
  /\ UNCHANGED <<mark, my_hart_id, sm, hart_id, app, uart, resets>>

U54Wake(h) ==
  /\ pc[h] = "u54_wfi"
  /\ h \in msip \cap msie
  /\ Goto(h, "u54_ack")
  /\ UNCHANGED <<mark, my_hart_id, msip, msie, sm, hart_id, app, uart, resets>>

\* clear_soft_interrupt(); __enable_irq().  u54_1 goes on to use MMUART0 (its
\* own mss_config_clk_rst() finds it on already), the others idle.
U54Ack(h) ==
  /\ pc[h] = "u54_ack"
  /\ msip' = msip \ {h}
  /\ uart' = IF app[h] = 1 /\ uart = "held" THEN "clocked" ELSE uart
  /\ Goto(h, "u54_run")
  /\ UNCHANGED <<mark, my_hart_id, msie, sm, hart_id, app, resets>>

-----------------------------------------------------------------------------
(* The reset, and the whole system *)

Booted == mark[First] = "fin_init" /\ pc[First] \in AppPc

\* Watchdog, reset button or debugger: cores, CLINT and peripherals restart,
\* the LIM keeps its contents.
Reset ==
  /\ resets < MaxResets
  /\ MidBootReset \/ Booted
  /\ pc' = [h \in Harts |-> "reset"]
  /\ msip' = {}
  /\ msie' = {}
  /\ app' = [h \in Harts |-> NoApp]
  /\ sm' = "INIT_THREAD_PR"
  /\ hart_id' = First + 1
  /\ uart' = "held"
  /\ resets' = resets + 1
  /\ UNCHANGED <<mark, my_hart_id>>

MainStep ==
  ClearLim \/ InitSystem \/ PublishStarted \/ InitThread \/ CheckWfi \/ SendId \/ SendIpi
  \/ CheckWake \/ FinishInit \/ EnableFabric

HartStep(h) ==
  \/ ClearOwnHls(h) \/ SeeMainStarted(h) \/ FlagInWfi(h) \/ WakeFromWfi(h)
  \/ FlagPassed(h) \/ Dispatch(h)
  \/ E51ClockOn(h) \/ E51UartInit(h) \/ E51Greet(h) \/ E51Clear(h) \/ E51Raise(h)
  \/ U54Clear(h) \/ U54Wake(h) \/ U54Ack(h)

Next == MainStep \/ (\E h \in Harts : HartStep(h)) \/ Reset

Spec == Init /\ [][Next]_vars

\* Each hart executes its own instruction stream; resets are not required.
FairSpec == Spec /\ WF_vars(MainStep) /\ \A h \in Harts : WF_vars(HartStep(h))

-----------------------------------------------------------------------------
(* Properties *)

TypeOK ==
  /\ pc \in [Harts -> Pc]
  /\ mark \in [Harts -> Marks]
  /\ my_hart_id \in [Harts -> Harts]
  /\ msip \subseteq Harts
  /\ msie \subseteq Harts
  /\ sm \in WfiSm
  /\ hart_id \in 1..(LastHart + 1)
  /\ app \in [Harts -> Harts \cup {NoApp}]
  /\ uart \in {"held", "clocked", "ready"}
  /\ resets \in 0..MaxResets

\* Every hart runs the application written for it.  main_other_hart() picks the
\* application from an HLS word that hart 0 writes and the hart itself clears;
\* nothing but the handshake orders the two.
RunsOwnApplication == \A h \in Harts : app[h] \in {NoApp, h}

\* MMUART0 is handed from hart 0 to hart 1 by the software interrupt: hart 1
\* is past its WFI only when e51() has initialised the UART and finished its
\* polled message.  A second interrupt of the boot handshake, or one that
\* survived it, would let hart 1 in while hart 0 is still transmitting.
UartHandover ==
  pc[1] \in {"u54_ack", "u54_run"} => pc[0] = "e51_spin" /\ uart = "ready"

\* Harts past the start-up WFI
Released(h) == h \in Others /\ pc[h] \in {"woken", "dispatch"} \cup AppPc

\* "so we need to make sure hart is in wfi before we try and release"
\* (system_startup.c:82-84): hart 0 raises the releasing software interrupt of
\* a hart only while that hart sits in the start-up wfi loop.
ReleasedOnlyFromWfi ==
  [][\A h \in Others : SendIpi /\ hart_id = h => pc[h] = "wfi"]_vars

\* ".wait_main_hart: Wait here until main hart is up and running": no hart
\* reaches the wfi loop before hart 0 of the same boot has published.
WaitsForMainHart ==
  \A h \in Others :
    pc[h] = "wfi" => pc[First] \notin {"reset", "clear_lim", "mem_init", "publish"}

\* What every reachable state of the start-up must satisfy, one part per hart
\* function that relies on it: main_other_hart(), u54_1() and the assembly start.
BootSafety == RunsOwnApplication /\ UartHandover /\ WaitsForMainHart

\* "This function brings them out of wfi in sequence" (system_startup.c:31-32):
\* the boot always completes, after the last reset every hart ends up in an
\* application routine.  The two waits of hart 0 for a hart have no end of their
\* own, and neither side repeats what it told the other.  A reset in mid-boot
\* makes it false where hart 0 clears the LIM: a hart that acts on the start mark
\* of the boot before has its in_wfi word wiped, and hart 0 waits for it.
BootCompletes == <>[](\A h \in Harts : pc[h] \in AppPc)

\* An interrupt raised while hart 1 is in its WFI loop is not lost.
WaitingHartWakes == (pc[1] = "u54_wfi" /\ 1 \in msip) ~> pc[1] # "u54_wfi"

\* "The hart1 goes into WFI. hart0 brings it out of WFI when it raises the
\* first Software interrupt" (e51.c:18-20).
Hart1BroughtOutOfWfi == <>(pc[1] = "u54_run")
\* The abstract view of the boot.  Hart 0 drives the console from its UART
\* initialisation on, hart 1 from the moment it is out of its WFI.
ReleasedSet == {h \in Others : Released(h)}
ConsoleHart ==
  CASE pc[1] \in {"u54_ack", "u54_run"}       -> 1
    [] pc[1] \notin {"u54_ack", "u54_run"}
       /\ pc[First] \in E51Pc \ {"e51_clk"}   -> First
    [] OTHER                                  -> NoApp

S == INSTANCE Startup WITH released <- ReleasedSet, console <- ConsoleHart

\* The handshake implements the promise: every step of the boot is a step of
\* the abstract start-up or leaves its view unchanged.
ImplementsStartup == S!Spec
-----------------------------------------------------------------------------
(* Why the handshake is safe: the invariant the proofs use.                *)

\* RAM left by power-up or by a boot that ran to its end holds neither of the
\* two values a hart acts on.
NoStaleHandshake ==
  /\ {"started", "in_wfi"} \cap InitMarks = {}
  /\ ~MidBootReset

Waiting   == {"reset", "wait_main", "flag", "wfi"}
PassedPc  == {"dispatch"} \cup U54Pc
Preparing == {"reset", "clear_lim", "mem_init", "publish"}
AfterBoot == {"fabric", "dispatch"} \cup E51Pc

\* Control: which hart can be where, and what its HLS words then say.
MainControl ==
  /\ pc[First] \in Preparing \cup {"release", "ipi"} \cup AfterBoot
  /\ mark[First] = "started" <=> pc[First] \in {"release", "ipi"}
  /\ mark[First] # "in_wfi"
  /\ pc[First] \in AfterBoot => mark[First] = "fin_init"
  /\ pc[First] # "reset" => my_hart_id[First] = First
  /\ pc[First] = "ipi" =>
       hart_id <= LastHart /\ sm = "SEND_WFI" /\ my_hart_id[hart_id] = hart_id

OtherControl(h) ==
  /\ pc[h] \in Waiting \cup {"woken"} \cup PassedPc
  /\ mark[h] = "in_wfi" <=> pc[h] \in {"wfi", "woken"}
  /\ pc[h] \in {"wait_main", "flag"} => mark[h] = "clear"
  /\ pc[h] \in PassedPc => mark[h] = "passed" /\ my_hart_id[h] = h

AppControl(h) == app[h] = IF pc[h] \in AppPc THEN h ELSE NoApp

\* Progress: how far hart k can be, given how far hart 0 has come.
Untouched(k)    == pc[k] \in Waiting /\ k \notin msip
BeingWoken(k)   == pc[k] \in {"wfi", "woken"} \cup PassedPc /\ my_hart_id[k] = k
Acknowledged(k) == pc[k] \in PassedPc

ReleaseControl(k) ==
  /\ pc[First] \in Preparing => pc[k] \in {"reset", "wait_main"} /\ k \notin msip
  /\ pc[First] \in {"release", "ipi"} =>
       /\ k < hart_id => Acknowledged(k)
       /\ k > hart_id => Untouched(k)
       /\ k = hart_id /\ sm \in {"INIT_THREAD_PR", "CHECK_WFI"} => Untouched(k)
       /\ k = hart_id /\ sm = "SEND_WFI" => pc[k] = "wfi" /\ k \notin msip
       /\ k = hart_id /\ sm = "CHECK_WAKE" => BeingWoken(k)
  /\ pc[First] \in AfterBoot => Acknowledged(k)

\* Hand-over: before e51() raises the interrupt none is pending in hart 1's
\* application WFI, and the UART is ready once e51() has initialised it.
HandoverInv ==
  /\ pc[1] = "u54_wfi" /\ 1 \in msip => pc[First] = "e51_spin"
  /\ pc[1] \in {"u54_ack", "u54_run"} => pc[First] = "e51_spin"
  /\ pc[First] \in {"e51_greet", "e51_clear", "e51_raise", "e51_spin"} => uart = "ready"

HandshakeInv ==
  /\ MainControl
  /\ \A h \in Others : OtherControl(h) /\ ReleaseControl(h)
  /\ \A h \in Harts : AppControl(h)
  /\ HandoverInv
=============================================================================
