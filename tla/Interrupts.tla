----------------------------- MODULE Interrupts -----------------------------
(***************************************************************************)
(* Machine-mode interrupts of the harts: the PLIC functions of mss_plic.h, *)
(* the trap dispatcher and external handler of mss_mtrap.c, and the timer  *)
(* and software interrupts of mss_clint.c.                                 *)
(*                                                                         *)
(* A hart runs its thread, and a trap suspends the thread between any two  *)
(* of its register accesses.  Handlers run with MSTATUS.MIE clear, so they *)
(* do not nest.  A hart's enable word is written by that hart only, but by *)
(* its thread and its trap handler.  MTIME is kept relative: left[h] is    *)
(* the time to MTIMECMP, and is capped at TickPeriod beyond it.            *)
(***************************************************************************)
EXTENDS Integers, FiniteSets

CONSTANTS
  Harts,        \* the harts
  Sources,      \* PLIC interrupt numbers whose enables share a word
  MaxPriority,  \* the highest priority, also the threshold that masks all
  Ticking,      \* harts whose HARTn_TICK_RATE_MS is not zero
  TickPeriod,   \* g_systick_increment
  Guarded,      \* harts that mask interrupts around PLIC and SysTick calls
  Calls,        \* bound: calls the threads make
  Requests      \* bound: events of the peripherals

ASSUME InterruptsAssumption ==
  /\ Sources \subseteq Nat \ {0}
  /\ MaxPriority \in Nat \ {0} /\ TickPeriod \in Nat \ {0}
  /\ Ticking \subseteq Harts /\ Guarded \subseteq Harts
  /\ Calls \in Nat /\ Requests \in Nat

NoSource == 0

VARIABLES
  line,       \* peripherals that request service
  pending,    \* PENDING_ARRAY
  inService,  \* claimed and not completed: their gateways are closed
  priority,   \* SOURCE_PRIORITY
  threshold,  \* TARGET[h].PRIORITY_THRESHOLD
  ena,        \* HARTh_MMODE_ENA
  mie,        \* harts with MSTATUS.MIE set
  mtie,       \* harts with MIE.MTIP set
  msip,       \* CLINT->MSIP
  left,       \* CLINT->MTIMECMP[h] - CLINT->MTIME
  trap,       \* where the hart is in its trap handler
  int_num,    \* local of handle_m_ext_interrupt()
  thread,     \* "run", or between a read and its write
  word,       \* local of the PLIC enable functions: the word to write
  target,     \* the interrupt they enable, if any
  cmp,        \* local of SysTick_Config(): the compare value to write
  calls, requests,  \* calls and events so far
  disabled,   \* sources whose handler asked for EXT_IRQ_DISABLE, not enabled since
  wanted,     \* harts whose tick is configured and not disabled since
  since       \* time since the hart's last tick, up to TickPeriod

plicVars   == <<line, pending, inService, priority, threshold, ena>>
timerVars  == <<mtie, left, cmp, wanted, since>>
threadVars == <<mie, thread, word, target, calls>>
vars == <<plicVars, timerVars, threadVars, msip, trap, int_num, requests, disabled>>

Times == -TickPeriod..TickPeriod

TypeOK ==
  /\ line \subseteq Sources /\ pending \subseteq Sources /\ inService \subseteq Sources
  /\ priority \in [Sources -> 0..MaxPriority]
  /\ threshold \in [Harts -> 0..MaxPriority]
  /\ ena \in [Harts -> SUBSET Sources] /\ disabled \in [Harts -> SUBSET Sources]
  /\ word \in [Harts -> SUBSET Sources]
  /\ target \in [Harts -> Sources \cup {NoSource}]
  /\ int_num \in [Harts -> Sources \cup {NoSource}]
  /\ \A h \in Harts : trap[h] \in {"handler", "keep", "stop", "disable"} => int_num[h] \in Sources
  /\ mie \subseteq Harts /\ mtie \subseteq Harts
  /\ msip \subseteq Harts /\ wanted \subseteq Harts
  /\ left \in [Harts -> Times] /\ cmp \in [Harts -> Times]
  /\ since \in [Harts -> 0..TickPeriod]
  /\ trap \in [Harts -> {"none", "claim", "handler", "keep", "stop",
                         "disable", "soft", "clear", "tick", "rearm"}]
  /\ thread \in [Harts -> {"run", "ena", "cmp"}]
  /\ calls \in 0..Calls /\ requests \in 0..Requests

(***************************************************************************)
(* PLIC_init_on_reset() has run; its PLIC_ClearPendingIRQ() claims with    *)
(* every enable already clear, so it leaves what was pending.  The threads *)
(* have called __enable_irq() and PLIC_init(), and given the interrupts a  *)
(* priority; MIE.MEIP is set from then on.                                 *)
(***************************************************************************)
Init ==
  /\ line = {} /\ pending \in SUBSET Sources /\ inService = {}
  /\ priority = [s \in Sources |-> MaxPriority]
  /\ threshold = [h \in Harts |-> 0]
  /\ ena = [h \in Harts |-> {}]
  /\ mie = Harts /\ mtie = {} /\ msip = {}
  /\ left = [h \in Harts |-> TickPeriod] /\ cmp = [h \in Harts |-> 0]
  /\ trap = [h \in Harts |-> "none"] /\ thread = [h \in Harts |-> "run"]
  /\ int_num = [h \in Harts |-> NoSource] /\ target = [h \in Harts |-> NoSource]
  /\ word = [h \in Harts |-> {}]
  /\ calls = 0 /\ requests = 0
  /\ disabled = [h \in Harts |-> {}] /\ wanted = {}
  /\ since = [h \in Harts |-> TickPeriod]

-----------------------------------------------------------------------------
(* Hardware *)

Request(s) ==
  /\ requests < Requests /\ s \notin line
  /\ line' = line \cup {s} /\ requests' = requests + 1
  /\ UNCHANGED <<pending, inService, priority, threshold, ena, timerVars,
                 threadVars, msip, trap, int_num, disabled>>

\* A gateway forwards one request, and no other until completion.
Gateway(s) ==
  /\ s \in line \ (pending \cup inService)
  /\ pending' = pending \cup {s}
  /\ UNCHANGED <<line, inService, priority, threshold, ena, timerVars,
                 threadVars, msip, trap, int_num, requests, disabled>>

Earlier(t) == IF t > -TickPeriod THEN t - 1 ELSE t

\* MTIME advances, for every hart.
Time ==
  /\ left' = [h \in Harts |-> IF h \in wanted THEN Earlier(left[h]) ELSE left[h]]
  /\ cmp' = [h \in Harts |-> IF thread[h] = "cmp" THEN Earlier(cmp[h]) ELSE cmp[h]]
  /\ since' = [h \in Harts |-> IF since[h] < TickPeriod THEN since[h] + 1 ELSE since[h]]
  /\ UNCHANGED <<plicVars, threadVars, mtie, wanted, msip, trap, int_num,
                 requests, disabled>>

Meip(h) == \E s \in pending \cap ena[h] : priority[s] > threshold[h]
Msip(h) == h \in msip
Mtip(h) == h \in mtie /\ left[h] <= 0

\* The interrupt causes in the order a hart takes them.
Cause(h) ==
  CASE Meip(h) -> "external"
    [] ~Meip(h) /\ Msip(h) -> "software"
    [] ~Meip(h) /\ ~Msip(h) /\ Mtip(h) -> "timer"
    [] OTHER -> "none"

-----------------------------------------------------------------------------
(* Trap handlers *)

\* The handler trap_from_machine_mode() calls for a cause.
Dispatch(c) ==
  CASE c = "external" -> "claim"
    [] c = "software" -> "soft"
    [] c = "timer"    -> "tick"
    [] OTHER          -> "none"

TakeTrap(h) ==
  /\ h \in mie /\ trap[h] = "none" /\ Cause(h) # "none"
  /\ trap' = [trap EXCEPT ![h] = Dispatch(Cause(h))]
  /\ UNCHANGED <<plicVars, timerVars, threadVars, msip, int_num, requests, disabled>>

Claimable(h) == {s \in pending \cap ena[h] : priority[s] > 0}

First(s, S) == \A t \in S : priority[t] < priority[s] \/ (priority[t] = priority[s] /\ s <= t)

\* Mutant: no test for PLIC_INVALID_INT_OFFSET.
ClaimUntested(h) ==
  /\ trap[h] = "claim"
  /\ \E s \in IF Claimable(h) = {} THEN {NoSource} ELSE Claimable(h) :
       /\ Claimable(h) # {} => First(s, Claimable(h))
       /\ pending' = pending \ {s} /\ inService' = inService \cup {s}
       /\ int_num' = [int_num EXCEPT ![h] = s]
  /\ trap' = [trap EXCEPT ![h] = "handler"]
  /\ UNCHANGED <<line, priority, threshold, ena, timerVars, threadVars, msip,
                 requests, disabled>>

Claim(h) ==
  /\ trap[h] = "claim"
  /\ \/ /\ Claimable(h) = {}   \* another hart was faster
        /\ trap' = [trap EXCEPT ![h] = "none"]
        /\ UNCHANGED <<pending, inService, int_num>>
     \/ \E s \in Claimable(h) :
          /\ First(s, Claimable(h))
          /\ pending' = pending \ {s} /\ inService' = inService \cup {s}
          /\ int_num' = [int_num EXCEPT ![h] = s]
          /\ trap' = [trap EXCEPT ![h] = "handler"]
  /\ UNCHANGED <<line, priority, threshold, ena, timerVars, threadVars, msip,
                 requests, disabled>>

\* Mutant: a handler that wants the interrupt off calls PLIC_DisableIRQ() itself.
HandlerDisables(h) ==
  /\ trap[h] = "handler"
  /\ line' = line \ {int_num[h]}
  /\ ena' \in {ena, [ena EXCEPT ![h] = @ \ {int_num[h]}]}
  /\ trap' = [trap EXCEPT ![h] = "keep"]
  /\ UNCHANGED <<pending, inService, priority, threshold, timerVars,
                 threadVars, msip, int_num, requests, disabled>>

\* The handler of the table serves the peripheral; it returns
\* EXT_IRQ_KEEP_ENABLED or EXT_IRQ_DISABLE.
Handler(h) ==
  /\ trap[h] = "handler"
  /\ line' = line \ {int_num[h]}
  /\ \E disable \in {"keep", "stop"} : trap' = [trap EXCEPT ![h] = disable]
  /\ UNCHANGED <<pending, inService, priority, threshold, ena, timerVars,
                 threadVars, msip, int_num, requests, disabled>>

\* mret; the handler's local goes.
Return(h) ==
  /\ trap' = [trap EXCEPT ![h] = "none"]
  /\ int_num' = [int_num EXCEPT ![h] = NoSource]

\* Mutant: a handler's EXT_IRQ_DISABLE is acted on instead of completed.
CompleteKeptOnly(h) ==
  /\ trap[h] \in {"keep", "stop"}
  /\ \/ trap[h] = "stop" /\ trap' = [trap EXCEPT ![h] = "disable"] /\ UNCHANGED <<int_num, inService>>
     \/ trap[h] = "keep" /\ Return(h) /\ inService' = inService \ {int_num[h]}
  /\ UNCHANGED <<line, pending, priority, threshold, ena, timerVars, threadVars,
                 msip, requests, disabled>>

\* The PLIC ignores a completion from a hart that has the source disabled.
Complete(h) ==
  /\ trap[h] \in {"keep", "stop"}
  /\ inService' = IF int_num[h] \in ena[h] THEN inService \ {int_num[h]} ELSE inService
  /\ \/ trap[h] = "stop" /\ trap' = [trap EXCEPT ![h] = "disable"] /\ UNCHANGED int_num
     \/ trap[h] = "keep" /\ Return(h)
  /\ UNCHANGED <<line, pending, priority, threshold, ena, timerVars, threadVars,
                 msip, requests, disabled>>

\* PLIC_DisableIRQ() of the handler; the thread cannot run meanwhile.
Disable(h) ==
  /\ trap[h] = "disable"
  /\ ena' = [ena EXCEPT ![h] = @ \ {int_num[h]}]
  /\ disabled' = [disabled EXCEPT ![h] = @ \cup {int_num[h]}]
  /\ Return(h)
  /\ UNCHANGED <<line, pending, inService, priority, threshold, timerVars,
                 threadVars, msip, requests>>

Soft(h) ==
  /\ trap[h] = "soft"
  /\ trap' = [trap EXCEPT ![h] = "clear"]
  /\ UNCHANGED <<plicVars, timerVars, threadVars, msip, int_num, requests, disabled>>

ClearSoft(h) ==
  /\ trap[h] = "clear"
  /\ msip' = msip \ {h}
  /\ trap' = [trap EXCEPT ![h] = "none"]
  /\ UNCHANGED <<plicVars, timerVars, threadVars, int_num, requests, disabled>>

Tick(h) ==
  /\ trap[h] = "tick"
  /\ mtie' = mtie \ {h}
  /\ trap' = [trap EXCEPT ![h] = "rearm"]
  /\ UNCHANGED <<plicVars, threadVars, left, cmp, wanted, since, msip, int_num,
                 requests, disabled>>

\* Mutant: the next compare value counts from the last one.
RearmFromCompare(h) ==
  /\ trap[h] = "rearm"
  /\ left' = [left EXCEPT ![h] = @ + TickPeriod]
  /\ mtie' = mtie \cup {h}
  /\ since' = [since EXCEPT ![h] = 0]
  /\ trap' = [trap EXCEPT ![h] = "none"]
  /\ UNCHANGED <<plicVars, threadVars, cmp, wanted, msip, int_num, requests, disabled>>

Rearm(h) ==
  /\ trap[h] = "rearm"
  /\ left' = [left EXCEPT ![h] = TickPeriod]
  /\ mtie' = mtie \cup {h}
  /\ since' = [since EXCEPT ![h] = 0]
  /\ trap' = [trap EXCEPT ![h] = "none"]
  /\ UNCHANGED <<plicVars, threadVars, cmp, wanted, msip, int_num, requests, disabled>>

TrapStep(h) ==
  \/ Claim(h) \/ Handler(h) \/ Complete(h) \/ Disable(h)
  \/ Soft(h) \/ ClearSoft(h) \/ Tick(h) \/ Rearm(h)

-----------------------------------------------------------------------------
(* Calls of the threads *)

Call(h) ==
  /\ trap[h] = "none" /\ thread[h] = "run" /\ calls < Calls
  /\ calls' = calls + 1
  /\ UNCHANGED <<line, trap, int_num, requests>>

\* Mutant: the calls are made with interrupts on.
MaskNothing(h) == mie

\* disable_interrupts() of a guarded hart; restore_interrupts() follows the
\* write, and finds MSTATUS.MIE set in the saved mstatus.
Mask(h) == IF h \in Guarded THEN mie \ {h} ELSE mie

InitPlic(h) ==
  /\ Call(h)
  /\ ena' = [ena EXCEPT ![h] = {}] /\ threshold' = [threshold EXCEPT ![h] = 0]
  /\ UNCHANGED <<pending, inService, priority, timerVars, mie, thread, word,
                 target, msip, disabled>>

SetPriority(h) ==
  /\ Call(h)
  /\ \E s \in Sources, p \in 0..MaxPriority : priority' = [priority EXCEPT ![s] = p]
  /\ UNCHANGED <<pending, inService, threshold, ena, timerVars, mie, thread, word, target, msip, disabled>>

SetThreshold(h) ==
  /\ Call(h)
  /\ \E t \in 0..MaxPriority : threshold' = [threshold EXCEPT ![h] = t]
  /\ UNCHANGED <<pending, inService, priority, ena, timerVars, mie, thread, word, target, msip, disabled>>

\* The enable functions read the hart's word here and write it in WriteEna.
ReadEna(h, w, t) ==
  /\ Call(h) /\ mie' = Mask(h)
  /\ word' = [word EXCEPT ![h] = w] /\ target' = [target EXCEPT ![h] = t]
  /\ thread' = [thread EXCEPT ![h] = "ena"]
  /\ UNCHANGED <<pending, inService, priority, threshold, ena, timerVars, msip, disabled>>

EnableIRQ(h) == \E s \in Sources : ReadEna(h, ena[h] \cup {s}, s)

DisableIRQ(h) == \E s \in Sources : ReadEna(h, ena[h] \ {s}, NoSource)

WriteEna(h) ==
  /\ trap[h] = "none" /\ thread[h] = "ena"
  /\ ena' = [ena EXCEPT ![h] = word[h]]
  /\ disabled' = [disabled EXCEPT ![h] = @ \ {target[h]}]
  /\ mie' = mie \cup {h}
  /\ thread' = [thread EXCEPT ![h] = "run"]
  /\ word' = [word EXCEPT ![h] = {}] /\ target' = [target EXCEPT ![h] = NoSource]
  /\ UNCHANGED <<line, pending, inService, priority, threshold, timerVars, calls, msip, trap, int_num, requests>>

\* SysTick_Config() reads MTIME here and writes MTIMECMP in WriteCmp; a hart
\* with a zero tick rate gets ERROR.
ReadTime(h) ==
  /\ Call(h) /\ mie' = Mask(h) /\ h \in Ticking
  /\ cmp' = [cmp EXCEPT ![h] = TickPeriod]
  /\ thread' = [thread EXCEPT ![h] = "cmp"]
  /\ UNCHANGED <<pending, inService, priority, threshold, ena, mtie, left,
                 wanted, since, word, target, msip, disabled>>

WriteCmp(h) ==
  /\ trap[h] = "none" /\ thread[h] = "cmp"
  /\ left' = [left EXCEPT ![h] = cmp[h]] /\ cmp' = [cmp EXCEPT ![h] = 0]
  /\ mtie' = mtie \cup {h} /\ wanted' = wanted \cup {h}
  /\ mie' = mie \cup {h}
  /\ thread' = [thread EXCEPT ![h] = "run"]
  /\ UNCHANGED <<plicVars, since, word, target, calls, msip, trap,
                 int_num, requests, disabled>>

\* Mutant: disable_systick() clears the pending bit instead of the enable.
StopTickPending(h) ==
  /\ Call(h)
  /\ wanted' = wanted \ {h}
  /\ UNCHANGED <<pending, inService, priority, threshold, ena, mtie, left, cmp, since,
                 mie, thread, word, target, msip, disabled>>

StopTick(h) ==
  /\ Call(h)
  /\ mtie' = mtie \ {h} /\ wanted' = wanted \ {h}
  /\ UNCHANGED <<pending, inService, priority, threshold, ena, left, cmp, since,
                 mie, thread, word, target, msip, disabled>>

RaiseSoft(h, t) ==
  /\ Call(h)
  /\ msip' = msip \cup {t}
  /\ UNCHANGED <<pending, inService, priority, threshold, ena, timerVars, mie,
                 thread, word, target, disabled>>

NewCall(h) ==
  \/ InitPlic(h) \/ SetPriority(h) \/ SetThreshold(h)
  \/ EnableIRQ(h) \/ DisableIRQ(h) \/ ReadTime(h) \/ StopTick(h)
  \/ \E t \in Harts : RaiseSoft(h, t)

ThreadStep(h) == WriteEna(h) \/ WriteCmp(h)

Next ==
  \/ Time
  \/ \E s \in Sources : Request(s) \/ Gateway(s)
  \/ \E h \in Harts : TakeTrap(h) \/ TrapStep(h) \/ ThreadStep(h) \/ NewCall(h)

\* Harts run, MTIME counts, and a call that was begun ends.
Fairness ==
  /\ WF_vars(Time)
  /\ \A s \in Sources : WF_vars(Gateway(s))
  /\ \A h \in Harts :
       WF_vars(TakeTrap(h)) /\ WF_vars(TrapStep(h)) /\ WF_vars(ThreadStep(h))

Spec == Init /\ [][Next]_vars

LiveSpec == Spec /\ Fairness

-----------------------------------------------------------------------------
(* Properties *)

Serving(h) == trap[h] \in {"handler", "keep", "stop"}

\* Every claimed interrupt is in the hands of exactly one hart, which still has
\* it enabled and so can complete it: handle_m_ext_interrupt() never leaves a
\* gateway closed for good, whatever the threads enable and disable meanwhile.
GatewayInv ==
  /\ pending \cap inService = {}
  /\ \A s \in inService : \E h \in Harts : Serving(h) /\ int_num[h] = s
  /\ \A h \in Harts : Serving(h) => int_num[h] \in inService \cap ena[h]
  /\ \A g, h \in Harts :
       Serving(g) /\ Serving(h) /\ int_num[g] = int_num[h] => g = h

\* A source whose handler returned EXT_IRQ_DISABLE stays disabled on its hart
\* until the hart's thread enables it, if the thread masks interrupts around
\* PLIC_EnableIRQ() and PLIC_DisableIRQ().
StaysDisabled == \A h \in Guarded : disabled[h] \cap ena[h] = {}

\* MIE.MTIP, which handle_m_timer_interrupt() clears and sets while its thread
\* may be anywhere, agrees with what the thread last asked for.
TickInv ==
  /\ mtie \subseteq wanted
  /\ \A h \in wanted \ mtie : trap[h] = "rearm"

\* The ticks of a hart that masks interrupts around SysTick_Config() are at
\* least a period apart, however late the handler runs: handle_m_timer_interrupt()
\* counts the next period from the time it ends.
TickSpacing ==
  [][\A h \in Guarded : trap[h] = "none" /\ trap'[h] = "tick" => since[h] = TickPeriod]_vars

Takes(h, s) == s \in ena[h] /\ priority[s] > threshold[h]

\* An enabled request is served, unless every hart that has it stops taking it.
RequestsServed ==
  \A s \in Sources :
    (s \in line /\ \E h \in Harts : Takes(h, s))
      ~> (s \notin line \/ \A h \in Harts : ~Takes(h, s))

\* A configured tick comes again and again until it is disabled.
TicksContinue ==
  \A h \in Ticking : h \in wanted ~> (trap[h] = "tick" \/ h \notin wanted)

\* A software interrupt raised outside the handler of the last one is handled.
IpiServed == \A h \in Harts : (h \in msip /\ trap[h] = "none") ~> trap[h] = "soft"

\* No kind of interrupt starves another for ever, although handle_m_ext_interrupt()
\* and handle_m_timer_interrupt() both work with their own source masked.
EventuallyServed == RequestsServed /\ TicksContinue /\ IpiServed
=============================================================================
