--------------------------- MODULE InterruptsProof ---------------------------
(***************************************************************************)
(* Proofs about the trap handlers of Interrupts, for every set of harts    *)
(* and interrupts, every tick period and every number of calls.            *)
(***************************************************************************)
EXTENDS Interrupts, TLAPS

TrapPc == {"none", "claim", "handler", "keep", "stop", "disable",
           "soft", "clear", "tick", "rearm"}

LEMMA TrapTaken ==
  ASSUME NEW h \in Harts, TypeOK, TakeTrap(h)
  PROVE  /\ trap[h] = "none"
         /\ \E t \in {"claim", "soft", "tick"} :
              /\ trap' = [trap EXCEPT ![h] = t]
              /\ t = "tick" => Mtip(h)
         /\ UNCHANGED <<plicVars, timerVars, threadVars, msip, int_num, requests, disabled>>
<1>1. Cause(h) \in {"external", "software", "timer"}
  BY DEF TakeTrap, Cause
<1>2. Cause(h) = "timer" => Mtip(h)
  BY DEF Cause
<1>3. /\ Dispatch("external") = "claim" /\ Dispatch("software") = "soft"
      /\ Dispatch("timer") = "tick"
  BY DEF Dispatch
<1>4. /\ trap[h] = "none" /\ trap' = [trap EXCEPT ![h] = Dispatch(Cause(h))]
      /\ UNCHANGED <<plicVars, timerVars, threadVars, msip, int_num, requests, disabled>>
  BY DEF TakeTrap
<1>5. \E t \in {"claim", "soft", "tick"} :
        trap' = [trap EXCEPT ![h] = t] /\ (t = "tick" => Mtip(h))
  <2>1. CASE Cause(h) = "external"
    BY <2>1, <1>3, <1>4
  <2>2. CASE Cause(h) = "software"
    BY <2>2, <1>3, <1>4
  <2>3. CASE Cause(h) = "timer"
    BY <2>3, <1>2, <1>3, <1>4
  <2>4. QED
    BY <1>1, <2>1, <2>2, <2>3
<1>6. QED
  BY <1>4, <1>5

LEMMA TrapStepType ==
  ASSUME TypeOK, NEW h \in Harts, TrapStep(h)
  PROVE  TypeOK'
<1> USE InterruptsAssumption DEF InterruptsAssumption, TypeOK, plicVars, timerVars,
        threadVars, NoSource, Return, Times
<1>1. CASE Claim(h)
  <2>1. CASE Claimable(h) = {} /\ trap' = [trap EXCEPT ![h] = "none"]
             /\ UNCHANGED <<pending, inService, int_num>>
    BY <1>1, <2>1 DEF Claim
  <2>2. ASSUME NEW s \in Claimable(h),
               pending' = pending \ {s}, inService' = inService \cup {s},
               int_num' = [int_num EXCEPT ![h] = s],
               trap' = [trap EXCEPT ![h] = "handler"]
        PROVE  TypeOK'
    BY <1>1, <2>2 DEF Claim, Claimable
  <2>3. QED
    BY <1>1, <2>1, <2>2 DEF Claim
<1>2. CASE Handler(h)    BY <1>2 DEF Handler
<1>3. CASE Complete(h)   BY <1>3 DEF Complete
<1>4. CASE Disable(h)
  <2>1. int_num[h] \in Sources
    BY <1>4 DEF Disable
  <2>2. ena' \in [Harts -> SUBSET Sources]
    BY <1>4 DEF Disable
  <2>3. disabled' \in [Harts -> SUBSET Sources]
    BY <1>4, <2>1 DEF Disable
  <2>4. QED
    BY <1>4, <2>2, <2>3 DEF Disable
<1>5. CASE Soft(h)       BY <1>5 DEF Soft
<1>6. CASE ClearSoft(h)  BY <1>6 DEF ClearSoft
<1>7. CASE Tick(h)       BY <1>7 DEF Tick
<1>8. CASE Rearm(h)      BY <1>8 DEF Rearm
<1>9. QED
  BY <1>1, <1>2, <1>3, <1>4, <1>5, <1>6, <1>7, <1>8 DEF TrapStep

LEMMA ThreadType ==
  ASSUME TypeOK, NEW h \in Harts, ThreadStep(h) \/ NewCall(h)
  PROVE  TypeOK'
<1> USE InterruptsAssumption DEF InterruptsAssumption, TypeOK, timerVars, plicVars,
        NoSource, Call, Mask, Times
<1>1. CASE WriteEna(h)      BY <1>1 DEF WriteEna
<1>2. CASE WriteCmp(h)      BY <1>2 DEF WriteCmp
<1>3. CASE InitPlic(h)      BY <1>3 DEF InitPlic
<1>4. CASE SetPriority(h)   BY <1>4 DEF SetPriority
<1>5. CASE SetThreshold(h)  BY <1>5 DEF SetThreshold
<1>6. CASE EnableIRQ(h)     BY <1>6 DEF EnableIRQ, ReadEna
<1>7. CASE DisableIRQ(h)    BY <1>7 DEF DisableIRQ, ReadEna
<1>8. CASE ReadTime(h)      BY <1>8 DEF ReadTime
<1>9. CASE StopTick(h)      BY <1>9 DEF StopTick
<1>10. CASE \E t \in Harts : RaiseSoft(h, t)
  BY <1>10 DEF RaiseSoft
<1>11. QED
  BY <1>1, <1>2, <1>3, <1>4, <1>5, <1>6, <1>7, <1>8, <1>9, <1>10
     DEF ThreadStep, NewCall

LEMMA TimeType ==
  ASSUME TypeOK, Time
  PROVE  TypeOK'
<1> USE InterruptsAssumption DEF InterruptsAssumption
<1>1. \A t \in Times : Earlier(t) \in Times
  BY DEF Times, Earlier
<1>2. left' \in [Harts -> Times] /\ cmp' \in [Harts -> Times]
  BY <1>1 DEF Time, TypeOK
<1>3. since' \in [Harts -> 0..TickPeriod]
  BY DEF Time, TypeOK
<1>4. QED
  BY <1>2, <1>3 DEF Time, TypeOK, plicVars, threadVars

\* The registers, the locals and the places of every hart keep their types.
THEOREM Typing == Spec => []TypeOK
<1> USE InterruptsAssumption DEF InterruptsAssumption
<1>1. Init => TypeOK
  BY DEF Init, TypeOK, Times, NoSource
<1>2. TypeOK /\ [Next]_vars => TypeOK'
  <2> SUFFICES ASSUME TypeOK, [Next]_vars PROVE TypeOK'
    OBVIOUS
  <2>1. CASE Time
    BY <2>1, TimeType
  <2>2. ASSUME NEW s \in Sources, Request(s) \/ Gateway(s) PROVE TypeOK'
    <3>1. CASE Request(s)
      <4>1. requests' \in 0..Requests
        BY <3>1 DEF Request, TypeOK
      <4>2. QED
        BY <3>1, <4>1 DEF Request, TypeOK, timerVars, threadVars
    <3>2. CASE Gateway(s)
      BY <3>2 DEF Gateway, TypeOK, timerVars, threadVars
    <3>3. QED
      BY <2>2, <3>1, <3>2
  <2>3. ASSUME NEW h \in Harts, TakeTrap(h) PROVE TypeOK'
    BY <2>3, TrapTaken DEF TypeOK, plicVars, timerVars, threadVars
  <2>4. ASSUME NEW h \in Harts, TrapStep(h) PROVE TypeOK'
    BY <2>4, TrapStepType
  <2>5. ASSUME NEW h \in Harts, ThreadStep(h) \/ NewCall(h) PROVE TypeOK'
    BY <2>5, ThreadType
  <2>6. CASE UNCHANGED vars
    BY <2>6 DEF vars, plicVars, timerVars, threadVars, TypeOK
  <2>7. QED
    BY <2>1, <2>2, <2>3, <2>4, <2>5, <2>6 DEF Next
<1>3. QED
  BY <1>1, <1>2, PTL DEF Spec

-----------------------------------------------------------------------------
(* One hart serves each claimed interrupt and can complete it. *)

LEMMA GatewayTrapStep ==
  ASSUME TypeOK, GatewayInv, NEW h \in Harts, TrapStep(h)
  PROVE  GatewayInv'
<1>1. CASE Claim(h)
  <2>1. CASE trap' = [trap EXCEPT ![h] = "none"] /\ UNCHANGED <<pending, inService, int_num>>
    BY <1>1, <2>1 DEF Claim, GatewayInv, Serving, TypeOK
  <2>2. ASSUME NEW s \in Claimable(h),
               pending' = pending \ {s}, inService' = inService \cup {s},
               int_num' = [int_num EXCEPT ![h] = s],
               trap' = [trap EXCEPT ![h] = "handler"]
        PROVE  GatewayInv'
    <3>1. s \in pending /\ s \in ena[h] /\ s \notin inService
      BY DEF Claimable, GatewayInv
    <3>2. /\ Serving(h)' /\ int_num'[h] = s /\ ~Serving(h) /\ ena' = ena
          /\ \A g \in Harts : g # h =>
               (Serving(g)' <=> Serving(g)) /\ int_num'[g] = int_num[g]
      BY <1>1, <2>2 DEF Claim, Serving, TypeOK
    <3>3. \A g \in Harts : g # h /\ Serving(g) => int_num[g] # s
      BY <3>1 DEF GatewayInv
    <3>4. (pending \cap inService = {})'
      BY <2>2 DEF GatewayInv
    <3>5. \A r \in inService' : \E g \in Harts : Serving(g)' /\ int_num'[g] = r
      BY <2>2, <3>2 DEF GatewayInv
    <3>6. \A g \in Harts : Serving(g)' => int_num'[g] \in inService' \cap ena'[g]
      BY <2>2, <3>1, <3>2 DEF GatewayInv
    <3>7. \A f, g \in Harts :
            Serving(f)' /\ Serving(g)' /\ int_num'[f] = int_num'[g] => f = g
      BY <3>2, <3>3 DEF GatewayInv
    <3>8. QED
      BY <3>4, <3>5, <3>6, <3>7 DEF GatewayInv
  <2>3. QED
    BY <1>1, <2>1, <2>2 DEF Claim
<1>2. CASE Handler(h)
  <2>1. \A g \in Harts : (Serving(g)' <=> Serving(g)) /\ int_num'[g] = int_num[g]
    BY <1>2 DEF Handler, Serving, TypeOK
  <2>2. pending' = pending /\ inService' = inService /\ ena' = ena
    BY <1>2 DEF Handler
  <2>3. QED
    BY <2>1, <2>2 DEF GatewayInv
<1>3. CASE Complete(h)
  <2>1. Serving(h) /\ int_num[h] \in ena[h] /\ int_num[h] \in inService
    BY <1>3 DEF Complete, Serving, GatewayInv
  <2>2. inService' = inService \ {int_num[h]} /\ pending' = pending /\ ena' = ena
    BY <1>3, <2>1 DEF Complete
  <2>3. /\ ~Serving(h)'
        /\ \A g \in Harts : g # h =>
             (Serving(g)' <=> Serving(g)) /\ int_num'[g] = int_num[g]
    BY <1>3 DEF Complete, Return, Serving, TypeOK
  <2>4. \A g \in Harts : g # h /\ Serving(g) => int_num[g] # int_num[h]
    BY <2>1 DEF GatewayInv
  <2>5. \A r \in inService' : \E g \in Harts : Serving(g)' /\ int_num'[g] = r
    BY <2>2, <2>3 DEF GatewayInv
  <2>6. QED
    BY <2>2, <2>3, <2>4, <2>5 DEF GatewayInv
<1>4. CASE Disable(h)
  <2>1. /\ ~Serving(h) /\ ~Serving(h)' /\ pending' = pending /\ inService' = inService
        /\ \A g \in Harts : g # h =>
             /\ (Serving(g)' <=> Serving(g)) /\ int_num'[g] = int_num[g]
             /\ ena'[g] = ena[g]
    BY <1>4 DEF Disable, Return, Serving, TypeOK
  <2>2. QED
    BY <2>1 DEF GatewayInv
<1>5. CASE Soft(h) \/ ClearSoft(h) \/ Tick(h) \/ Rearm(h)
  <2>1. /\ \A g \in Harts : Serving(g)' <=> Serving(g)
        /\ UNCHANGED <<int_num, pending, inService, ena>>
    BY <1>5 DEF Soft, ClearSoft, Tick, Rearm, Serving, TypeOK, plicVars
  <2>2. QED
    BY <2>1 DEF GatewayInv
<1>6. QED
  BY <1>1, <1>2, <1>3, <1>4, <1>5 DEF TrapStep

LEMMA GatewayThread ==
  ASSUME TypeOK, GatewayInv, NEW h \in Harts, ThreadStep(h) \/ NewCall(h)
  PROVE  GatewayInv'
<1>1. trap[h] = "none" /\ UNCHANGED <<trap, int_num>>
  BY DEF ThreadStep, NewCall, WriteEna, WriteCmp, InitPlic, SetPriority, SetThreshold,
         EnableIRQ, DisableIRQ, ReadEna, ReadTime, StopTick, RaiseSoft, Call
<1>2. UNCHANGED <<pending, inService>>
  BY DEF ThreadStep, NewCall, WriteEna, WriteCmp, InitPlic, SetPriority, SetThreshold,
         EnableIRQ, DisableIRQ, ReadEna, ReadTime, StopTick, RaiseSoft, Call, plicVars
<1>3. \A g \in Harts : g # h => ena'[g] = ena[g]
  BY DEF ThreadStep, NewCall, WriteEna, WriteCmp, InitPlic, SetPriority, SetThreshold,
         EnableIRQ, DisableIRQ, ReadEna, ReadTime, StopTick, RaiseSoft, Call, plicVars,
         TypeOK
<1>4. QED
  BY <1>1, <1>2, <1>3 DEF GatewayInv, Serving

\* Whatever the threads enable and disable, and whichever hart claims first, a
\* claimed interrupt is always completed by the hart that claimed it.
THEOREM GatewayNeverStuck == Spec => []GatewayInv
<1>1. Init => GatewayInv
  BY DEF Init, GatewayInv, Serving
<1>2. TypeOK /\ GatewayInv /\ [Next]_vars => GatewayInv'
  <2> SUFFICES ASSUME TypeOK, GatewayInv, [Next]_vars PROVE GatewayInv'
    OBVIOUS
  <2>1. CASE Time \/ UNCHANGED vars
    BY <2>1 DEF Time, vars, plicVars, GatewayInv, Serving
  <2>2. ASSUME NEW s \in Sources, Request(s) \/ Gateway(s) PROVE GatewayInv'
    <3>1. CASE Request(s)
      BY <3>1 DEF Request, GatewayInv, Serving
    <3>2. CASE Gateway(s)
      BY <3>2 DEF Gateway, GatewayInv, Serving
    <3>3. QED
      BY <2>2, <3>1, <3>2
  <2>3. ASSUME NEW h \in Harts, TakeTrap(h) PROVE GatewayInv'
    <3>1. /\ \A g \in Harts : Serving(g)' <=> Serving(g)
          /\ UNCHANGED <<int_num, pending, inService, ena>>
      BY <2>3, TrapTaken DEF Serving, TypeOK, plicVars
    <3>2. QED
      BY <3>1 DEF GatewayInv
  <2>4. ASSUME NEW h \in Harts, TrapStep(h) PROVE GatewayInv'
    BY <2>4, GatewayTrapStep
  <2>5. ASSUME NEW h \in Harts, ThreadStep(h) \/ NewCall(h) PROVE GatewayInv'
    BY <2>5, GatewayThread
  <2>6. QED
    BY <2>1, <2>2, <2>3, <2>4, <2>5 DEF Next
<1>3. QED
  BY <1>1, <1>2, Typing, PTL DEF Spec

-----------------------------------------------------------------------------
(* A hart that masks interrupts around its calls. *)

\* No trap comes between the read and the write of a guarded hart, and the word
\* it will write enables nothing a handler disabled but what it was asked to.
GuardInv ==
  \A h \in Guarded :
    /\ thread[h] # "run" => h \notin mie /\ trap[h] = "none"
    /\ thread[h] = "ena" => word[h] \cap disabled[h] \subseteq {target[h]}

DisableInv == GuardInv /\ StaysDisabled

LEMMA DisableTrapStep ==
  ASSUME TypeOK, DisableInv, NEW h \in Harts, TrapStep(h)
  PROVE  DisableInv'
<1> USE InterruptsAssumption DEF InterruptsAssumption, DisableInv, GuardInv, StaysDisabled
<1>1. trap[h] # "none" /\ UNCHANGED <<mie, thread, word, target>>
  BY DEF TrapStep, Claim, Handler, Complete, Disable, Soft, ClearSoft, Tick, Rearm,
         threadVars
<1>2. \A g \in Harts : g # h => trap'[g] = trap[g]
  BY DEF TrapStep, Claim, Handler, Complete, Disable, Soft, ClearSoft, Tick, Rearm,
         Return, TypeOK
<1>3. CASE Disable(h)
  <2>1. /\ ena'[h] = ena[h] \ {int_num[h]} /\ disabled'[h] = disabled[h] \cup {int_num[h]}
        /\ \A g \in Harts : g # h => ena'[g] = ena[g] /\ disabled'[g] = disabled[g]
    BY <1>3 DEF Disable, TypeOK
  <2>2. QED
    BY <1>1, <1>2, <2>1
<1>4. CASE ~Disable(h)
  <2>1. UNCHANGED <<ena, disabled>>
    BY <1>4 DEF TrapStep, Claim, Handler, Complete, Soft, ClearSoft, Tick, Rearm, plicVars
  <2>2. QED
    BY <1>1, <1>2, <2>1
<1>5. QED
  BY <1>3, <1>4

LEMMA DisableThread ==
  ASSUME TypeOK, DisableInv, NEW h \in Harts, ThreadStep(h) \/ NewCall(h)
  PROVE  DisableInv'
<1> USE InterruptsAssumption DEF InterruptsAssumption, DisableInv, GuardInv, StaysDisabled
<1>1. trap[h] = "none" /\ UNCHANGED trap
  BY DEF ThreadStep, NewCall, WriteEna, WriteCmp, InitPlic, SetPriority, SetThreshold,
         EnableIRQ, DisableIRQ, ReadEna, ReadTime, StopTick, RaiseSoft, Call
<1>2. ASSUME NEW w \in SUBSET Sources, NEW t \in Sources \cup {NoSource},
             w \subseteq ena[h] \cup {t}, ReadEna(h, w, t)
      PROVE  DisableInv'
  <2>1. /\ thread'[h] = "ena" /\ word'[h] = w /\ target'[h] = t
        /\ h \in Guarded => h \notin mie'
        /\ \A g \in Harts : g # h =>
             /\ thread'[g] = thread[g] /\ word'[g] = word[g] /\ target'[g] = target[g]
             /\ g \in mie' <=> g \in mie
        /\ UNCHANGED <<ena, disabled>>
    BY <1>2 DEF ReadEna, Mask, TypeOK
  <2>2. QED
    BY <1>1, <1>2, <2>1
<1>3. CASE EnableIRQ(h)
  <2>1. PICK s \in Sources : ReadEna(h, ena[h] \cup {s}, s)
    BY <1>3 DEF EnableIRQ
  <2>2. ena[h] \cup {s} \in SUBSET Sources
    BY DEF TypeOK
  <2>3. QED
    BY <1>2, <2>1, <2>2
<1>4. CASE DisableIRQ(h)
  <2>1. PICK s \in Sources : ReadEna(h, ena[h] \ {s}, NoSource)
    BY <1>4 DEF DisableIRQ
  <2>2. ena[h] \ {s} \in SUBSET Sources
    BY DEF TypeOK
  <2>3. QED
    BY <1>2, <2>1, <2>2
<1>5. CASE WriteEna(h)
  <2>1. /\ thread[h] = "ena" /\ thread'[h] = "run"
        /\ ena'[h] = word[h] /\ disabled'[h] = disabled[h] \ {target[h]}
        /\ \A g \in Harts : g # h =>
             /\ thread'[g] = thread[g] /\ word'[g] = word[g] /\ target'[g] = target[g]
             /\ g \in mie' <=> g \in mie
             /\ ena'[g] = ena[g] /\ disabled'[g] = disabled[g]
    BY <1>5 DEF WriteEna, TypeOK
  <2>2. QED
    BY <1>1, <2>1
<1>6. CASE WriteCmp(h)
  <2>1. /\ thread[h] = "cmp" /\ thread'[h] = "run"
        /\ \A g \in Harts : g # h => thread'[g] = thread[g] /\ (g \in mie' <=> g \in mie)
        /\ UNCHANGED <<ena, disabled, word, target>>
    BY <1>6 DEF WriteCmp, TypeOK, plicVars
  <2>2. QED
    BY <1>1, <2>1
<1>7. CASE ReadTime(h)
  <2>1. /\ thread'[h] = "cmp" /\ (h \in Guarded => h \notin mie')
        /\ \A g \in Harts : g # h => thread'[g] = thread[g] /\ (g \in mie' <=> g \in mie)
        /\ UNCHANGED <<ena, disabled, word, target>>
    BY <1>7 DEF ReadTime, Mask, TypeOK
  <2>2. QED
    BY <1>1, <2>1
<1>8. CASE InitPlic(h)
  <2>1. /\ ena'[h] = {} /\ \A g \in Harts : g # h => ena'[g] = ena[g]
        /\ UNCHANGED <<disabled, mie, thread, word, target>>
    BY <1>8 DEF InitPlic, TypeOK
  <2>2. QED
    BY <1>1, <2>1
<1>9. CASE SetPriority(h) \/ SetThreshold(h) \/ StopTick(h) \/ \E t \in Harts : RaiseSoft(h, t)
  <2>1. UNCHANGED <<ena, disabled, mie, thread, word, target>>
    BY <1>9 DEF SetPriority, SetThreshold, StopTick, RaiseSoft
  <2>2. QED
    BY <1>1, <2>1
<1>10. QED
  BY <1>3, <1>4, <1>5, <1>6, <1>7, <1>8, <1>9 DEF ThreadStep, NewCall

LEMMA DisableInductive == Spec => []DisableInv
<1> USE InterruptsAssumption DEF InterruptsAssumption
<1>1. Init => DisableInv
  BY DEF Init, DisableInv, GuardInv, StaysDisabled
<1>2. TypeOK /\ DisableInv /\ [Next]_vars => DisableInv'
  <2> SUFFICES ASSUME TypeOK, DisableInv, [Next]_vars PROVE DisableInv'
    OBVIOUS
  <2>1. CASE Time \/ UNCHANGED vars \/ \E s \in Sources : Request(s) \/ Gateway(s)
    <3>1. UNCHANGED <<ena, disabled, mie, thread, word, target, trap>>
      BY <2>1 DEF Time, Request, Gateway, vars, plicVars, threadVars
    <3>2. QED
      BY <3>1 DEF DisableInv, GuardInv, StaysDisabled
  <2>2. ASSUME NEW h \in Harts, TakeTrap(h) PROVE DisableInv'
    <3>1. /\ h \in mie /\ UNCHANGED <<ena, disabled, mie, thread, word, target>>
          /\ \A g \in Harts : g # h => trap'[g] = trap[g]
      BY <2>2, TrapTaken DEF TakeTrap, TypeOK, plicVars, threadVars
    <3>2. QED
      BY <3>1 DEF DisableInv, GuardInv, StaysDisabled
  <2>3. ASSUME NEW h \in Harts, TrapStep(h) PROVE DisableInv'
    BY <2>3, DisableTrapStep
  <2>4. ASSUME NEW h \in Harts, ThreadStep(h) \/ NewCall(h) PROVE DisableInv'
    BY <2>4, DisableThread
  <2>5. QED
    BY <2>1, <2>2, <2>3, <2>4 DEF Next
<1>3. QED
  BY <1>1, <1>2, Typing, PTL DEF Spec

\* A guarded hart never turns back on what a handler turned off.
THEOREM DisableSticks == Spec => []StaysDisabled
<1>1. DisableInv => StaysDisabled
  BY DEF DisableInv
<1>2. QED
  BY <1>1, DisableInductive, PTL

-----------------------------------------------------------------------------
(* The system tick. *)

TickingInv ==
  /\ TickInv
  /\ \A h \in Harts : trap[h] \in {"tick", "rearm"} => h \in wanted

\* MIE.MTIP agrees with the thread's last SysTick_Config() or disable_systick():
\* no thread runs between the two steps of its hart's timer handler, and no
\* timer handler runs on a hart that did not ask for ticks.
THEOREM TickEnable == Spec => []TickInv
<1>1. Init => TickingInv
  BY DEF Init, TickingInv, TickInv
<1>2. TypeOK /\ TickingInv /\ [Next]_vars => TickingInv'
  <2> SUFFICES ASSUME TypeOK, TickingInv, [Next]_vars PROVE TickingInv'
    OBVIOUS
  <2> USE DEF TickingInv, TickInv
  <2>1. CASE Time \/ UNCHANGED vars \/ \E s \in Sources : Request(s) \/ Gateway(s)
    BY <2>1 DEF Time, Request, Gateway, vars, plicVars, timerVars
  <2>2. ASSUME NEW h \in Harts, TakeTrap(h) PROVE TickingInv'
    <3>1. /\ UNCHANGED <<mtie, wanted>> /\ trap[h] = "none"
          /\ trap'[h] \in {"tick", "rearm"} => h \in mtie
          /\ \A g \in Harts : g # h => trap'[g] = trap[g]
      BY <2>2, TrapTaken DEF TypeOK, timerVars, Mtip
    <3>2. QED
      BY <3>1 DEF TypeOK
  <2>3. ASSUME NEW h \in Harts, TrapStep(h) PROVE TickingInv'
    <3>1. wanted' = wanted /\ \A g \in Harts : g # h => trap'[g] = trap[g]
      BY <2>3 DEF TrapStep, Claim, Handler, Complete, Disable, Soft, ClearSoft, Tick,
                  Rearm, Return, TypeOK, timerVars
    <3>2. CASE Tick(h)
      <4>1. trap[h] = "tick" /\ trap'[h] = "rearm" /\ mtie' = mtie \ {h}
        BY <3>2 DEF Tick, TypeOK
      <4>2. QED
        BY <3>1, <4>1 DEF TypeOK
    <3>3. CASE Rearm(h)
      <4>1. trap[h] = "rearm" /\ trap'[h] = "none" /\ mtie' = mtie \cup {h}
        BY <3>3 DEF Rearm, TypeOK
      <4>2. QED
        BY <3>1, <4>1 DEF TypeOK
    <3>4. CASE ~Tick(h) /\ ~Rearm(h)
      <4>1. /\ mtie' = mtie /\ trap[h] \notin {"tick", "rearm"}
            /\ trap'[h] \notin {"tick", "rearm"}
        BY <2>3, <3>4 DEF TrapStep, Claim, Handler, Complete, Disable, Soft, ClearSoft,
                          Return, TypeOK, timerVars
      <4>2. QED
        BY <3>1, <4>1 DEF TypeOK
    <3>5. QED
      BY <3>2, <3>3, <3>4
  <2>4. ASSUME NEW h \in Harts, ThreadStep(h) \/ NewCall(h) PROVE TickingInv'
    <3>1. trap' = trap /\ trap[h] = "none"
      BY <2>4 DEF ThreadStep, NewCall, WriteEna, WriteCmp, InitPlic, SetPriority,
                  SetThreshold, EnableIRQ, DisableIRQ, ReadEna, ReadTime, StopTick,
                  RaiseSoft, Call
    <3>2. \/ UNCHANGED <<mtie, wanted>>
          \/ mtie' = mtie \cup {h} /\ wanted' = wanted \cup {h}
          \/ mtie' = mtie \ {h} /\ wanted' = wanted \ {h}
      BY <2>4 DEF ThreadStep, NewCall, WriteEna, WriteCmp, InitPlic, SetPriority,
                  SetThreshold, EnableIRQ, DisableIRQ, ReadEna, ReadTime, StopTick,
                  RaiseSoft, timerVars
    <3>3. QED
      BY <3>1, <3>2
  <2>5. QED
    BY <2>1, <2>2, <2>3, <2>4 DEF Next
<1>3. TickingInv => TickInv
  BY DEF TickingInv
<1>4. QED
  BY <1>1, <1>2, <1>3, Typing, PTL DEF Spec

\* A compare value t of hart h is a period or more after the hart's last tick.
Spaced(t, h) == t + since[h] >= TickPeriod \/ since[h] = TickPeriod

SpacingInv ==
  \A h \in Guarded :
    /\ h \in wanted => Spaced(left[h], h)
    /\ thread[h] = "cmp" => Spaced(cmp[h], h)

LEMMA SpacingTime ==
  ASSUME TypeOK, SpacingInv, Time
  PROVE  SpacingInv'
<1> USE InterruptsAssumption DEF InterruptsAssumption
<1>1. ASSUME NEW h \in Guarded, NEW t \in Times, Spaced(t, h)
      PROVE  \/ Earlier(t) + since'[h] >= TickPeriod
             \/ since'[h] = TickPeriod
  <2>1. since[h] \in 0..TickPeriod /\ t \in Int
    BY DEF TypeOK, Times
  <2>2. since'[h] = IF since[h] < TickPeriod THEN since[h] + 1 ELSE since[h]
    BY DEF Time
  <2>3. Earlier(t) \in Int /\ Earlier(t) >= t - 1
    BY <2>1 DEF Earlier
  <2>4. CASE since[h] = TickPeriod
    BY <2>1, <2>2, <2>4
  <2>5. CASE since[h] # TickPeriod
    BY <1>1, <2>1, <2>2, <2>3, <2>5 DEF Spaced
  <2>6. QED
    BY <2>4, <2>5
<1>2. /\ thread' = thread /\ wanted' = wanted
      /\ \A h \in Guarded : left[h] \in Times /\ cmp[h] \in Times
      /\ \A h \in Guarded : h \in wanted => left'[h] = Earlier(left[h])
      /\ \A h \in Guarded : thread[h] = "cmp" => cmp'[h] = Earlier(cmp[h])
  BY DEF Time, TypeOK, threadVars
<1>3. QED
  BY <1>1, <1>2 DEF SpacingInv, Spaced

LEMMA SpacingInductive == Spec => []SpacingInv
<1> USE InterruptsAssumption DEF InterruptsAssumption
<1>1. Init => SpacingInv
  BY DEF Init, SpacingInv, Spaced
<1>2. TypeOK /\ DisableInv /\ SpacingInv /\ [Next]_vars => SpacingInv'
  <2> SUFFICES ASSUME TypeOK, DisableInv, SpacingInv, [Next]_vars PROVE SpacingInv'
    OBVIOUS
  <2>1. CASE Time
    BY <2>1, SpacingTime
  <2>2. CASE UNCHANGED <<left, cmp, since, thread, wanted>>
    BY <2>2 DEF SpacingInv, Spaced
  <2>3. ASSUME NEW h \in Harts, Rearm(h) PROVE SpacingInv'
    <3>1. /\ left'[h] = TickPeriod /\ since'[h] = 0 /\ thread' = thread
          /\ wanted' = wanted /\ cmp' = cmp /\ trap[h] # "none"
          /\ \A g \in Harts : g # h => left'[g] = left[g] /\ since'[g] = since[g]
      BY <2>3 DEF Rearm, TypeOK, threadVars
    <3>2. h \in Guarded => thread[h] = "run"
      BY <3>1 DEF DisableInv, GuardInv
    <3>3. QED
      BY <3>1, <3>2 DEF SpacingInv, Spaced
  <2>4. ASSUME NEW h \in Harts, ReadTime(h) PROVE SpacingInv'
    <3>1. /\ cmp'[h] = TickPeriod /\ since[h] \in 0..TickPeriod
          /\ UNCHANGED <<left, since, wanted>>
          /\ \A g \in Harts : g # h => cmp'[g] = cmp[g] /\ thread'[g] = thread[g]
      BY <2>4 DEF ReadTime, TypeOK
    <3>2. QED
      BY <3>1 DEF SpacingInv, Spaced
  <2>5. ASSUME NEW h \in Harts, WriteCmp(h) PROVE SpacingInv'
    <3>1. /\ left'[h] = cmp[h] /\ since' = since /\ wanted' = wanted \cup {h}
          /\ thread[h] = "cmp" /\ thread'[h] = "run"
          /\ \A g \in Harts : g # h =>
               left'[g] = left[g] /\ cmp'[g] = cmp[g] /\ thread'[g] = thread[g]
      BY <2>5 DEF WriteCmp, TypeOK
    <3>2. QED
      BY <3>1 DEF SpacingInv, Spaced
  <2>6. ASSUME NEW h \in Harts, StopTick(h) \/ EnableIRQ(h) \/ DisableIRQ(h) \/ WriteEna(h)
        PROVE  SpacingInv'
    <3>1. /\ UNCHANGED <<left, cmp, since>> /\ wanted' \subseteq wanted
          /\ \A g \in Harts : thread'[g] = "cmp" => thread[g] = "cmp"
      BY <2>6 DEF StopTick, EnableIRQ, DisableIRQ, ReadEna, WriteEna, TypeOK, timerVars
    <3>2. QED
      BY <3>1 DEF SpacingInv, Spaced
  <2>7. ASSUME NEW h \in Harts, InitPlic(h) \/ SetPriority(h) \/ SetThreshold(h)
                                \/ \E t \in Harts : RaiseSoft(h, t)
        PROVE  SpacingInv'
    BY <2>2, <2>7 DEF InitPlic, SetPriority, SetThreshold, RaiseSoft, timerVars
  <2>8. ASSUME NEW h \in Harts, TrapStep(h), ~Rearm(h) PROVE SpacingInv'
    BY <2>2, <2>8 DEF TrapStep, Claim, Handler, Complete, Disable, Soft, ClearSoft,
                      Tick, timerVars, threadVars
  <2>9. ASSUME NEW h \in Harts, TakeTrap(h) PROVE SpacingInv'
    BY <2>2, <2>9 DEF TakeTrap, timerVars, threadVars
  <2>10. CASE UNCHANGED vars \/ \E s \in Sources : Request(s) \/ Gateway(s)
    BY <2>2, <2>10 DEF Request, Gateway, vars, timerVars, threadVars
  <2>11. QED
    BY <2>1, <2>3, <2>4, <2>5, <2>6, <2>7, <2>8, <2>9, <2>10 DEF Next, ThreadStep, NewCall
<1>3. QED
  BY <1>1, <1>2, Typing, DisableInductive, PTL DEF Spec

\* However late its handler runs, a guarded hart's ticks are a period apart.
THEOREM TicksSpaced == Spec => TickSpacing
<1> USE InterruptsAssumption DEF InterruptsAssumption
<1>1. ASSUME TypeOK, SpacingInv, TickInv, [Next]_vars,
             NEW h \in Guarded, trap[h] = "none", trap'[h] = "tick"
      PROVE  since[h] = TickPeriod
  <2>1. TakeTrap(h)
    <3>1. ASSUME NEW g \in Harts, ThreadStep(g) \/ NewCall(g) PROVE trap' = trap
      BY <3>1 DEF ThreadStep, NewCall, WriteEna, WriteCmp, InitPlic, SetPriority,
                  SetThreshold, EnableIRQ, DisableIRQ, ReadEna, ReadTime, StopTick,
                  RaiseSoft, Call
    <3>2. ASSUME NEW g \in Harts, TrapStep(g) PROVE trap'[h] # "tick"
      BY <1>1, <3>2 DEF TrapStep, Claim, Handler, Complete, Disable, Soft, ClearSoft,
                        Tick, Rearm, Return, TypeOK
    <3>3. ASSUME NEW g \in Harts, TakeTrap(g), g # h PROVE trap'[h] = trap[h]
      BY <1>1, <3>3, TrapTaken DEF TypeOK
    <3>4. CASE UNCHANGED vars \/ Time \/ \E s \in Sources : Request(s) \/ Gateway(s)
      BY <1>1, <3>4 DEF vars, Time, Request, Gateway
    <3>5. QED
      BY <1>1, <3>1, <3>2, <3>3, <3>4 DEF Next
  <2>2. Mtip(h)
    BY <1>1, <2>1, TrapTaken DEF TypeOK
  <2>3. h \in wanted /\ left[h] <= 0 /\ left[h] \in Int /\ since[h] \in 0..TickPeriod
    BY <1>1, <2>2 DEF Mtip, TickInv, TypeOK, Times
  <2>4. Spaced(left[h], h)
    BY <1>1, <2>3 DEF SpacingInv
  <2>5. QED
    BY <2>3, <2>4 DEF Spaced
<1>2. TypeOK /\ SpacingInv /\ TickInv /\ [Next]_vars =>
        [\A h \in Guarded : trap[h] = "none" /\ trap'[h] = "tick"
                              => since[h] = TickPeriod]_vars
  BY <1>1
<1>3. QED
  BY <1>2, Typing, SpacingInductive, TickEnable, PTL DEF Spec, TickSpacing
=============================================================================
