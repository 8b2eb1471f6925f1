----------------------------- MODULE BootProof -----------------------------
(***************************************************************************)
(* Proofs about the start-up handshake, for every number of harts, every   *)
(* RAM content without a stale handshake word and any number of resets     *)
(* that arrive after a completed boot; and of the refinement of Startup.   *)
(***************************************************************************)
EXTENDS Boot, TLAPS

LEMMA HartFacts ==
  /\ LastHart \in Nat /\ First = 0
  /\ First \in Harts /\ 1 \in Harts /\ 1 \in Others /\ First \notin Others
  /\ \A h \in Others : h \in Harts /\ h # First /\ h \in Nat
  /\ \A h \in Harts : h = First \/ h \in Others
  /\ \A h \in Harts : h \in Int /\ h # NoApp
BY BootAssumption DEF First, Harts, Others, NoApp

LEMMA PcFacts ==
  /\ \A l \in MainPc \cup OtherPc \cup E51Pc \cup U54Pc : l \in Pc
  /\ "reset" \in Pc /\ "dispatch" \in Pc
BY DEF Pc, AppPc

\* Every variable of the boot keeps its type.
THEOREM Typing == Spec => []TypeOK
<1> USE BootAssumption, HartFacts, PcFacts DEF MainPc, OtherPc, E51Pc, U54Pc, Goto
<1>1. Init => TypeOK
  BY DEF Init, TypeOK, WfiSm, Others, First
<1>2. TypeOK /\ [Next]_vars => TypeOK'
  <2> SUFFICES ASSUME TypeOK, [Next]_vars PROVE TypeOK'
    OBVIOUS
  <2>1. ASSUME MainStep PROVE TypeOK'
    <3> USE DEF TypeOK, WfiSm, Marks
    <3>1. CASE InitSystem
      BY <3>1 DEF InitSystem, Goto
    <3>2. CASE PublishStarted
      BY <3>2 DEF PublishStarted, Goto
    <3>3. CASE InitThread
      BY <3>3 DEF InitThread, Releasing
    <3>4. CASE CheckWfi
      BY <3>4 DEF CheckWfi, Releasing
    <3>5. CASE SendId
      BY <3>5 DEF SendId, Releasing, Goto, Harts
    <3>6. CASE SendIpi
      BY <3>6 DEF SendIpi, Goto, Harts
    <3>7. CASE CheckWake
      BY <3>7 DEF CheckWake, Releasing
    <3>8. CASE FinishInit
      BY <3>8 DEF FinishInit, Goto
    <3>9. CASE EnableFabric
      BY <3>9 DEF EnableFabric, Goto
    <3>10. CASE ClearLim
      BY <3>10 DEF ClearLim, Goto
    <3>11. QED
      BY <2>1, <3>1, <3>2, <3>3, <3>4, <3>5, <3>6, <3>7, <3>8, <3>9, <3>10 DEF MainStep
  <2>2. ASSUME NEW h \in Harts, HartStep(h) PROVE TypeOK'
    <3> USE DEF TypeOK, Marks
    <3>1. CASE ClearOwnHls(h)
      BY <3>1 DEF ClearOwnHls
    <3>2. CASE FlagInWfi(h)
      BY <3>2 DEF FlagInWfi
    <3>3. CASE WakeFromWfi(h)
      BY <3>3 DEF WakeFromWfi
    <3>4. CASE FlagPassed(h)
      BY <3>4 DEF FlagPassed
    <3>5. CASE Dispatch(h)
      BY <3>5 DEF Dispatch
    <3>6. CASE E51ClockOn(h)
      BY <3>6 DEF E51ClockOn
    <3>7. CASE E51UartInit(h)
      BY <3>7 DEF E51UartInit
    <3>8. CASE E51Greet(h)
      BY <3>8 DEF E51Greet
    <3>9. CASE E51Clear(h)
      BY <3>9 DEF E51Clear
    <3>10. CASE E51Raise(h)
      BY <3>10 DEF E51Raise
    <3>11. CASE U54Clear(h)
      BY <3>11 DEF U54Clear
    <3>12. CASE U54Wake(h)
      BY <3>12 DEF U54Wake
    <3>13. CASE U54Ack(h)
      BY <3>13 DEF U54Ack
    <3>14. CASE SeeMainStarted(h)
      BY <3>14 DEF SeeMainStarted
    <3>15. QED
      BY <2>2, <3>1, <3>2, <3>3, <3>4, <3>5, <3>6, <3>7, <3>8, <3>9, <3>10, <3>11, <3>12, <3>13,
         <3>14 DEF HartStep
  <2>3. CASE Reset
    BY <2>3 DEF Reset, TypeOK, WfiSm, First
  <2>4. CASE UNCHANGED vars
    BY <2>4 DEF vars, TypeOK
  <2>5. QED
    BY <2>1, <2>2, <2>3, <2>4 DEF Next
<1>3. QED
  BY <1>1, <1>2, PTL DEF Spec
\* The handshake invariant holds initially: every hart is still in reset.
LEMMA HandshakeInit ==
  ASSUME NoStaleHandshake, TypeOK, Init
  PROVE  HandshakeInv
BY HartFacts DEF Init, NoStaleHandshake, HandshakeInv, MainControl, OtherControl,
   ReleaseControl, AppControl, HandoverInv, Waiting, PassedPc, Preparing, AfterBoot,
   AppPc, E51Pc, U54Pc

\* Every step of hart 0's start-up code keeps the handshake invariant.
LEMMA HandshakeMain ==
  ASSUME TypeOK, HandshakeInv, MainStep
  PROVE  HandshakeInv'
<1> USE HartFacts DEF HandshakeInv, TypeOK, Waiting, PassedPc, Preparing, AfterBoot, AppPc, E51Pc, U54Pc
<1>1. CASE InitSystem
  <2> USE <1>1 DEF InitSystem, Goto
  <2>1. MainControl'
    BY DEF MainControl
  <2>2. \A k \in Others : OtherControl(k)'
    BY DEF OtherControl
  <2>3. \A k \in Others : ReleaseControl(k)'
    BY DEF MainControl, OtherControl, ReleaseControl, Untouched, BeingWoken, Acknowledged
  <2>4. \A k \in Harts : AppControl(k)'
    BY DEF MainControl, OtherControl, AppControl
  <2>5. HandoverInv'
    BY DEF MainControl, OtherControl, ReleaseControl, Acknowledged, HandoverInv
  <2>6. QED
    BY <2>1, <2>2, <2>3, <2>4, <2>5 DEF HandshakeInv
<1>2. CASE PublishStarted
  <2> USE <1>2 DEF PublishStarted, Goto
  <2>1. MainControl'
    BY DEF MainControl
  <2>2. \A k \in Others : OtherControl(k)'
    BY DEF OtherControl
  <2>3. \A k \in Others : ReleaseControl(k)'
    BY DEF MainControl, OtherControl, ReleaseControl, Untouched, BeingWoken, Acknowledged
  <2>4. \A k \in Harts : AppControl(k)'
    BY DEF MainControl, OtherControl, AppControl
  <2>5. HandoverInv'
    BY DEF MainControl, OtherControl, ReleaseControl, Acknowledged, HandoverInv
  <2>6. QED
    BY <2>1, <2>2, <2>3, <2>4, <2>5 DEF HandshakeInv
<1>3. CASE InitThread
  <2> USE <1>3 DEF InitThread, Releasing
  <2>1. MainControl'
    BY DEF MainControl
  <2>2. \A k \in Others : OtherControl(k)'
    BY DEF OtherControl
  <2>3. \A k \in Others : ReleaseControl(k)'
    BY DEF MainControl, OtherControl, ReleaseControl, Untouched, BeingWoken, Acknowledged
  <2>4. \A k \in Harts : AppControl(k)'
    BY DEF MainControl, OtherControl, AppControl
  <2>5. HandoverInv'
    BY DEF MainControl, OtherControl, ReleaseControl, Acknowledged, HandoverInv
  <2>6. QED
    BY <2>1, <2>2, <2>3, <2>4, <2>5 DEF HandshakeInv
<1>4. CASE CheckWfi
  <2> USE <1>4 DEF CheckWfi, Releasing
  <2>1. MainControl'
    BY DEF MainControl
  <2>2. \A k \in Others : OtherControl(k)'
    BY DEF OtherControl
  <2>3. \A k \in Others : ReleaseControl(k)'
    BY DEF MainControl, OtherControl, ReleaseControl, Untouched, BeingWoken, Acknowledged
  <2>4. \A k \in Harts : AppControl(k)'
    BY DEF MainControl, OtherControl, AppControl
  <2>5. HandoverInv'
    BY DEF MainControl, OtherControl, ReleaseControl, Acknowledged, HandoverInv
  <2>6. QED
    BY <2>1, <2>2, <2>3, <2>4, <2>5 DEF HandshakeInv
<1>5. CASE SendId
  <2> USE <1>5 DEF SendId, Releasing, Goto
  <2>1. MainControl'
    <3>1. hart_id \in Others
      BY DEF Others
    <3>2. QED
      BY <3>1 DEF MainControl
  <2>2. \A k \in Others : OtherControl(k)'
    BY DEF OtherControl
  <2>3. \A k \in Others : ReleaseControl(k)'
    BY DEF MainControl, OtherControl, ReleaseControl, Untouched, BeingWoken, Acknowledged
  <2>4. \A k \in Harts : AppControl(k)'
    BY DEF MainControl, OtherControl, AppControl
  <2>5. HandoverInv'
    BY DEF MainControl, OtherControl, ReleaseControl, Acknowledged, HandoverInv
  <2>6. QED
    BY <2>1, <2>2, <2>3, <2>4, <2>5 DEF HandshakeInv
<1>6. CASE SendIpi
  <2> USE <1>6 DEF SendIpi, Goto
  <2>1. MainControl'
    BY DEF MainControl
  <2>2. \A k \in Others : OtherControl(k)'
    BY DEF OtherControl
  <2>3. \A k \in Others : ReleaseControl(k)'
    BY DEF MainControl, OtherControl, ReleaseControl, Untouched, BeingWoken, Acknowledged
  <2>4. \A k \in Harts : AppControl(k)'
    BY DEF MainControl, OtherControl, AppControl
  <2>5. HandoverInv'
    BY DEF MainControl, OtherControl, ReleaseControl, Acknowledged, HandoverInv
  <2>6. QED
    BY <2>1, <2>2, <2>3, <2>4, <2>5 DEF HandshakeInv
<1>7. CASE CheckWake
  <2> USE <1>7 DEF CheckWake, Releasing
  <2>1. MainControl'
    BY DEF MainControl
  <2>2. \A k \in Others : OtherControl(k)'
    BY DEF OtherControl
  <2>3. \A k \in Others : ReleaseControl(k)'
    BY DEF MainControl, OtherControl, ReleaseControl, Untouched, BeingWoken, Acknowledged
  <2>4. \A k \in Harts : AppControl(k)'
    BY DEF MainControl, OtherControl, AppControl
  <2>5. HandoverInv'
    BY DEF MainControl, OtherControl, ReleaseControl, Acknowledged, HandoverInv
  <2>6. QED
    BY <2>1, <2>2, <2>3, <2>4, <2>5 DEF HandshakeInv
<1>8. CASE FinishInit
  <2> USE <1>8 DEF FinishInit, Goto
  <2>1. MainControl'
    BY DEF MainControl
  <2>2. \A k \in Others : OtherControl(k)'
    BY DEF OtherControl
  <2>3. \A k \in Others : ReleaseControl(k)'
    BY DEF Others, MainControl, OtherControl, ReleaseControl, Untouched, BeingWoken, Acknowledged
  <2>4. \A k \in Harts : AppControl(k)'
    BY DEF MainControl, OtherControl, AppControl
  <2>5. HandoverInv'
    BY DEF MainControl, OtherControl, ReleaseControl, Acknowledged, HandoverInv
  <2>6. QED
    BY <2>1, <2>2, <2>3, <2>4, <2>5 DEF HandshakeInv
<1>9. CASE EnableFabric
  <2> USE <1>9 DEF EnableFabric, Goto
  <2>1. MainControl'
    BY DEF MainControl
  <2>2. \A k \in Others : OtherControl(k)'
    BY DEF OtherControl
  <2>3. \A k \in Others : ReleaseControl(k)'
    BY DEF MainControl, OtherControl, ReleaseControl, Untouched, BeingWoken, Acknowledged
  <2>4. \A k \in Harts : AppControl(k)'
    BY DEF MainControl, OtherControl, AppControl
  <2>5. HandoverInv'
    BY DEF MainControl, OtherControl, ReleaseControl, Acknowledged, HandoverInv
  <2>6. QED
    BY <2>1, <2>2, <2>3, <2>4, <2>5 DEF HandshakeInv
<1>10. CASE ClearLim
  <2> USE <1>10 DEF ClearLim, Goto
  <2>1. MainControl'
    BY DEF MainControl
  <2>2. \A k \in Others : OtherControl(k)'
    BY DEF OtherControl, ReleaseControl
  <2>3. \A k \in Others : ReleaseControl(k)'
    BY DEF MainControl, OtherControl, ReleaseControl, Untouched, BeingWoken, Acknowledged
  <2>4. \A k \in Harts : AppControl(k)'
    BY DEF MainControl, OtherControl, AppControl
  <2>5. HandoverInv'
    BY DEF MainControl, OtherControl, ReleaseControl, Acknowledged, HandoverInv
  <2>6. QED
    BY <2>1, <2>2, <2>3, <2>4, <2>5 DEF HandshakeInv
<1>11. QED
  BY <1>1, <1>2, <1>3, <1>4, <1>5, <1>6, <1>7, <1>8, <1>9, <1>10 DEF MainStep

\* Every step of a hart's own code keeps the handshake invariant.
LEMMA HandshakeHart ==
  ASSUME TypeOK, HandshakeInv, NEW h \in Harts, HartStep(h)
  PROVE  HandshakeInv'
<1> USE HartFacts DEF HandshakeInv, TypeOK, Goto, Waiting, PassedPc, Preparing, AfterBoot, AppPc, E51Pc, U54Pc
<1>1. CASE ClearOwnHls(h)
  <2> USE <1>1 DEF ClearOwnHls
  <2>1. MainControl'
    <3>1. pc[First] = "ipi" => hart_id \in Others /\ hart_id # h
      BY DEF MainControl, ReleaseControl, Others
    <3>2. QED
      BY <3>1 DEF MainControl
  <2>2. \A k \in Others : OtherControl(k)'
    BY DEF OtherControl
  <2>3. \A k \in Others : ReleaseControl(k)'
    BY DEF MainControl, OtherControl, ReleaseControl, Untouched, BeingWoken, Acknowledged
  <2>4. \A k \in Harts : AppControl(k)'
    BY DEF MainControl, OtherControl, AppControl
  <2>5. HandoverInv'
    BY DEF MainControl, OtherControl, ReleaseControl, Acknowledged, HandoverInv
  <2>6. QED
    BY <2>1, <2>2, <2>3, <2>4, <2>5 DEF HandshakeInv
<1>2. CASE FlagInWfi(h)
  <2> USE <1>2 DEF FlagInWfi
  <2>1. MainControl'
    BY DEF MainControl
  <2>2. \A k \in Others : OtherControl(k)'
    BY DEF OtherControl
  <2>3. \A k \in Others : ReleaseControl(k)'
    BY DEF MainControl, OtherControl, ReleaseControl, Untouched, BeingWoken, Acknowledged
  <2>4. \A k \in Harts : AppControl(k)'
    BY DEF MainControl, OtherControl, AppControl
  <2>5. HandoverInv'
    BY DEF MainControl, OtherControl, ReleaseControl, Acknowledged, HandoverInv
  <2>6. QED
    BY <2>1, <2>2, <2>3, <2>4, <2>5 DEF HandshakeInv
<1>3. CASE WakeFromWfi(h)
  <2> USE <1>3 DEF WakeFromWfi
  <2>1. MainControl'
    BY DEF MainControl
  <2>2. \A k \in Others : OtherControl(k)'
    BY DEF OtherControl
  <2>3. \A k \in Others : ReleaseControl(k)'
    BY DEF MainControl, OtherControl, ReleaseControl, Untouched, BeingWoken, Acknowledged
  <2>4. \A k \in Harts : AppControl(k)'
    BY DEF MainControl, OtherControl, AppControl
  <2>5. HandoverInv'
    BY DEF MainControl, OtherControl, ReleaseControl, Acknowledged, HandoverInv
  <2>6. QED
    BY <2>1, <2>2, <2>3, <2>4, <2>5 DEF HandshakeInv
<1>4. CASE FlagPassed(h)
  <2> USE <1>4 DEF FlagPassed
  <2>1. MainControl'
    BY DEF MainControl
  <2>2. \A k \in Others : OtherControl(k)'
    <3>1. h \in Others
      BY DEF MainControl
    <3>2. my_hart_id[h] = h
      BY <3>1 DEF MainControl, ReleaseControl, Untouched, BeingWoken, Acknowledged, WfiSm
    <3>3. QED
      BY <3>1, <3>2 DEF OtherControl
  <2>3. \A k \in Others : ReleaseControl(k)'
    BY DEF MainControl, OtherControl, ReleaseControl, Untouched, BeingWoken, Acknowledged
  <2>4. \A k \in Harts : AppControl(k)'
    BY DEF MainControl, OtherControl, AppControl
  <2>5. HandoverInv'
    BY DEF MainControl, OtherControl, ReleaseControl, Acknowledged, HandoverInv
  <2>6. QED
    BY <2>1, <2>2, <2>3, <2>4, <2>5 DEF HandshakeInv
<1>5. CASE Dispatch(h)
  <2> USE <1>5 DEF Dispatch
  <2>1. MainControl'
    BY DEF MainControl
  <2>2. \A k \in Others : OtherControl(k)'
    BY DEF OtherControl
  <2>3. \A k \in Others : ReleaseControl(k)'
    BY DEF MainControl, OtherControl, ReleaseControl, Untouched, BeingWoken, Acknowledged
  <2>4. \A k \in Harts : AppControl(k)'
    BY DEF MainControl, OtherControl, AppControl
  <2>5. HandoverInv'
    BY DEF MainControl, OtherControl, ReleaseControl, Acknowledged, HandoverInv
  <2>6. QED
    BY <2>1, <2>2, <2>3, <2>4, <2>5 DEF HandshakeInv
<1>6. CASE E51ClockOn(h)
  <2> USE <1>6 DEF E51ClockOn
  <2>1. MainControl'
    BY DEF MainControl
  <2>2. \A k \in Others : OtherControl(k)'
    BY DEF OtherControl
  <2>3. \A k \in Others : ReleaseControl(k)'
    BY DEF MainControl, OtherControl, ReleaseControl, Untouched, BeingWoken, Acknowledged
  <2>4. \A k \in Harts : AppControl(k)'
    BY DEF MainControl, OtherControl, AppControl
  <2>5. HandoverInv'
    BY DEF MainControl, OtherControl, ReleaseControl, Acknowledged, HandoverInv
  <2>6. QED
    BY <2>1, <2>2, <2>3, <2>4, <2>5 DEF HandshakeInv
<1>7. CASE E51UartInit(h)
  <2> USE <1>7 DEF E51UartInit
  <2>1. MainControl'
    BY DEF MainControl
  <2>2. \A k \in Others : OtherControl(k)'
    BY DEF OtherControl
  <2>3. \A k \in Others : ReleaseControl(k)'
    BY DEF MainControl, OtherControl, ReleaseControl, Untouched, BeingWoken, Acknowledged
  <2>4. \A k \in Harts : AppControl(k)'
    BY DEF MainControl, OtherControl, AppControl
  <2>5. HandoverInv'
    BY DEF MainControl, OtherControl, ReleaseControl, Acknowledged, HandoverInv
  <2>6. QED
    BY <2>1, <2>2, <2>3, <2>4, <2>5 DEF HandshakeInv
<1>8. CASE E51Greet(h)
  <2> USE <1>8 DEF E51Greet
  <2>1. MainControl'
    BY DEF MainControl
  <2>2. \A k \in Others : OtherControl(k)'
    BY DEF OtherControl
  <2>3. \A k \in Others : ReleaseControl(k)'
    BY DEF MainControl, OtherControl, ReleaseControl, Untouched, BeingWoken, Acknowledged
  <2>4. \A k \in Harts : AppControl(k)'
    BY DEF MainControl, OtherControl, AppControl
  <2>5. HandoverInv'
    BY DEF MainControl, OtherControl, ReleaseControl, Acknowledged, HandoverInv
  <2>6. QED
    BY <2>1, <2>2, <2>3, <2>4, <2>5 DEF HandshakeInv
<1>9. CASE E51Clear(h)
  <2> USE <1>9 DEF E51Clear
  <2>1. MainControl'
    BY DEF MainControl
  <2>2. \A k \in Others : OtherControl(k)'
    BY DEF OtherControl
  <2>3. \A k \in Others : ReleaseControl(k)'
    BY DEF MainControl, OtherControl, ReleaseControl, Untouched, BeingWoken, Acknowledged
  <2>4. \A k \in Harts : AppControl(k)'
    BY DEF MainControl, OtherControl, AppControl
  <2>5. HandoverInv'
    BY DEF MainControl, OtherControl, ReleaseControl, Acknowledged, HandoverInv
  <2>6. QED
    BY <2>1, <2>2, <2>3, <2>4, <2>5 DEF HandshakeInv
<1>10. CASE E51Raise(h)
  <2> USE <1>10 DEF E51Raise
  <2>1. MainControl'
    BY DEF MainControl
  <2>2. \A k \in Others : OtherControl(k)'
    BY DEF OtherControl
  <2>3. \A k \in Others : ReleaseControl(k)'
    BY DEF MainControl, OtherControl, ReleaseControl, Untouched, BeingWoken, Acknowledged
  <2>4. \A k \in Harts : AppControl(k)'
    BY DEF MainControl, OtherControl, AppControl
  <2>5. HandoverInv'
    BY DEF MainControl, OtherControl, ReleaseControl, Acknowledged, HandoverInv
  <2>6. QED
    BY <2>1, <2>2, <2>3, <2>4, <2>5 DEF HandshakeInv
<1>11. CASE U54Clear(h)
  <2> USE <1>11 DEF U54Clear
  <2>1. MainControl'
    BY DEF MainControl
  <2>2. \A k \in Others : OtherControl(k)'
    BY DEF OtherControl
  <2>3. \A k \in Others : ReleaseControl(k)'
    BY DEF MainControl, OtherControl, ReleaseControl, Untouched, BeingWoken, Acknowledged
  <2>4. \A k \in Harts : AppControl(k)'
    BY DEF MainControl, OtherControl, AppControl
  <2>5. HandoverInv'
    BY DEF MainControl, OtherControl, ReleaseControl, Acknowledged, HandoverInv
  <2>6. QED
    BY <2>1, <2>2, <2>3, <2>4, <2>5 DEF HandshakeInv
<1>12. CASE U54Wake(h)
  <2> USE <1>12 DEF U54Wake
  <2>1. MainControl'
    BY DEF MainControl
  <2>2. \A k \in Others : OtherControl(k)'
    BY DEF OtherControl
  <2>3. \A k \in Others : ReleaseControl(k)'
    BY DEF MainControl, OtherControl, ReleaseControl, Untouched, BeingWoken, Acknowledged
  <2>4. \A k \in Harts : AppControl(k)'
    BY DEF MainControl, OtherControl, AppControl
  <2>5. HandoverInv'
    BY DEF MainControl, OtherControl, ReleaseControl, Acknowledged, HandoverInv
  <2>6. QED
    BY <2>1, <2>2, <2>3, <2>4, <2>5 DEF HandshakeInv
<1>13. CASE U54Ack(h)
  <2> USE <1>13 DEF U54Ack
  <2>1. MainControl'
    BY DEF MainControl
  <2>2. \A k \in Others : OtherControl(k)'
    BY DEF OtherControl
  <2>3. \A k \in Others : ReleaseControl(k)'
    BY DEF MainControl, OtherControl, ReleaseControl, Untouched, BeingWoken, Acknowledged
  <2>4. \A k \in Harts : AppControl(k)'
    BY DEF MainControl, OtherControl, AppControl
  <2>5. HandoverInv'
    BY DEF MainControl, OtherControl, ReleaseControl, Acknowledged, HandoverInv
  <2>6. QED
    BY <2>1, <2>2, <2>3, <2>4, <2>5 DEF HandshakeInv
<1>14. CASE SeeMainStarted(h)
  <2> USE <1>14 DEF SeeMainStarted
  <2>1. MainControl'
    BY DEF MainControl
  <2>2. \A k \in Others : OtherControl(k)'
    BY DEF OtherControl
  <2>3. \A k \in Others : ReleaseControl(k)'
    BY DEF MainControl, OtherControl, ReleaseControl, Untouched, BeingWoken, Acknowledged
  <2>4. \A k \in Harts : AppControl(k)'
    BY DEF MainControl, OtherControl, AppControl
  <2>5. HandoverInv'
    BY DEF MainControl, OtherControl, ReleaseControl, Acknowledged, HandoverInv
  <2>6. QED
    BY <2>1, <2>2, <2>3, <2>4, <2>5 DEF HandshakeInv
<1>15. QED
  BY <1>1, <1>2, <1>3, <1>4, <1>5, <1>6, <1>7, <1>8, <1>9, <1>10, <1>11, <1>12, <1>13, <1>14
     DEF HartStep

\* A reset after a completed boot keeps it too: what the boot left in the HLS
\* words ("fin_init" and "passed") is nothing a hart acts on.
LEMMA HandshakeReset ==
  ASSUME NoStaleHandshake, TypeOK, HandshakeInv, Reset
  PROVE  HandshakeInv'
<1> USE HartFacts DEF HandshakeInv, TypeOK, Waiting, PassedPc, Preparing, AfterBoot, AppPc, E51Pc, U54Pc
<1>1. Booted
  BY DEF Reset, NoStaleHandshake
<1>2. \A k \in Others : pc[k] \in PassedPc /\ mark[k] = "passed"
  BY <1>1 DEF Booted, MainControl, OtherControl, ReleaseControl, Acknowledged
<1>3. QED
  BY <1>1, <1>2 DEF Booted, Reset, MainControl, OtherControl, ReleaseControl, AppControl,
     HandoverInv

\* The handshake invariant holds in every reachable state.
THEOREM Handshake ==
  ASSUME NoStaleHandshake
  PROVE  Spec => []HandshakeInv
<1>1. TypeOK /\ Init => HandshakeInv
  BY HandshakeInit
<1>2. TypeOK /\ HandshakeInv /\ [Next]_vars => HandshakeInv'
  <2> SUFFICES ASSUME TypeOK, HandshakeInv, [Next]_vars PROVE HandshakeInv'
    OBVIOUS
  <2>1. CASE UNCHANGED vars
    BY <2>1 DEF vars, HandshakeInv, MainControl, OtherControl, ReleaseControl,
       AppControl, HandoverInv, Untouched, BeingWoken, Acknowledged
  <2>2. QED
    BY <2>1, HandshakeMain, HandshakeHart, HandshakeReset DEF Next
<1>3. QED
  BY <1>1, <1>2, Typing, PTL DEF Spec

\* Every hart runs its own application, hart 1 touches MMUART0 only after hart 0
\* has finished with it, and no hart reaches the start-up wfi loop before hart 0
\* has published.
THEOREM Safety ==
  ASSUME NoStaleHandshake
  PROVE  Spec => []BootSafety
<1>1. HandshakeInv => RunsOwnApplication
  BY DEF HandshakeInv, AppControl, RunsOwnApplication
<1>2. HandshakeInv => UartHandover
  BY HartFacts DEF HandshakeInv, HandoverInv, UartHandover
<1>3. HandshakeInv => WaitsForMainHart
  BY DEF HandshakeInv, ReleaseControl, WaitsForMainHart, Preparing
<1>4. HandshakeInv => BootSafety
  BY <1>1, <1>2, <1>3 DEF BootSafety
<1>5. QED
  BY <1>4, Handshake, PTL

\* Hart 0 raises the releasing interrupt of a hart only while it is in wfi.
THEOREM ReleaseFromWfi ==
  ASSUME NoStaleHandshake
  PROVE  Spec => ReleasedOnlyFromWfi
<1>1. HandshakeInv /\ [Next]_vars =>
        [\A h \in Others : SendIpi /\ hart_id = h => pc[h] = "wfi"]_vars
  BY DEF HandshakeInv, MainControl, ReleaseControl, SendIpi
<1>2. QED
  BY <1>1, Handshake, PTL DEF Spec, ReleasedOnlyFromWfi

-----------------------------------------------------------------------------
(* The start-up handshake implements the abstract start-up of module Startup. *)

\* What the abstraction sees of a state in which the handshake invariant holds.
LEMMA ConsoleFacts ==
  ASSUME TypeOK, HandshakeInv
  PROVE  /\ ConsoleHart = 1 <=> pc[1] \in {"u54_ack", "u54_run"}
         /\ ConsoleHart = 0 <=> /\ pc[1] \notin {"u54_ack", "u54_run"}
                                /\ pc[First] \in E51Pc \ {"e51_clk"}
         /\ ConsoleHart \in {0, 1, NoApp}
BY DEF ConsoleHart, First, NoApp

LEMMA MainStepRefines ==
  ASSUME TypeOK, HandshakeInv, MainStep
  PROVE  UNCHANGED <<ReleasedSet, app, ConsoleHart>>
<1> USE HartFacts DEF MainStep, ClearLim, InitSystem, PublishStarted, InitThread, CheckWfi, SendId,
        SendIpi, CheckWake, FinishInit, EnableFabric, Releasing, Goto
<1>1. app' = app /\ \A h \in Others : pc'[h] = pc[h]
  BY DEF TypeOK
<1>2. ReleasedSet' = ReleasedSet
  BY <1>1 DEF ReleasedSet, Released
<1>3. pc[First] \notin E51Pc /\ pc'[First] \notin E51Pc
  BY DEF TypeOK, E51Pc
<1>4. ConsoleHart' = ConsoleHart
  BY <1>1, <1>3 DEF ConsoleHart
<1>5. QED
  BY <1>1, <1>2, <1>4

\* Steps in which a hart moves on without changing what the abstraction sees.
LEMMA QuietStepRefines ==
  ASSUME TypeOK, HandshakeInv, NEW h \in Harts,
         \/ ClearOwnHls(h) \/ SeeMainStarted(h) \/ FlagInWfi(h) \/ FlagPassed(h)
         \/ E51UartInit(h) \/ E51Greet(h) \/ E51Clear(h) \/ E51Raise(h)
         \/ U54Clear(h) \/ U54Ack(h)
  PROVE  UNCHANGED <<ReleasedSet, app, ConsoleHart>>
<1> USE HartFacts DEF ClearOwnHls, SeeMainStarted, FlagInWfi, FlagPassed, E51UartInit, E51Greet,
        E51Clear, E51Raise, U54Clear, U54Ack, Goto, TypeOK
<1>1. app' = app
  OBVIOUS
<1>2. \A k \in Others : Released(k)' <=> Released(k)
  BY DEF Released, AppPc, E51Pc, U54Pc
<1>3. ReleasedSet' = ReleasedSet
  BY <1>2 DEF ReleasedSet
<1>4. /\ pc'[1] \in {"u54_ack", "u54_run"} <=> pc[1] \in {"u54_ack", "u54_run"}
      /\ pc'[First] \in E51Pc \ {"e51_clk"} <=> pc[First] \in E51Pc \ {"e51_clk"}
  BY DEF E51Pc, HandshakeInv, MainControl, Preparing, AfterBoot
<1>5. ConsoleHart' = ConsoleHart
  BY <1>4 DEF ConsoleHart
<1>6. QED
  BY <1>1, <1>3, <1>5

\* Leaving the start-up WFI is the abstract release, and it happens in order.
LEMMA WakeRefines ==
  ASSUME TypeOK, HandshakeInv, NEW h \in Harts, WakeFromWfi(h)
  PROVE  S!Release(h) /\ h \in Others
<1> USE HartFacts DEF TypeOK, WakeFromWfi, Goto
<1>1. h \in Others
  BY DEF HandshakeInv, MainControl, Preparing, AfterBoot, E51Pc
<1>2. \A k \in Others : k < h => Released(k)
  BY <1>1 DEF HandshakeInv, MainControl, ReleaseControl, Untouched, BeingWoken,
     Acknowledged, PassedPc, AppPc, Released, U54Pc, WfiSm
<1>3. ~Released(h) /\ Released(h)' /\ \A k \in Others : k # h => Released(k)' = Released(k)
  BY <1>1 DEF Released, AppPc, E51Pc, U54Pc
<1>4. ReleasedSet' = ReleasedSet \cup {h}
  BY <1>1, <1>3 DEF ReleasedSet
<1>5. 1..(h - 1) \subseteq ReleasedSet /\ h \notin ReleasedSet
  BY <1>1, <1>2, <1>3 DEF ReleasedSet, Others
<1>6. ConsoleHart' = ConsoleHart
  BY <1>1 DEF ConsoleHart
<1>7. QED
  BY <1>1, <1>4, <1>5, <1>6 DEF S!Release

\* Entering an application is the abstract start of the hart's own application.
LEMMA DispatchRefines ==
  ASSUME TypeOK, HandshakeInv, NEW h \in Harts, Dispatch(h)
  PROVE  S!Start(h)
<1> USE HartFacts DEF TypeOK, Dispatch, Goto
<1>1. app[h] = NoApp
  BY DEF HandshakeInv, AppControl, AppPc, E51Pc, U54Pc
<1>2. my_hart_id[h] = h
  BY DEF HandshakeInv, MainControl, OtherControl, PassedPc
<1>3. h \in ReleasedSet \/ (h = 0 /\ Others \subseteq ReleasedSet)
  BY DEF HandshakeInv, ReleaseControl, AfterBoot, Acknowledged, PassedPc, AppPc,
     ReleasedSet, Released
<1>4. \A k \in Others : Released(k)' = Released(k)
  BY DEF Released, AppPc, E51Pc, U54Pc
<1>5. ReleasedSet' = ReleasedSet
  BY <1>4 DEF ReleasedSet
<1>6. ConsoleHart' = ConsoleHart
  BY DEF ConsoleHart, E51Pc
<1>7. QED
  BY <1>1, <1>2, <1>3, <1>5, <1>6 DEF S!Start, S!Others, Others, S!NoApp, NoApp

\* Switching the UART clock on takes the console, waking hart 1 passes it on.
LEMMA ConsoleRefines ==
  ASSUME TypeOK, HandshakeInv, NEW h \in Harts, E51ClockOn(h) \/ U54Wake(h)
  PROVE  S!TakeConsole \/ S!PassConsole \/ UNCHANGED <<ReleasedSet, app, ConsoleHart>>
<1> USE HartFacts DEF TypeOK, E51ClockOn, U54Wake, Goto
<1>1. app' = app
  OBVIOUS
<1>2. \A k \in Others : Released(k)' <=> Released(k)
  BY DEF Released, AppPc, E51Pc, U54Pc
<1>3. ReleasedSet' = ReleasedSet
  BY <1>2 DEF ReleasedSet
<1>4. CASE E51ClockOn(h)
  <2>1. h = First /\ pc[First] = "e51_clk" /\ pc'[First] = "e51_uart_init" /\ pc'[1] = pc[1]
    BY <1>4 DEF HandshakeInv, OtherControl, Waiting, PassedPc, U54Pc
  <2>2. ConsoleHart = NoApp /\ ConsoleHart' = 0
    BY <2>1 DEF HandshakeInv, HandoverInv, ConsoleHart, E51Pc
  <2>3. app[0] = 0
    BY <2>1 DEF HandshakeInv, AppControl, AppPc, E51Pc
  <2>4. QED
    BY <1>1, <1>3, <2>2, <2>3 DEF S!TakeConsole, S!NoApp, NoApp
<1>5. CASE U54Wake(h) /\ h = 1
  <2>1. pc[1] = "u54_wfi" /\ pc'[1] = "u54_ack" /\ pc[First] = "e51_spin"
    BY <1>5 DEF HandshakeInv, HandoverInv
  <2>2. ConsoleHart = 0 /\ ConsoleHart' = 1
    BY <2>1 DEF ConsoleHart, E51Pc
  <2>3. app[1] = 1
    BY <2>1 DEF HandshakeInv, AppControl, AppPc, U54Pc
  <2>4. QED
    BY <1>1, <1>3, <2>2, <2>3 DEF S!PassConsole
<1>6. CASE U54Wake(h) /\ h # 1
  <2>1. pc'[1] = pc[1] /\ h # First
    BY <1>6 DEF HandshakeInv, MainControl, Preparing, AfterBoot, E51Pc
  <2>2. ConsoleHart' = ConsoleHart
    BY <1>6, <2>1 DEF ConsoleHart
  <2>3. QED
    BY <1>1, <1>3, <2>2
<1>7. QED
  BY <1>4, <1>5, <1>6

LEMMA ResetRefines ==
  ASSUME NoStaleHandshake, TypeOK, HandshakeInv, Reset
  PROVE  S!Restart
<1> USE HartFacts DEF TypeOK, Reset
<1>1. pc[First] \in E51Pc
  BY DEF NoStaleHandshake, Booted, HandshakeInv, MainControl, Preparing, AfterBoot, AppPc, U54Pc
<1>2. app[0] = 0
  BY <1>1 DEF HandshakeInv, AppControl, AppPc
<1>3. ReleasedSet' = {}
  BY DEF ReleasedSet, Released, AppPc, E51Pc, U54Pc
<1>4. ConsoleHart' = NoApp
  BY DEF ConsoleHart, E51Pc
<1>5. QED
  BY <1>2, <1>3, <1>4 DEF S!Restart, S!Harts, S!NoApp, Harts, NoApp

\* The boot implements the abstract start-up: the other harts are released in
\* order, each enters its own application, hart 0 last, and the console passes
\* from hart 0 to hart 1 only.
THEOREM Refinement ==
  ASSUME NoStaleHandshake
  PROVE  Spec => ImplementsStartup
<1>1. Init => S!Init
  BY HartFacts DEF Init, S!Init, ReleasedSet, Released, ConsoleHart, AppPc, E51Pc, U54Pc,
     S!Harts, S!NoApp, Harts, NoApp
<1>2. TypeOK /\ HandshakeInv /\ [Next]_vars => [S!Next]_S!vars
  <2> SUFFICES ASSUME TypeOK, HandshakeInv, [Next]_vars PROVE [S!Next]_S!vars
    OBVIOUS
  <2>1. CASE MainStep
    BY <2>1, MainStepRefines DEF S!vars
  <2>2. ASSUME NEW h \in Harts, HartStep(h) PROVE [S!Next]_S!vars
    <3>1. CASE WakeFromWfi(h)
      BY <3>1, WakeRefines DEF S!Next, S!Others, Others
    <3>2. CASE Dispatch(h)
      BY <3>2, DispatchRefines DEF S!Next, S!Harts, Harts
    <3>3. CASE E51ClockOn(h) \/ U54Wake(h)
      BY <3>3, ConsoleRefines DEF S!Next, S!vars
    <3>4. CASE ~(WakeFromWfi(h) \/ Dispatch(h) \/ E51ClockOn(h) \/ U54Wake(h))
      BY <2>2, <3>4, QuietStepRefines DEF HartStep, S!vars
    <3>5. QED
      BY <3>1, <3>2, <3>3, <3>4
  <2>3. CASE Reset
    BY <2>3, ResetRefines DEF S!Next
  <2>4. CASE UNCHANGED vars
    BY <2>4 DEF vars, S!vars, ReleasedSet, Released, ConsoleHart
  <2>5. QED
    BY <2>1, <2>2, <2>3, <2>4 DEF Next
<1>3. QED
  BY <1>1, <1>2, Typing, Handshake, PTL DEF Spec, ImplementsStartup, S!Spec
=============================================================================
