---------------------------- MODULE DriversProof ----------------------------
(***************************************************************************)
(* Proofs about the DDR training, for every memory type, number of lanes,   *)
(* range of delays and latencies, set of skipped stages and time-out; about *)
(* three drivers that hand work to a processor or a DMA of its own pace and *)
(* are told of its end by an interrupt: the eMMC/SD driver, for every       *)
(* number of transfers and of queued tasks, the system services driver, for *)
(* every number of requests, and the queues of the Ethernet MAC driver, for *)
(* every size of the rings, number of queues and of buffers; and at the end *)
(* about the six drivers of MCDrivers together.                             *)
(***************************************************************************)
EXTENDS MCDrivers, SpiUsbProof, FiniteSetTheorems, SequenceTheorems,
        WellFoundedInduction, TLAPS

------------------------------------------------------------------------------
(* The DDR training: the cases are taken together where one argument does   *)
(* for all of them.                                                         *)

USE DdrAssumption DEF DdrAssumption, At, Goto, errorVars, calVars, Uncalibrated, Poll, Configure,
    FailStates, LeaveAddcmd, AwaitStage, AfterStart, checkUnchanged, PassOn, GoOn, Test

CalTypes == [offset : 0..LastOffset, lane : DdrLanes, result : MtcErrors,
             status_lower : SUBSET DdrLanes, lower : [DdrLanes -> 0..LastOffset]]

\* The case that hands the memory over to the training IP and waits for its stages.
IpCase ==
  \/ IpSmStart \/ StartCheck \/ Lpddr4Start \/ Lpddr4ModeRegisters \/ Lpddr4Vref
  \/ Lpddr4Sweep \/ Lpddr4Finish
StageCase ==
  \/ AwaitBclksclk \/ AwaitAddcmd \/ AwaitWrlvl \/ AwaitRdgate \/ AwaitDqDqs \/ Verify
  \/ SetFinalMode
CalibrationCase == StartCalibration \/ CalibrateLane \/ CalibrationRetry
Environment == PllLocks \/ TipStage

LEMMA DdrCases ==
  DdrNext => \/ StartDdr \/ SetupCase \/ IpCase \/ StageCase \/ CalibrationCase \/ CheckCase
             \/ Environment
BY DEF DdrNext, DdrDriver, TrainingCase, IpCase, StageCase, CalibrationCase, Environment

LEMMA StagesAre ==
  /\ DOMAIN Stages = 1..7 /\ Stages[7] = "COMPLETE"
  /\ \A i \in 1..7 : Stages[i] \in StageSet
  /\ \A stage \in StageSet : \E i \in 1..7 : stage = Stages[i]
  /\ \A i, j \in 1..7 : Stages[i] = Stages[j] => i = j
BY DEF Stages, StageSet

\* One test of a lane, from what it makes of the lanes that have passed, of their
\* delays and of the result.
LaneStep(lanes, lower, result) ==
  LET next == [cal EXCEPT !.status_lower = lanes, !.lower = lower, !.result = result] IN
  \/ result = {} /\ cal' = next /\ phy' = SetWriteCalib(lower) /\ JudgeCalibration(result)
  \/ /\ cal.lane < LastLane /\ cal' = [next EXCEPT !.lane = cal.lane + 1]
     /\ UNCHANGED <<phy, ddr_training_state, errorVars>>
  \/ /\ cal.offset < LastOffset /\ cal' = [next EXCEPT !.lane = 0, !.offset = cal.offset + 1]
     /\ phy' = Try(cal.offset + 1) /\ UNCHANGED <<ddr_training_state, errorVars>>
  \/ result # {} /\ cal' = next /\ UNCHANGED phy /\ JudgeCalibration(result)

LEMMA LaneTested ==
  ASSUME cal \in CalTypes, CalibrateLane
  PROVE  \E lanes \in SUBSET DdrLanes, lower \in [DdrLanes -> 0..LastOffset], result \in MtcErrors :
           /\ LaneStep(lanes, lower, result)
           /\ result = {} => lanes = DdrLanes
           /\ \/ lanes = cal.status_lower /\ lower = cal.lower /\ proven' = proven
              \/ /\ lanes = cal.status_lower \cup {cal.lane}
                 /\ lower = IF cal.lane \in cal.status_lower THEN cal.lower
                            ELSE [cal.lower EXCEPT ![cal.lane] = cal.offset]
                 /\ proven' = proven \cup {<<cal.lane, cal.offset>>}
<1>1. PICK outcome \in MtcOutcomes(cal.result) :
        LET passed == outcome = {}
            lanes == cal.status_lower \cup (IF passed THEN {cal.lane} ELSE {})
            lower == IF passed /\ cal.lane \notin cal.status_lower
                     THEN [cal.lower EXCEPT ![cal.lane] = cal.offset] ELSE cal.lower
            result == IF passed /\ lanes # DdrLanes THEN {"M"} ELSE outcome
        IN /\ proven' = proven \cup (IF passed THEN {<<cal.lane, cal.offset>>} ELSE {})
           /\ LaneStep(lanes, lower, result)
  BY DEF CalibrateLane, LaneStep
<1> DEFINE passed == outcome = {}
           lanes == cal.status_lower \cup (IF passed THEN {cal.lane} ELSE {})
           lower == IF passed /\ cal.lane \notin cal.status_lower
                    THEN [cal.lower EXCEPT ![cal.lane] = cal.offset] ELSE cal.lower
           result == IF passed /\ lanes # DdrLanes THEN {"M"} ELSE outcome
<1>2. /\ cal.lane \in DdrLanes /\ cal.offset \in 0..LastOffset /\ cal.status_lower \subseteq DdrLanes
      /\ cal.lower \in [DdrLanes -> 0..LastOffset] /\ cal.result \in MtcErrors
  BY DEF CalTypes
<1>3. /\ lanes \in SUBSET DdrLanes /\ lower \in [DdrLanes -> 0..LastOffset]
      /\ result \in MtcErrors
  BY <1>2 DEF MtcOutcomes, MtcErrors
<1>4. result = {} => lanes = DdrLanes
  OBVIOUS
<1>5. LaneStep(lanes, lower, result)
  BY <1>1
<1>6. \/ lanes = cal.status_lower /\ lower = cal.lower /\ proven' = proven
      \/ /\ lanes = cal.status_lower \cup {cal.lane}
         /\ lower = IF cal.lane \in cal.status_lower THEN cal.lower
                    ELSE [cal.lower EXCEPT ![cal.lane] = cal.offset]
         /\ proven' = proven \cup {<<cal.lane, cal.offset>>}
  BY <1>1
<1> HIDE DEF lanes, lower, result
<1>7. QED
  BY <1>3, <1>4, <1>5, <1>6

LEMMA CalibrationTyped ==
  ASSUME cal \in CalTypes, CalibrationCase
  PROVE  cal' \in CalTypes
<1>1. CASE StartCalibration
  <2>1. cal' = [offset |-> 0, lane |-> 0, result |-> {}, status_lower |-> {}, lower |-> cal.lower]
    BY <1>1 DEF StartCalibration, CalTypes
  <2>2. cal.lower \in [DdrLanes -> 0..LastOffset] /\ 0 \in DdrLanes
    BY DEF CalTypes, DdrLanes
  <2>3. QED
    BY <2>1, <2>2 DEF CalTypes, MtcErrors
<1>2. CASE CalibrationRetry
  BY <1>2 DEF CalibrationRetry, NoCal, CalTypes, DdrLanes, MtcErrors
<1>3. CASE CalibrateLane
  <2>1. PICK lanes \in SUBSET DdrLanes, lower \in [DdrLanes -> 0..LastOffset], result \in MtcErrors :
          LaneStep(lanes, lower, result)
    BY <1>3, LaneTested
  <2> DEFINE next == [cal EXCEPT !.status_lower = lanes, !.lower = lower, !.result = result]
  <2>2. next \in CalTypes /\ next.lane = cal.lane /\ next.offset = cal.offset
    BY DEF CalTypes
  <2>3. /\ cal.lane < LastLane => cal.lane + 1 \in DdrLanes
        /\ cal.offset < LastOffset => cal.offset + 1 \in 0..LastOffset
        /\ 0 \in DdrLanes
    BY DEF CalTypes, DdrLanes
  <2>4. /\ \A l \in DdrLanes : [next EXCEPT !.lane = l] \in CalTypes
        /\ \A l \in DdrLanes, o \in 0..LastOffset : [next EXCEPT !.lane = l, !.offset = o] \in CalTypes
    BY <2>2 DEF CalTypes
  <2>5. \/ cal' = next
        \/ cal.lane < LastLane /\ cal' = [next EXCEPT !.lane = cal.lane + 1]
        \/ cal.offset < LastOffset /\ cal' = [next EXCEPT !.lane = 0, !.offset = cal.offset + 1]
    BY <2>1 DEF LaneStep
  <2> HIDE DEF next
  <2>6. QED
    BY <2>2, <2>3, <2>4, <2>5
<1>4. QED
  BY <1>1, <1>2, <1>3 DEF CalibrationCase

\* The calibration changes nothing in the registers but the delays.
LEMMA CalibrationDelays ==
  ASSUME cal \in CalTypes, CalibrationCase
  PROVE  UNCHANGED phy \/ \E w \in [DdrLanes -> 0..LastOffset] : phy' = SetWriteCalib(w)
<1>1. \A o \in 0..LastOffset : \E w \in [DdrLanes -> 0..LastOffset] : Try(o) = SetWriteCalib(w)
  <2>1. ASSUME NEW o \in 0..LastOffset
        PROVE  /\ [l \in DdrLanes |-> o] \in [DdrLanes -> 0..LastOffset]
               /\ Try(o) = SetWriteCalib([l \in DdrLanes |-> o])
    BY DEF Try, SetWriteCalib
  <2>2. QED
    BY <2>1
<1>2. CASE StartCalibration
  BY <1>1, <1>2 DEF StartCalibration
<1>3. CASE CalibrationRetry
  BY <1>3 DEF CalibrationRetry
<1>4. CASE CalibrateLane
  <2>1. PICK lanes \in SUBSET DdrLanes, lower \in [DdrLanes -> 0..LastOffset], result \in MtcErrors :
          LaneStep(lanes, lower, result)
    BY <1>4, LaneTested
  <2>2. cal.offset < LastOffset => cal.offset + 1 \in 0..LastOffset
    BY DEF CalTypes
  <2>3. QED
    BY <1>1, <2>1, <2>2 DEF LaneStep
<1>5. QED
  BY <1>2, <1>3, <1>4 DEF CalibrationCase

LEMMA DelaysTyped ==
  ASSUME phy \in PhyTypes, NEW w \in [DdrLanes -> 0..LastOffset]
  PROVE  SetWriteCalib(w) \in PhyTypes
BY DEF PhyTypes, SetWriteCalib


\* The registers.
LEMMA PhyTyped ==
  ASSUME phy \in PhyTypes, cal \in CalTypes, DdrNext
  PROVE  phy' \in PhyTypes
<1> USE DEF PhyTypes, DdrLanes
<1>1. CASE StartDdr
  BY <1>1 DEF StartDdr
<1>2. CASE SetupCase
  <2>1. CASE TrainingInit  BY <2>1 DEF TrainingInit
  <2>2. CASE FailureReported  BY <2>2 DEF FailureReported
  <2>3. CASE TrainingFail  BY <2>3 DEF TrainingFail
  <2>4. CASE CheckForOffmode
    <3>1. phy.pll \in {"off", "unlocked", "locked"} /\ phy.wrcalib \in [0..LastLane -> 0..LastOffset]
      OBVIOUS
    <3>2. CASE ddr_type = "OFF"  BY <2>4, <3>1, <3>2 DEF CheckForOffmode, DdrOffMode
    <3>3. CASE ddr_type # "OFF"  BY <2>4, <3>3 DEF CheckForOffmode
    <3>4. QED                    BY <3>2, <3>3
  <2>5. CASE SetModeVsBits  BY <2>5 DEF SetModeVsBits, SetDdrMode
  <2>6. CASE FlashRegs  BY <2>6 DEF FlashRegs
  <2>7. CASE CorrectRpc  BY <2>7 DEF CorrectRpc, SetDdrRpcRegs
  <2>8. CASE SoftReset  BY <2>8 DEF SoftReset
  <2>9. CASE CalibrateIo  BY <2>9 DEF CalibrateIo
  <2>10. CASE ConfigPll  BY <2>10 DEF ConfigPll, DdrPllConfig
  <2>11. CASE VerifyPllLock  BY <2>11 DEF VerifyPllLock
  <2>12. CASE SetupSegs  BY <2>12 DEF SetupSegs, SetupDdrSegments
  <2>13. CASE SetupDdrc  BY <2>13 DEF SetupDdrc, InitDdrc
  <2>14. CASE TrainingReset  BY <2>14 DEF TrainingReset
  <2>15. CASE RotateClk  BY <2>15 DEF RotateClk
  <2>16. CASE SetTrainingParameters  BY <2>16 DEF SetTrainingParameters
  <2>17. CASE BclkSclkSw  BY <2>17 DEF BclkSclkSw
  <2>18. CASE ManualAddcmd  BY <2>18 DEF ManualAddcmd
  <2>19. CASE CkPush  BY <2>19 DEF CkPush, CaPass
  <2>20. QED
    BY <1>2, <2>1, <2>2, <2>3, <2>4, <2>5, <2>6, <2>7, <2>8, <2>9, <2>10, <2>11, <2>12, <2>13,
       <2>14, <2>15, <2>16, <2>17, <2>18, <2>19 DEF SetupCase
<1>3. CASE IpCase
  <2>1. CASE IpSmStart  BY <2>1 DEF IpSmStart
  <2>2. CASE StartCheck  BY <2>2 DEF StartCheck
  <2>3. CASE Lpddr4Start  BY <2>3 DEF Lpddr4Start
  <2>4. CASE Lpddr4ModeRegisters  BY <2>4 DEF Lpddr4ModeRegisters
  <2>5. CASE Lpddr4Vref  BY <2>5 DEF Lpddr4Vref
  <2>6. CASE Lpddr4Sweep  BY <2>6 DEF Lpddr4Sweep, CaPass
  <2>7. CASE Lpddr4Finish  BY <2>7 DEF Lpddr4Finish
  <2>8. QED
    BY <1>3, <2>1, <2>2, <2>3, <2>4, <2>5, <2>6, <2>7 DEF IpCase
<1>4. CASE StageCase
  BY <1>4 DEF StageCase, AwaitBclksclk, AwaitAddcmd, AwaitWrlvl, AwaitRdgate, AwaitDqDqs, Verify,
     SetFinalMode
<1>5. CASE CalibrationCase
  <2>1. \/ UNCHANGED phy
        \/ \E w \in [DdrLanes -> 0..LastOffset] : phy' = SetWriteCalib(w)
    BY <1>5, CalibrationDelays
  <2>2. QED
    BY <2>1, DelaysTyped
<1>6. CASE CheckCase
  <2>1. CASE FinishCheck  BY <2>1 DEF FinishCheck, SetupDdrSegments
  <2>2. CASE ~FinishCheck
    BY <1>6, <2>2 DEF CheckCase, SweepCheck, SanityChecks, FullMtcCheck, Nc32Check, CacheCheck,
       LoadPatternSetup, LoadPattern, VerifyPattern, PatternGood, PatternBad, WrcCheck, Nc64Check,
       Cache64Check, Wrc64Check, VrefdqCalib, FpgaVrefdqCalib, InitAllMemory
  <2>3. QED
    BY <2>1, <2>2
<1>7. CASE Environment
  BY <1>7 DEF Environment, PllLocks, TipStage
<1>8. QED
  BY <1>1, <1>2, <1>3, <1>4, <1>5, <1>6, <1>7, DdrCases

\* The calibration.
LEMMA CalTyped ==
  ASSUME cal \in CalTypes, DdrNext
  PROVE  cal' \in CalTypes
<1> USE DEF CalTypes, NoCal, DdrLanes, MtcErrors
<1>1. CASE StartDdr
  BY <1>1 DEF StartDdr
<1>2. CASE SetupCase
  BY <1>2 DEF SetupCase, TrainingInit, FailureReported, TrainingFail, CheckForOffmode, DdrOffMode,
     SetModeVsBits, SetDdrMode, FlashRegs, CorrectRpc, SetDdrRpcRegs, SoftReset, CalibrateIo,
     ConfigPll, DdrPllConfig, VerifyPllLock, SetupSegs, SetupDdrSegments, SetupDdrc, InitDdrc,
     TrainingReset, RotateClk, SetTrainingParameters, BclkSclkSw, ManualAddcmd, CkPush, CaPass
<1>3. CASE IpCase
  BY <1>3 DEF IpCase, IpSmStart, StartCheck, Lpddr4Start, Lpddr4ModeRegisters, Lpddr4Vref,
     Lpddr4Sweep, CaPass, Lpddr4Finish
<1>4. CASE StageCase
  BY <1>4 DEF StageCase, AwaitBclksclk, AwaitAddcmd, AwaitWrlvl, AwaitRdgate, AwaitDqDqs, Verify,
     SetFinalMode
<1>5. CASE CalibrationCase
  BY <1>5, CalibrationTyped
<1>6. CASE CheckCase
  BY <1>6 DEF CheckCase, SweepCheck, SanityChecks, FullMtcCheck, Nc32Check, CacheCheck,
     LoadPatternSetup, LoadPattern, VerifyPattern, PatternGood, PatternBad, WrcCheck, Nc64Check,
     Cache64Check, Wrc64Check, VrefdqCalib, FpgaVrefdqCalib, InitAllMemory, FinishCheck,
     SetupDdrSegments
<1>7. CASE Environment
  BY <1>7 DEF Environment, PllLocks, TipStage
<1>8. QED
  BY <1>1, <1>2, <1>3, <1>4, <1>5, <1>6, <1>7, DdrCases

\* No poll counts a time-out below 0.
LEMMA TimeTyped ==
  ASSUME TimeLeft, ddr_timeout \in 0..DdrTimeout, DdrNext
  PROVE  ddr_timeout' \in 0..DdrTimeout
<1> USE DEF TimeLeft, Polls, Awaiting, Changing
<1>1. CASE StartDdr
  BY <1>1 DEF StartDdr
<1>2. CASE SetupCase
  BY <1>2 DEF SetupCase, TrainingInit, FailureReported, TrainingFail, CheckForOffmode, DdrOffMode,
     SetModeVsBits, SetDdrMode, FlashRegs, CorrectRpc, SetDdrRpcRegs, SoftReset, CalibrateIo,
     ConfigPll, DdrPllConfig, VerifyPllLock, SetupSegs, SetupDdrSegments, SetupDdrc, InitDdrc,
     TrainingReset, RotateClk, SetTrainingParameters, BclkSclkSw, ManualAddcmd, CkPush, CaPass
<1>3. CASE IpCase
  BY <1>3 DEF IpCase, IpSmStart, StartCheck, Lpddr4Start, Lpddr4ModeRegisters, Lpddr4Vref,
     Lpddr4Sweep, CaPass, Lpddr4Finish
<1>4. CASE StageCase
  BY <1>4 DEF StageCase, AwaitBclksclk, AwaitAddcmd, AwaitWrlvl, AwaitRdgate, AwaitDqDqs, Verify,
     SetFinalMode
<1>5. CASE CalibrationCase
  BY <1>5 DEF CalibrationCase, StartCalibration, Try, CalibrateLane, MtcOutcomes, SetWriteCalib,
     JudgeCalibration, CalibrationRetry
<1>6. CASE CheckCase
  BY <1>6 DEF CheckCase, SweepCheck, SanityChecks, FullMtcCheck, Nc32Check, CacheCheck,
     LoadPatternSetup, LoadPattern, VerifyPattern, PatternGood, PatternBad, WrcCheck, Nc64Check,
     Cache64Check, Wrc64Check, VrefdqCalib, FpgaVrefdqCalib, InitAllMemory, FinishCheck,
     SetupDdrSegments
<1>7. CASE Environment
  BY <1>7 DEF Environment, PllLocks, TipStage
<1>8. QED
  BY <1>1, <1>2, <1>3, <1>4, <1>5, <1>6, <1>7, DdrCases

LEMMA TimeLeftKept ==
  ASSUME TimeLeft, ddr_timeout \in 0..DdrTimeout, DdrNext
  PROVE  TimeLeft'
<1> USE DEF TimeLeft, Polls, Awaiting, Changing
<1>1. CASE StartDdr
  BY <1>1 DEF StartDdr
<1>2. CASE SetupCase
  BY <1>2 DEF SetupCase, TrainingInit, FailureReported, TrainingFail, CheckForOffmode, DdrOffMode,
     SetModeVsBits, SetDdrMode, FlashRegs, CorrectRpc, SetDdrRpcRegs, SoftReset, CalibrateIo,
     ConfigPll, DdrPllConfig, VerifyPllLock, SetupSegs, SetupDdrSegments, SetupDdrc, InitDdrc,
     TrainingReset, RotateClk, SetTrainingParameters, BclkSclkSw, ManualAddcmd, CkPush, CaPass
<1>3. CASE IpCase
  BY <1>3 DEF IpCase, IpSmStart, StartCheck, Lpddr4Start, Lpddr4ModeRegisters, Lpddr4Vref,
     Lpddr4Sweep, CaPass, Lpddr4Finish
<1>4. CASE StageCase
  BY <1>4 DEF StageCase, AwaitBclksclk, AwaitAddcmd, AwaitWrlvl, AwaitRdgate, AwaitDqDqs, Verify,
     SetFinalMode
<1>5. CASE CalibrationCase
  BY <1>5 DEF CalibrationCase, StartCalibration, Try, CalibrateLane, MtcOutcomes, SetWriteCalib,
     JudgeCalibration, CalibrationRetry
<1>6. CASE CheckCase
  BY <1>6 DEF CheckCase, SweepCheck, SanityChecks, FullMtcCheck, Nc32Check, CacheCheck,
     LoadPatternSetup, LoadPattern, VerifyPattern, PatternGood, PatternBad, WrcCheck, Nc64Check,
     Cache64Check, Wrc64Check, VrefdqCalib, FpgaVrefdqCalib, InitAllMemory, FinishCheck,
     SetupDdrSegments
<1>7. CASE Environment
  BY <1>7 DEF Environment, PllLocks, TipStage
<1>8. QED
  BY <1>1, <1>2, <1>3, <1>4, <1>5, <1>6, <1>7, DdrCases

OthersOK ==
  /\ ddr_type \in DdrTypes /\ nwc \in {"start", "loop", "ok", "error"}
  /\ ddr_error \in MtcErrors /\ ddr_error_count \in Nat
  /\ rpc_166_retires \in 0..RpcValues /\ wrlat \in 0..LastLatency /\ ca_del \in 0..CaLimit + 2
  /\ tip \subseteq StageSet /\ proven \subseteq DdrLanes \X (0..LastOffset)

\* The rest.
LEMMA OthersTyped ==
  ASSUME OthersOK, cal \in CalTypes, DdrNext
  PROVE  OthersOK'
<1> USE DEF OthersOK, CalTypes, MtcErrors
<1>1. CASE StartDdr
  BY <1>1 DEF StartDdr
<1>2. CASE SetupCase
  BY <1>2 DEF SetupCase, TrainingInit, FailureReported, TrainingFail, CheckForOffmode, DdrOffMode,
     SetModeVsBits, SetDdrMode, FlashRegs, CorrectRpc, SetDdrRpcRegs, SoftReset, CalibrateIo,
     ConfigPll, DdrPllConfig, VerifyPllLock, SetupSegs, SetupDdrSegments, SetupDdrc, InitDdrc,
     TrainingReset, RotateClk, SetTrainingParameters, BclkSclkSw, ManualAddcmd, CkPush, CaPass
<1>3. CASE IpCase
  BY <1>3 DEF IpCase, IpSmStart, StartCheck, Lpddr4Start, Lpddr4ModeRegisters, Lpddr4Vref,
     Lpddr4Sweep, CaPass, Lpddr4Finish
<1>4. CASE StageCase
  BY <1>4 DEF StageCase, AwaitBclksclk, AwaitAddcmd, AwaitWrlvl, AwaitRdgate, AwaitDqDqs, Verify,
     SetFinalMode
<1>5. CASE CalibrationCase
  <2>1. CASE StartCalibration  BY <2>1 DEF StartCalibration, Try
  <2>2. CASE CalibrateLane  BY <2>2 DEF CalibrateLane, MtcOutcomes, SetWriteCalib,
     JudgeCalibration, Try
  <2>3. CASE CalibrationRetry  BY <2>3 DEF CalibrationRetry
  <2>4. QED
    BY <1>5, <2>1, <2>2, <2>3 DEF CalibrationCase
<1>6. CASE CheckCase
  BY <1>6 DEF CheckCase, SweepCheck, SanityChecks, FullMtcCheck, Nc32Check, CacheCheck,
     LoadPatternSetup, LoadPattern, VerifyPattern, PatternGood, PatternBad, WrcCheck, Nc64Check,
     Cache64Check, Wrc64Check, VrefdqCalib, FpgaVrefdqCalib, InitAllMemory, FinishCheck,
     SetupDdrSegments
<1>7. CASE Environment
  <2>1. CASE PllLocks  BY <2>1 DEF PllLocks
  <2>2. CASE TipStage  BY <2>2, StagesAre DEF TipStage
  <2>3. QED            BY <1>7, <2>1, <2>2 DEF Environment
<1>8. QED
  BY <1>1, <1>2, <1>3, <1>4, <1>5, <1>6, <1>7, DdrCases

LEMMA DdrTyped ==
  ASSUME DdrTypeOK, TimeLeft, [DdrNext]_ddrVars
  PROVE  DdrTypeOK' /\ TimeLeft'
<1>1. phy \in PhyTypes /\ cal \in CalTypes /\ ddr_timeout \in 0..DdrTimeout /\ OthersOK
  BY DEF DdrTypeOK, CalTypes, OthersOK
<1>2. CASE DdrNext
  <2>1. phy' \in PhyTypes /\ cal' \in CalTypes /\ ddr_timeout' \in 0..DdrTimeout /\ OthersOK' /\ TimeLeft'
    BY <1>1, <1>2, PhyTyped, CalTyped, TimeTyped, TimeLeftKept, OthersTyped
  <2>2. QED
    BY <2>1 DEF DdrTypeOK, CalTypes, OthersOK
<1>3. CASE UNCHANGED ddrVars
  BY <1>3 DEF ddrVars, DdrTypeOK, TimeLeft
<1>4. QED
  BY <1>2, <1>3

\* The training IP completes its stages in their order.
LEMMA TipOrderKept ==
  ASSUME TipInOrder, DdrNext
  PROVE  TipInOrder'
<1> USE DEF TipInOrder
<1>1. CASE StartDdr
  BY <1>1 DEF StartDdr
<1>2. CASE SetupCase
  BY <1>2 DEF SetupCase, TrainingInit, FailureReported, TrainingFail, CheckForOffmode, DdrOffMode,
     SetModeVsBits, SetDdrMode, FlashRegs, CorrectRpc, SetDdrRpcRegs, SoftReset, CalibrateIo,
     ConfigPll, DdrPllConfig, VerifyPllLock, SetupSegs, SetupDdrSegments, SetupDdrc, InitDdrc,
     TrainingReset, RotateClk, SetTrainingParameters, BclkSclkSw, ManualAddcmd, CkPush, CaPass
<1>3. CASE IpCase
  BY <1>3 DEF IpCase, IpSmStart, StartCheck, Lpddr4Start, Lpddr4ModeRegisters, Lpddr4Vref,
     Lpddr4Sweep, CaPass, Lpddr4Finish
<1>4. CASE StageCase
  BY <1>4 DEF StageCase, AwaitBclksclk, AwaitAddcmd, AwaitWrlvl, AwaitRdgate, AwaitDqDqs, Verify,
     SetFinalMode
<1>5. CASE CalibrationCase
  BY <1>5 DEF CalibrationCase, StartCalibration, Try, CalibrateLane, MtcOutcomes, SetWriteCalib,
     JudgeCalibration, CalibrationRetry
<1>6. CASE CheckCase
  BY <1>6 DEF CheckCase, SweepCheck, SanityChecks, FullMtcCheck, Nc32Check, CacheCheck,
     LoadPatternSetup, LoadPattern, VerifyPattern, PatternGood, PatternBad, WrcCheck, Nc64Check,
     Cache64Check, Wrc64Check, VrefdqCalib, FpgaVrefdqCalib, InitAllMemory, FinishCheck,
     SetupDdrSegments
<1>7. CASE Environment
  <2>1. CASE PllLocks  BY <2>1 DEF PllLocks
  <2>2. CASE TipStage
    <3>1. PICK i \in 1..7 : /\ \A j \in 1..i - 1 : Stages[j] \in tip \cup Skip
                            /\ tip' = tip \cup {Stages[i]}
      BY <2>2, StagesAre DEF TipStage
    <3>2. QED
      BY <3>1, StagesAre
  <2>3. QED            BY <1>7, <2>1, <2>2 DEF Environment
<1>8. QED
  BY <1>1, <1>2, <1>3, <1>4, <1>5, <1>6, <1>7, DdrCases

\* The result is given once, at the end of an attempt.
LEMMA ResultsKept ==
  ASSUME Results, phy \in PhyTypes, DdrNext
  PROVE  Results'
<1> USE DEF Results, PhyTypes
<1>1. CASE StartDdr
  BY <1>1 DEF StartDdr
<1>2. CASE SetupCase
  <2>1. CASE CheckForOffmode  BY <2>1 DEF CheckForOffmode, DdrOffMode
  <2>2. CASE ~CheckForOffmode
    BY <1>2, <2>2 DEF SetupCase, TrainingInit, FailureReported, TrainingFail, SetModeVsBits,
       SetDdrMode, FlashRegs, CorrectRpc, SetDdrRpcRegs, SoftReset, CalibrateIo, ConfigPll,
       DdrPllConfig, VerifyPllLock, SetupSegs, SetupDdrSegments, SetupDdrc, InitDdrc,
       TrainingReset, RotateClk, SetTrainingParameters, BclkSclkSw, ManualAddcmd, CkPush, CaPass
  <2>3. QED
    BY <2>1, <2>2
<1>3. CASE IpCase
  BY <1>3 DEF IpCase, IpSmStart, StartCheck, Lpddr4Start, Lpddr4ModeRegisters, Lpddr4Vref,
     Lpddr4Sweep, CaPass, Lpddr4Finish
<1>4. CASE StageCase
  BY <1>4 DEF StageCase, AwaitBclksclk, AwaitAddcmd, AwaitWrlvl, AwaitRdgate, AwaitDqDqs, Verify,
     SetFinalMode
<1>5. CASE CalibrationCase
  <2>1. CASE StartCalibration  BY <2>1 DEF StartCalibration, Try
  <2>2. CASE CalibrateLane  BY <2>2 DEF CalibrateLane, MtcOutcomes, SetWriteCalib,
     JudgeCalibration, Try
  <2>3. CASE CalibrationRetry  BY <2>3 DEF CalibrationRetry
  <2>4. QED
    BY <1>5, <2>1, <2>2, <2>3 DEF CalibrationCase
<1>6. CASE CheckCase
  BY <1>6 DEF CheckCase, SweepCheck, SanityChecks, FullMtcCheck, Nc32Check, CacheCheck,
     LoadPatternSetup, LoadPattern, VerifyPattern, PatternGood, PatternBad, WrcCheck, Nc64Check,
     Cache64Check, Wrc64Check, VrefdqCalib, FpgaVrefdqCalib, InitAllMemory, FinishCheck,
     SetupDdrSegments
<1>7. CASE Environment
  BY <1>7 DEF Environment, PllLocks, TipStage
<1>8. QED
  BY <1>1, <1>2, <1>3, <1>4, <1>5, <1>6, <1>7, DdrCases

\* A lane that has passed passed with the delay written down for it, and the
\* calibration ends well with every lane passed.
LEMMA CalibratedLane ==
  ASSUME DdrInv, CalibrateLane
  PROVE  Achieved'
<1>1. /\ phy \in PhyTypes /\ cal \in CalTypes
      /\ cal.lane \in DdrLanes /\ cal.status_lower \subseteq DdrLanes
      /\ cal.lower \in [DdrLanes -> 0..LastOffset]
  BY DEF DdrInv, DdrTypeOK, CalTypes
<1>2. PICK lanes \in SUBSET DdrLanes, lower \in [DdrLanes -> 0..LastOffset], result \in MtcErrors :
        /\ LaneStep(lanes, lower, result)
        /\ result = {} => lanes = DdrLanes
        /\ \/ lanes = cal.status_lower /\ lower = cal.lower /\ proven' = proven
           \/ /\ lanes = cal.status_lower \cup {cal.lane}
              /\ lower = IF cal.lane \in cal.status_lower THEN cal.lower
                         ELSE [cal.lower EXCEPT ![cal.lane] = cal.offset]
              /\ proven' = proven \cup {<<cal.lane, cal.offset>>}
  BY <1>1, LaneTested
<1>3. /\ ddr_training_state = "calibrate" /\ tip' = tip
      /\ \A l \in cal.status_lower : <<l, cal.lower[l]>> \in proven
  BY DEF CalibrateLane, DdrInv, Achieved
<1>4. \A l \in lanes : <<l, lower[l]>> \in proven'
  BY <1>1, <1>2, <1>3
<1>5. /\ phy'.io = phy.io /\ phy'.pll = phy.pll /\ phy'.speed = phy.speed
      /\ phy'.dram = phy.dram /\ phy'.phase = phy.phase /\ phy'.dpc = phy.dpc
      /\ phy'.mode = phy.mode
  BY <1>1, <1>2 DEF LaneStep, PhyTypes, Try, SetWriteCalib
<1>6. \/ ddr_training_state' = "calibrate" /\ cal'.status_lower = lanes /\ cal'.lower = lower
      \/ ddr_training_state' = "SWEEP_CHECK" /\ lanes = DdrLanes /\ phy'.wrcalib = lower
      \/ ddr_training_state' \in {"FAIL_DDR_SANITY_CHECKS", "WRITE_CALIBRATION_RETRY"}
  BY <1>1, <1>2, <1>3 DEF LaneStep, JudgeCalibration, SetWriteCalib, PhyTypes, CalTypes
<1>7. QED
  BY <1>3, <1>4, <1>5, <1>6 DEF DdrInv, Achieved, Checks, InFinalMode, Completed, Levelled, Awaiting, Changing,
     Starting, Aligned, Running, Clocked, Corrected


\* What an attempt has achieved stays, and each case adds its part.
LEMMA AchievedKept ==
  ASSUME DdrInv, DdrTypeOK', DdrNext
  PROVE  Achieved'
<1> USE DEF DdrInv, Achieved, Checks, InFinalMode, Completed, Levelled, Awaiting, Changing,
   Starting, Aligned, Running, Clocked, Corrected, DdrTypeOK, PhyTypes
<1>1. CASE StartDdr
  BY <1>1 DEF StartDdr
<1>2. CASE SetupCase
  <2>1. CASE TrainingInit  BY <2>1 DEF TrainingInit
  <2>2. CASE FailureReported  BY <2>2 DEF FailureReported
  <2>3. CASE TrainingFail  BY <2>3 DEF TrainingFail
  <2>4. CASE CheckForOffmode  BY <2>4 DEF CheckForOffmode, DdrOffMode
  <2>5. CASE SetModeVsBits  BY <2>5 DEF SetModeVsBits, SetDdrMode
  <2>6. CASE FlashRegs  BY <2>6 DEF FlashRegs
  <2>7. CASE CorrectRpc  BY <2>7 DEF CorrectRpc, SetDdrRpcRegs
  <2>8. CASE SoftReset  BY <2>8 DEF SoftReset
  <2>9. CASE CalibrateIo  BY <2>9 DEF CalibrateIo
  <2>10. CASE ConfigPll  BY <2>10 DEF ConfigPll, DdrPllConfig
  <2>11. CASE VerifyPllLock  BY <2>11 DEF VerifyPllLock
  <2>12. CASE SetupSegs  BY <2>12 DEF SetupSegs, SetupDdrSegments
  <2>13. CASE SetupDdrc  BY <2>13 DEF SetupDdrc, InitDdrc
  <2>14. CASE TrainingReset  BY <2>14 DEF TrainingReset
  <2>15. CASE RotateClk  BY <2>15 DEF RotateClk
  <2>16. CASE SetTrainingParameters  BY <2>16 DEF SetTrainingParameters
  <2>17. CASE BclkSclkSw  BY <2>17 DEF BclkSclkSw
  <2>18. CASE ManualAddcmd  BY <2>18 DEF ManualAddcmd
  <2>19. CASE CkPush  BY <2>19 DEF CkPush, CaPass
  <2>20. QED
    BY <1>2, <2>1, <2>2, <2>3, <2>4, <2>5, <2>6, <2>7, <2>8, <2>9, <2>10, <2>11, <2>12, <2>13,
       <2>14, <2>15, <2>16, <2>17, <2>18, <2>19 DEF SetupCase
<1>3. CASE IpCase
  <2>1. CASE IpSmStart  BY <2>1 DEF IpSmStart
  <2>2. CASE StartCheck  BY <2>2 DEF StartCheck
  <2>3. CASE Lpddr4Start  BY <2>3 DEF Lpddr4Start
  <2>4. CASE Lpddr4ModeRegisters  BY <2>4 DEF Lpddr4ModeRegisters
  <2>5. CASE Lpddr4Vref  BY <2>5 DEF Lpddr4Vref
  <2>6. CASE Lpddr4Sweep  BY <2>6 DEF Lpddr4Sweep, CaPass
  <2>7. CASE Lpddr4Finish  BY <2>7 DEF Lpddr4Finish
  <2>8. QED
    BY <1>3, <2>1, <2>2, <2>3, <2>4, <2>5, <2>6, <2>7 DEF IpCase
<1>4. CASE StageCase
  BY <1>4 DEF StageCase, AwaitBclksclk, AwaitAddcmd, AwaitWrlvl, AwaitRdgate, AwaitDqDqs, Verify,
     SetFinalMode
<1>5. CASE CalibrationCase
  <2>1. CASE StartCalibration  BY <2>1 DEF StartCalibration, Try
  <2>2. CASE CalibrateLane
    BY <2>2, CalibratedLane
  <2>3. CASE CalibrationRetry  BY <2>3 DEF CalibrationRetry
  <2>4. QED
    BY <1>5, <2>1, <2>2, <2>3 DEF CalibrationCase
<1>6. CASE CheckCase
  BY <1>6 DEF CheckCase, SweepCheck, SanityChecks, FullMtcCheck, Nc32Check, CacheCheck,
     LoadPatternSetup, LoadPattern, VerifyPattern, PatternGood, PatternBad, WrcCheck, Nc64Check,
     Cache64Check, Wrc64Check, VrefdqCalib, FpgaVrefdqCalib, InitAllMemory, FinishCheck,
     SetupDdrSegments
<1>7. CASE Environment
  BY <1>7 DEF Environment, PllLocks, TipStage
<1>8. QED
  BY <1>1, <1>2, <1>3, <1>4, <1>5, <1>6, <1>7, DdrCases

LEMMA DdrInductive ==
  ASSUME DdrInv, [DdrNext]_ddrVars
  PROVE  DdrInv'
<1>1. DdrTypeOK' /\ TimeLeft'
  BY DdrTyped DEF DdrInv
<1>2. CASE DdrNext
  BY <1>1, <1>2, AchievedKept, TipOrderKept, ResultsKept DEF DdrInv, DdrTypeOK
<1>3. CASE UNCHANGED ddrVars
  BY <1>1, <1>3 DEF ddrVars, DdrInv, Achieved, TipInOrder, Results
<1>4. QED
  BY <1>2, <1>3

LEMMA DdrInitially == DdrInit => DdrInv
<1> SUFFICES ASSUME DdrInit PROVE DdrInv
  OBVIOUS
<1>1. DdrTypeOK
  BY DEF DdrInit, DdrTypeOK, PhyTypes, NoCal, DdrLanes, MtcErrors
<1>2. Achieved
  BY DEF DdrInit, Achieved, Checks, InFinalMode, Completed, Levelled, Awaiting, Changing, Starting,
     Aligned, Running, Clocked, Corrected
<1>3. TipInOrder /\ TimeLeft /\ Results
  BY DEF DdrInit, TipInOrder, TimeLeft, Polls, Awaiting, Changing, Results
<1>4. QED
  BY <1>1, <1>2, <1>3 DEF DdrInv

\* A finished training has every part of what it promises.
LEMMA FinishedIsReady == DdrInv => DdrReady
<1> SUFFICES ASSUME DdrInv PROVE DdrReady
  OBVIOUS
<1>1. phy.segs = "libero" <=> nwc = "ok" /\ ddr_type # "OFF"
  BY DEF DdrInv, Results
<1>2. ASSUME phy.segs = "libero" PROVE Trained
  <2>1. ddr_training_state = "FINISHED"
    BY <1>1, <1>2 DEF DdrInv, Results
  <2>2. /\ phy.pll = "locked" /\ phy.speed = "full" /\ phy.phase = "aligned"
        /\ phy.io = "corrected" /\ phy.mode = "final" /\ phy.dpc = "final"
        /\ phy.dram = "running" /\ "COMPLETE" \in tip
        /\ \A l \in DdrLanes : <<l, phy.wrcalib[l]>> \in proven
    BY <2>1 DEF DdrInv, Achieved, Checks, InFinalMode, Completed, Levelled, Awaiting, Changing,
       Starting, Aligned, Running, Clocked, Corrected
  <2>3. \A j \in 1..7 - 1 : Stages[j] \in tip \cup Skip
    BY <2>2, StagesAre DEF DdrInv, TipInOrder
  <2>4. StageSet \subseteq tip \cup Skip
    <3>1. \A i \in 1..7 : i = 7 \/ i \in 1..7 - 1
      OBVIOUS
    <3>2. QED
      BY <2>2, <2>3, <3>1, StagesAre
  <2>5. QED
    BY <2>2, <2>4 DEF Trained
<1>3. QED
  BY <1>1, <1>2 DEF DdrReady

\* What the training keeps about the registers, the calibration and its
\* time-outs stays in its types: no time-out is counted below 0 and no address
\* delay beyond its limit.
THEOREM DdrTyping == DdrSpec => []DdrTypeOK
<1>1. DdrInv /\ [DdrNext]_ddrVars => DdrInv'
  BY DdrInductive
<1>2. DdrInv => DdrTypeOK
  BY DEF DdrInv
<1>3. QED
  BY <1>1, <1>2, DdrInitially, PTL DEF DdrSpec

\* The result of mss_nwc_init_ddr() is true of the hardware, however many
\* attempts failed before and wherever they did.
THEOREM TrainingIsTrue == DdrSpec => []DdrReady
<1>1. DdrInv /\ [DdrNext]_ddrVars => DdrInv'
  BY DdrInductive
<1>2. QED
  BY <1>1, DdrInitially, FinishedIsReady, PTL DEF DdrSpec

HIDE DdrAssumption DEF DdrAssumption, At, Goto, errorVars, calVars, Uncalibrated, Poll, Configure,
    FailStates, LeaveAddcmd, AwaitStage, AfterStart, checkUnchanged, PassOn, GoOn, Test

------------------------------------------------------------------------------
\* The eMMC/SD driver.

\* Sets of tasks are finite, and a completed task is one task less.
LEMMA TasksAreCounted ==
  ASSUME NEW T \in SUBSET (1..CqTasks)
  PROVE  /\ Cardinality(T) \in Nat
         /\ Cardinality(T) = 0 <=> T = {}
         /\ \A t \in T : Cardinality(T \ {t}) = Cardinality(T) - 1
<1>1. IsFiniteSet(1..CqTasks)
  BY FS_Interval, MmcAssumption DEF MmcAssumption
<1>2. IsFiniteSet(T)
  BY <1>1, FS_Subset
<1>3. QED
  BY <1>2, FS_CardinalityType, FS_EmptySet, FS_RemoveElement

\* The doorbell starts as many tasks as the driver will count.
LEMMA DoorbellCounted ==
  ASSUME NEW n \in 1..CqTasks
  PROVE  1..n \in SUBSET (1..CqTasks) /\ Cardinality(1..n) = n
<1>1. n \in Nat /\ n >= 1 /\ n <= CqTasks
  BY MmcAssumption DEF MmcAssumption
<1>2. Cardinality(1..n) = n
  BY <1>1, FS_Interval
<1>3. QED
  BY <1>1, <1>2, MmcAssumption DEF MmcAssumption

\* The client's calls, the thread that writes the status, the handler and the
\* card each keep every variable in its type.
LEMMA ClientTyped ==
  ASSUME MmcInv, MmcClient \/ MarkInProgress
  PROVE  MmcTypeOK'
<1> USE MmcAssumption DEF MmcAssumption, MmcInv, MmcTypeOK, MmcStates, CardTypes, NoWork, mmcThread,
                          mmcHistory, mmcHost, MayTransfer
<1>1. CASE InitHost        BY <1>1 DEF InitHost
<1>2. ASSUME Refused, mmc_pc' = mmc_pc PROVE MmcTypeOK'
  BY <1>2 DEF Refused
<1>3. ASSUME NEW b \in BOOLEAN, Launch("dma", DmaCommand(b)), is_multi_blk' \in BOOLEAN,
             UNCHANGED <<cq_task_id, response_error, cqrs04, cqrs11>>
      PROVE  MmcTypeOK'
  <2>1. transfers' \in 0..MaxTransfers
    BY <1>3 DEF Launch
  <2>2. card' \in CardTypes
    BY <1>3 DEF Launch, DmaCommand
  <2>3. QED
    BY <1>3, <2>1, <2>2 DEF Launch
<1>4. CASE MarkInProgress  BY <1>4 DEF MarkInProgress
<1>5. CASE Polled          BY <1>5 DEF Polled
<1>6. CASE CqSetUp         BY <1>6 DEF CqSetUp
<1>7. CASE ErrorRecovery   BY <1>7 DEF ErrorRecovery
<1>8. CASE QueuedTransfer
  <2>1. CASE Refused
    BY <2>1, <1>2 DEF Refused
  <2>2. ASSUME NEW n \in 1..CqTasks,
               Launch("cq", [NoWork EXCEPT !.doing = "tasks", !.tasks = 1..n]),
               cq_task_id' = n, cqrs04' = {}, cqrs11' = {},
               UNCHANGED <<is_multi_blk, response_error>>
        PROVE  MmcTypeOK'
    <3>1. card' = [doing |-> "tasks", boundary |-> FALSE, tasks |-> 1..n]
      BY <2>2 DEF Launch
    <3>2. card' \in CardTypes
      BY <3>1, DoorbellCounted
    <3>3. transfers' \in 0..MaxTransfers /\ cq_task_id' \in 0..CqTasks
      BY <2>2 DEF Launch
    <3>4. QED
      BY <2>2, <3>2, <3>3 DEF Launch
  <2>3. QED
    BY <1>8, <2>1, <2>2 DEF QueuedTransfer
<1>9. CASE SdmaRead
  BY <1>9, <1>2, <1>3 DEF SdmaRead, DmaTransfer, Refused
<1>10. CASE SdmaWrite \/ Adma2Read \/ Adma2Write
  BY <1>10, <1>2, <1>3 DEF SdmaWrite, Adma2Read, Adma2Write, DmaTransfer, Refused
<1>11. QED
  BY <1>1, <1>4, <1>5, <1>6, <1>7, <1>8, <1>9, <1>10
     DEF MmcClient, CqWrite, CqRead, SingleBlockRead, SingleBlockWrite, SdioSingleBlockRead,
         SdioSingleBlockWrite

\* The handler runs only during a transfer.
LEMMA HandlerCalled ==
  ASSUME MmcTypeOK, MmcPending
  PROVE  srs14 \in {"dma", "cq"}
BY DEF MmcTypeOK, MmcPending, Signalled

LEMMA IsrTyped ==
  ASSUME MmcInv, MmcIsr
  PROVE  MmcTypeOK'
<1> USE MmcAssumption DEF MmcAssumption, MmcInv, MmcTypeOK, MmcStates, CardTypes, mmcThread,
                          mmcHistory, mmcHost, EndTransfer
<1>1. CASE ErrorIsr     BY <1>1 DEF ErrorIsr
<1>2. CASE CommandIsr   BY <1>2 DEF CommandIsr
<1>3. CASE TransferIsr  BY <1>3 DEF TransferIsr
<1>4. CASE DmaIsr       BY <1>4 DEF DmaIsr
<1>5. CASE QueueIsr
  <2>1. "TASK_COMPLETE" \in cqrs04 => cq_task_id >= 1
    <3>1. srs14 = "cq"
      BY <1>5, HandlerCalled DEF QueueIsr, DmaUnderWay
    <3>2. QED
      BY <3>1, TasksAreCounted DEF QueueUnderWay, Uncounted
  <2>2. cq_task_id' \in 0..CqTasks /\ cqrs11' \subseteq 1..CqTasks
    BY <1>5, <2>1 DEF QueueIsr
  <2>3. mmc_state' \in MmcStates /\ srs14' \in {"off", "dma", "cq"}
    BY <1>5 DEF QueueIsr
  <2>4. QED
    BY <1>5, <2>2, <2>3 DEF QueueIsr
<1>6. QED
  BY <1>1, <1>2, <1>3, <1>4, <1>5 DEF MmcIsr, MmcInv

LEMMA CardTyped ==
  ASSUME MmcInv, MmcCard
  PROVE  MmcTypeOK'
<1> USE MmcAssumption DEF MmcAssumption, MmcInv, MmcTypeOK, CardTypes, NoWork, mmcThread, mmcHistory,
                          mmcDriver, CardIs, Now
<1> DEFINE Recorded == /\ srs12' \subseteq {"CMD", "XFER", "DMA", "CQ"} \cup Errors
                       /\ mmc_lost' \subseteq {"overtaken", "merged", "unsignalled"}
<1>r. ASSUME NEW bits \in SUBSET ({"CMD", "XFER", "DMA", "CQ"} \cup Errors), Record(bits)
      PROVE  Recorded
  BY <1>r DEF Record
<1>1. CASE Answer
  <2>1. Recorded
    BY <1>1, <1>r DEF Answer, NoAnswer, Errors
  <2>2. response_error' \in BOOLEAN /\ card' \in CardTypes
    BY <1>1 DEF Answer
  <2>3. QED
    BY <1>1, <2>1, <2>2 DEF Answer
<1>2. CASE Data
  <2>1. Recorded
    BY <1>2, <1>r DEF Data, DataErrors, Errors
  <2>2. moved' \in BOOLEAN /\ card' \in CardTypes
    BY <1>2 DEF Data
  <2>3. QED
    BY <1>2, <2>1, <2>2 DEF Data
<1>3. CASE StopAnswer
  <2>1. Recorded
    BY <1>3, <1>r DEF StopAnswer, NoAnswer, Errors
  <2>2. {response_error', moved', bad_stop'} \subseteq BOOLEAN /\ card' \in CardTypes
    BY <1>3 DEF StopAnswer
  <2>3. QED
    BY <1>3, <2>1, <2>2 DEF StopAnswer
<1>4. CASE TaskDone    BY <1>4 DEF TaskDone
<1>5. CASE TaskError
  <2>1. Recorded
    BY <1>5, <1>r DEF TaskError, Errors
  <2>2. cqrs04' \subseteq {"TASK_COMPLETE", "RESP_ERR"} /\ card' \in CardTypes
    BY <1>5 DEF TaskError
  <2>3. QED
    BY <1>5, <2>1, <2>2 DEF TaskError
<1>6. QED
  BY <1>1, <1>2, <1>3, <1>4, <1>5 DEF MmcCard

\* A call that leaves the interrupt masked starts nothing and takes no success back.
LEMMA MaskedKeeps ==
  ASSUME MmcInv, srs14 = "off", srs14' = "off", UNCHANGED <<transfer_complete, moved, bad_stop>>,
         mmc_state' # "SUCCESS" \/ UNCHANGED <<mmc_state, mmc_pc>>,
         card' = NoWork \/ card' = card
  PROVE  MmcSafety' /\ DmaUnderWay' /\ QueueUnderWay' /\ (~bad_stop' => Stopping' /\ Succeeded')
BY DEF MmcInv, MmcSafety, DmaUnderWay, QueueUnderWay, Stopping, Succeeded, NoWork

\* The client calls while every signal is off; a command starts a transfer whose
\* counts begin anew.
LEMMA ClientKeeps ==
  ASSUME MmcInv, MmcClient \/ MarkInProgress
  PROVE  MmcSafety' /\ DmaUnderWay' /\ QueueUnderWay' /\ (~bad_stop' => Stopping' /\ Succeeded')
<1> DEFINE Kept == /\ MmcSafety' /\ DmaUnderWay' /\ QueueUnderWay'
                   /\ ~bad_stop' => Stopping' /\ Succeeded'
<1>1. MayTransfer => srs14 = "off" /\ (~bad_stop => ~transfer_complete)
  BY DEF MmcInv, MmcSafety, Stopping, MayTransfer
<1>2. CASE InitHost
  <2>1. ~bad_stop' => ~bad_stop /\ ~transfer_complete
    BY <1>2 DEF InitHost
  <2>2. QED
    BY <1>2, <2>1 DEF InitHost, MmcInv, MmcSafety, DmaUnderWay, QueueUnderWay, Stopping, Succeeded
<1>3. CASE MarkInProgress
  BY <1>3 DEF MarkInProgress, MmcInv, MmcSafety, DmaUnderWay, QueueUnderWay, Stopping, Succeeded,
              Uncounted, InError, mmcHost
<1>4. ASSUME MayTransfer, Refused PROVE Kept
  BY <1>1, <1>4, MaskedKeeps DEF Refused, mmcHistory
<1>5. ASSUME NEW b \in BOOLEAN, MayTransfer, Launch("dma", DmaCommand(b)) PROVE Kept
  BY <1>1, <1>5 DEF Launch, DmaCommand, MmcSafety, DmaUnderWay, QueueUnderWay, Stopping, Succeeded
<1>6. CASE SdmaRead \/ SdmaWrite \/ Adma2Read \/ Adma2Write
  <2>1. CASE MayTransfer /\ mmc_state' = "INVALID_PARAMETER"
             /\ UNCHANGED <<transfer_complete, srs14, mmcHistory, mmcHost>>
    BY <1>1, <2>1, MaskedKeeps DEF mmcHistory, mmcHost
  <2>2. QED
    BY <1>4, <1>5, <1>6, <2>1 DEF SdmaRead, SdmaWrite, Adma2Read, Adma2Write, DmaTransfer
<1>7. CASE QueuedTransfer
  <2>1. CASE Refused
    BY <1>4, <1>7, <2>1 DEF QueuedTransfer
  <2>2. ASSUME NEW n \in 1..CqTasks,
               Launch("cq", [NoWork EXCEPT !.doing = "tasks", !.tasks = 1..n]),
               cq_task_id' = n, cqrs04' = {}
        PROVE  Kept
    <3>1. card' = [doing |-> "tasks", boundary |-> FALSE, tasks |-> 1..n]
      BY <2>2 DEF Launch, NoWork
    <3>2. Cardinality(card'.tasks) = n /\ n >= 1 /\ n \in Nat
      BY <3>1, DoorbellCounted
    <3>3. Uncounted' = 0
      BY <2>2 DEF Uncounted
    <3>4. QueueUnderWay'
      BY <2>2, <3>1, <3>2, <3>3 DEF Launch, QueueUnderWay
    <3>5. QED
      BY <1>1, <1>7, <2>2, <3>4 DEF Launch, QueuedTransfer, MmcSafety, DmaUnderWay, Stopping, Succeeded
  <2>3. QED
    BY <1>7, <2>1, <2>2 DEF QueuedTransfer
<1>8. CASE Polled
  BY <1>1, <1>8, MaskedKeeps DEF Polled, mmcHistory, mmcThread
<1>9. CASE CqSetUp
  BY <1>1, <1>9, MaskedKeeps DEF CqSetUp, mmcHistory
<1>10. CASE ErrorRecovery
  BY <1>1, <1>10, MaskedKeeps DEF ErrorRecovery, mmcHistory, mmcThread
<1>11. QED
  BY <1>2, <1>3, <1>6, <1>7, <1>8, <1>9, <1>10
     DEF MmcClient, CqWrite, CqRead, SingleBlockRead, SingleBlockWrite, SdioSingleBlockRead,
         SdioSingleBlockWrite

\* The handler reports a success only with the data moved and no task left.
LEMMA IsrKeeps ==
  ASSUME MmcInv, MmcIsr
  PROVE  MmcSafety' /\ DmaUnderWay' /\ QueueUnderWay' /\ (~bad_stop' => Stopping' /\ Succeeded')
<1> USE DEF MmcInv, MmcSafety, DmaUnderWay, QueueUnderWay, Stopping, Succeeded, InError, Errors,
            EndTransfer, Uncounted, mmcThread, mmcHistory, mmcHost
<1>0. card \in CardTypes /\ srs14 \in {"dma", "cq"}
  <2>1. MmcPending
    BY DEF MmcIsr, ErrorIsr, CommandIsr, TransferIsr, DmaIsr, QueueIsr
  <2>2. QED
    BY <2>1, HandlerCalled DEF MmcTypeOK
<1>1. CASE ErrorIsr     BY <1>0, <1>1 DEF ErrorIsr
<1>2. CASE CommandIsr   BY <1>0, <1>2 DEF CommandIsr
<1>3. CASE TransferIsr  BY <1>0, <1>3 DEF TransferIsr, CardTypes
<1>4. CASE DmaIsr       BY <1>0, <1>4 DEF DmaIsr, CardTypes
<1>5. CASE QueueIsr
  <2>1. srs14 = "cq"
    BY <1>0, <1>5 DEF QueueIsr
  <2>2. Cardinality(card.tasks) \in Nat /\ (Cardinality(card.tasks) = 0 <=> card.tasks = {})
    BY <1>0, TasksAreCounted DEF CardTypes
  <2>3. cq_task_id \in Nat
    BY MmcAssumption DEF MmcTypeOK, MmcAssumption
  <2>4. CASE "TASK_COMPLETE" \in cqrs04 /\ cq_task_id = 1
    <3>1. card.tasks = {} /\ moved
      BY <2>1, <2>2, <2>4
    <3>2. QED
      BY <1>5, <2>1, <2>4, <3>1 DEF QueueIsr
  <2>5. CASE ~("TASK_COMPLETE" \in cqrs04 /\ cq_task_id = 1)
    BY <1>5, <2>1, <2>2, <2>3, <2>5 DEF QueueIsr
  <2>6. QED
    BY <2>4, <2>5
<1>6. QED
  BY <1>1, <1>2, <1>3, <1>4, <1>5 DEF MmcIsr

\* The card's data and answers take no success back but with a bad stop.
LEMMA CardKeeps ==
  ASSUME MmcInv, MmcCard
  PROVE  MmcSafety' /\ DmaUnderWay' /\ QueueUnderWay' /\ (~bad_stop' => Stopping' /\ Succeeded')
<1> USE DEF MmcInv, MmcSafety, DmaUnderWay, QueueUnderWay, Stopping, Succeeded, Uncounted, CardIs,
            Now, InError, Errors, mmcThread, mmcHistory, mmcDriver
<1>0. card \in CardTypes
  BY DEF MmcTypeOK
<1>1. CASE Answer
  <2>1. \E bits \in NoAnswer \cup {{"CMD"}} : srs12' = srs12 \cup bits
    BY <1>1 DEF Answer, Record
  <2>2. /\ UNCHANGED <<mmcDriver, moved, bad_stop, cqrs04, cqrs11>>
        /\ card.doing = "command" /\ card'.tasks = card.tasks /\ card'.doing \in {"nothing", "data"}
    BY <1>0, <1>1 DEF Answer, CardTypes
  <2>3. srs14 # "cq" /\ (~bad_stop => ~transfer_complete)
    BY <2>2
  <2>4. QED
    BY <2>1, <2>2, <2>3 DEF NoAnswer
<1>2. CASE Data
  <2>1. \/ \E bits \in DataErrors \cup {{"DMA"}} : srs12' = srs12 \cup bits /\ moved' = moved
        \/ srs12' = srs12 \cup {"XFER"} /\ moved' = TRUE
    BY <1>2 DEF Data, Record
  <2>2. /\ UNCHANGED <<mmcDriver, bad_stop, cqrs04, cqrs11>>
        /\ card.doing = "data" /\ card'.tasks = card.tasks /\ card'.doing \in {"nothing", "paused"}
    BY <1>0, <1>2 DEF Data, CardTypes
  <2>3. srs14 # "cq" /\ (~bad_stop => ~transfer_complete)
    BY <2>2
  <2>4. QED
    BY <2>1, <2>2, <2>3 DEF DataErrors
<1>3. CASE StopAnswer
  <2>1. card' = [card EXCEPT !.doing = "nothing"] /\ card'.tasks = card.tasks /\ card'.doing = "nothing"
    BY <1>0, <1>3 DEF StopAnswer, CardTypes
  <2>2. ~bad_stop' => ~bad_stop /\ moved' /\ srs12' = srs12 \cup {"CMD"}
    BY <1>3 DEF StopAnswer, Record
  <2>3. MmcSafety' /\ (~bad_stop' => Stopping' /\ Succeeded')
    BY <1>3, <2>1, <2>2 DEF StopAnswer
  <2>4. srs14 # "cq"
    BY <1>3 DEF StopAnswer
  <2>5. srs14' # "cq"
    BY <1>3, <2>4 DEF StopAnswer
  <2>6. DmaUnderWay'
    <3>1. \E bits \in NoAnswer \cup {{"CMD"}} : srs12' = srs12 \cup bits
      BY <1>3 DEF StopAnswer, Record
    <3>2. QED
      BY <1>3, <2>1, <3>1 DEF StopAnswer, NoAnswer
  <2>7. QueueUnderWay'
    BY <2>5
  <2>8. QED
    BY <2>3, <2>6, <2>7
<1>4. CASE TaskDone
  <2>1. PICK t \in card.tasks : /\ card' = [card EXCEPT !.tasks = @ \ {t}]
                                /\ moved' = (card.tasks = {t})
    BY <1>4 DEF TaskDone
  <2>2. card' = [doing |-> "tasks", boundary |-> card.boundary, tasks |-> card.tasks \ {t}]
    BY <1>0, <1>4, <2>1 DEF TaskDone, CardTypes
  <2>3. /\ Cardinality(card.tasks) \in Nat /\ Cardinality(card'.tasks) = Cardinality(card.tasks) - 1
        /\ Cardinality(card'.tasks) \in Nat
        /\ Cardinality(card'.tasks) = 0 <=> card'.tasks = {}
    BY <1>0, <2>2, TasksAreCounted DEF CardTypes
  <2>4. cq_task_id \in Nat
    BY MmcAssumption DEF MmcTypeOK, MmcAssumption
  <2>5. moved' <=> card'.tasks = {}
    BY <2>1, <2>2
  <2>6. QueueUnderWay'
    BY <1>4, <2>2, <2>3, <2>4, <2>5 DEF TaskDone
  <2>7. QED
    BY <1>4, <2>1, <2>2, <2>6 DEF TaskDone
<1>5. CASE TaskError
  <2>1. Cardinality({}) = 0 /\ Cardinality(card.tasks) \in Nat
    BY <1>0, TasksAreCounted, FS_EmptySet DEF CardTypes
  <2>2. card' = NoWork /\ card'.tasks = {} /\ card'.doing = "nothing"
    BY <1>5 DEF TaskError, NoWork
  <2>3. Cardinality(card'.tasks) = 0 /\ Cardinality(card.tasks) >= 0
    BY <2>1, <2>2
  <2>4. cq_task_id \in Nat
    BY MmcAssumption DEF MmcTypeOK, MmcAssumption
  <2>5. Uncounted' = Uncounted
    BY <1>5 DEF TaskError
  <2>6. /\ card.doing = "tasks" /\ srs12' \subseteq srs12 \cup {"CQ"} \cup Errors
        /\ UNCHANGED <<mmcDriver, moved, bad_stop>>
    BY <1>5 DEF TaskError, Record
  <2>7. QueueUnderWay'
    BY <2>2, <2>3, <2>4, <2>5, <2>6
  <2>8. QED
    BY <2>2, <2>6, <2>7
<1>6. QED
  BY <1>1, <1>2, <1>3, <1>4, <1>5 DEF MmcCard

LEMMA MmcInductive == MmcInv /\ [MmcNext]_mmcVars => MmcInv'
<1> SUFFICES ASSUME MmcInv, [MmcNext]_mmcVars PROVE MmcInv'
  OBVIOUS
<1>1. CASE MmcClient \/ MarkInProgress
  BY <1>1, ClientTyped, ClientKeeps DEF MmcInv
<1>2. CASE MmcIsr
  BY <1>2, IsrTyped, IsrKeeps DEF MmcInv
<1>3. CASE MmcCard
  BY <1>3, CardTyped, CardKeeps DEF MmcInv
<1>4. CASE UNCHANGED mmcVars
  BY <1>4 DEF mmcVars, mmcThread, mmcHistory, mmcHost, MmcInv, MmcTypeOK, MmcSafety, DmaUnderWay,
              QueueUnderWay, Uncounted, Stopping, Succeeded, InError
<1>5. QED
  BY <1>1, <1>2, <1>3, <1>4 DEF MmcNext

LEMMA MmcInitially == MmcInit => MmcInv
<1> SUFFICES ASSUME MmcInit PROVE MmcInv
  OBVIOUS
<1>1. MmcTypeOK
  <2>1. card \in CardTypes /\ mmc_state \in MmcStates
    BY DEF MmcInit, CardTypes, NoWork, MmcStates
  <2>2. transfers \in 0..MaxTransfers /\ cq_task_id \in 0..CqTasks
    BY MmcAssumption DEF MmcAssumption, MmcInit
  <2>3. QED
    BY <2>1, <2>2 DEF MmcInit, MmcTypeOK
<1>2. QED
  BY <1>1 DEF MmcInit, MmcInv, NoWork, MmcSafety, DmaUnderWay, QueueUnderWay, Stopping, Succeeded

\* The variables of the driver, the controller and the card keep their types;
\* the count of queued tasks does not fall below zero (mss_mmc.c:2373).
THEOREM MmcTyping == MmcSpec => []MmcTypeOK
<1>1. MmcInv => MmcTypeOK
  BY DEF MmcInv
<1>2. QED
  BY <1>1, MmcInitially, MmcInductive, PTL DEF MmcSpec

\* A success of the eMMC/SD driver is the success of that transfer's data as
\* long as every stop command has been answered without an error, and no
\* signal is enabled outside a transfer (mss_mmc.c:2292-2330).
THEOREM SuccessMeansMoved == MmcSpec => []MmcSafety
<1>1. MmcInv => MmcSafety
  BY DEF MmcInv
<1>2. QED
  BY <1>1, MmcInitially, MmcInductive, PTL DEF MmcSpec

------------------------------------------------------------------------------
\* The system services driver.

\* A service that copies the response from its frame on success polls for it.
Requested(to) == Service(to) /\ (to = "on_success" => g_service_mode # "interrupt")

\* Each of the services is a request with one of the destinations.
LEMMA ServicesAreRequests ==
  ASSUME Services
  PROVE  \E to \in Destinations : Requested(to)
<1>1. \/ Requested("buffer") \/ Requested("on_success") \/ Requested("dead_frame")
      \/ Requested("none")
  BY DEF Requested, Services, GetSerialNumber, GetUserCode, GetDesignInfo,
         GetDeviceCertificate, ReadDigest, QuerySecurity, ReadDebugInfo, ReadEnvmParameter, PufEmulationService,
         DigitalSignatureService, SecureNvmWrite, SecureNvmRead, NonceService,
         AuthenticateBitstream, AuthenticateIapImage, DigestCheck, ExecuteIap, SpiCopy,
         ThroughFrame, DebugReadProbe, DebugWriteProbe, DebugLiveProbe, DebugSelectMem,
         DebugReadMem, DebugWriteMem, DebugReadApb, DebugWriteApb, DebugFabricSnapshot, OtpMatch, UnlockDebugPasscode,
         OneWayPasscode, DebugTerminate
<1>2. QED
  BY <1>1 DEF Destinations

\* A request is the next one, and the thread was with the client.
LEMMA RequestedNext ==
  ASSUME SysTypeOK, NEW to \in Destinations, Requested(to)
  PROVE  /\ RequestSystemService(to) /\ sys_pc = "client" /\ services_sr.busy = 0
         /\ requests \in 0..MaxRequests /\ requests' = requests + 1 /\ requests' \in 1..MaxRequests
<1>1. requests \in 0..MaxRequests
  BY DEF SysTypeOK
<1>2. RequestSystemService(to) /\ sys_pc = "client"
  BY DEF Requested, Service
<1>3. QED
  BY <1>1, <1>2, SysAssumption DEF SysAssumption, RequestSystemService

LEMMA SysTyped ==
  ASSUME SysTypeOK, [SysNext]_sysVars
  PROVE  SysTypeOK'
<1> USE SysAssumption DEF SysAssumption, Requests, Zeros
<1> DEFINE Typing ==
      /\ g_service_mode \in {"polling", "interrupt"} /\ message_int \in BOOLEAN
      /\ overlapped \in BOOLEAN /\ g_message_interrupt_counter \in 0..255
      /\ gp_int_service_response \in [of : 0..MaxRequests, to : {"buffer", "dead_frame", "none"}]
      /\ services_cr \in [request : 0..MaxRequests, notify : BOOLEAN]
      /\ services_sr \in [busy : 0..MaxRequests, notify : BOOLEAN, done : 0..MaxRequests]
      /\ mailbox \in 0..MaxRequests
      /\ sys_pc \in {"client", "await_taken", "await_done", "read", "lost"}
      /\ requests \in 0..MaxRequests /\ destination \in [1..MaxRequests -> Destinations]
      /\ buffer \in [1..MaxRequests -> 0..Zeros]
      /\ status \in [1..MaxRequests -> 0..MaxRequests]
      /\ failed \subseteq 1..MaxRequests
<1>a. Typing
  BY DEF SysTypeOK
<1>b. ASSUME Typing' PROVE SysTypeOK'
  BY <1>b DEF SysTypeOK
<1>1. CASE SelectServiceMode  BY <1>1, <1>a, <1>b DEF SelectServiceMode
<1>2. ASSUME NEW to \in Destinations, Requested(to) PROVE SysTypeOK'
  <2>1. requests' \in 1..MaxRequests /\ requests' \in 0..MaxRequests /\ RequestSystemService(to)
    BY <1>2, RequestedNext
  <2>2. /\ gp_int_service_response' \in [of : 0..MaxRequests, to : {"buffer", "dead_frame", "none"}]
        /\ services_cr' \in [request : 0..MaxRequests, notify : BOOLEAN]
    BY <1>a, <1>2, <2>1 DEF RequestSystemService, Requested, Destinations
  <2>3. destination' \in [1..MaxRequests -> Destinations]
    BY <1>a, <2>1 DEF RequestSystemService
  <2>4. buffer' \in [1..MaxRequests -> 0..Zeros]
    BY <1>a, <1>2, <2>1 DEF Requested, Service
  <2>5. message_int' \in BOOLEAN /\ overlapped' \in BOOLEAN
    BY <2>1 DEF RequestSystemService
  <2>6. sys_pc' \in {"client", "await_taken"}
    BY <1>2 DEF Requested, Service
  <2>7. UNCHANGED <<g_service_mode, g_message_interrupt_counter, services_sr, mailbox, status, failed>>
    BY <1>2 DEF Requested, Service
  <2>8. QED
    BY <1>a, <1>b, <2>1, <2>2, <2>3, <2>4, <2>5, <2>6, <2>7
<1>3. CASE AwaitTaken         BY <1>3, <1>a, <1>b DEF AwaitTaken
<1>4. CASE AwaitDone
  <2>1. services_sr.done \in 0..MaxRequests /\ mailbox \in 0..Zeros
    BY <1>a
  <2>2. buffer' \in [1..MaxRequests -> 0..Zeros]
    BY <1>4, <1>a, <2>1 DEF AwaitDone
  <2>3. status' \in [1..MaxRequests -> 0..MaxRequests]
    BY <1>4, <1>a, <2>1 DEF AwaitDone
  <2>4. QED
    BY <1>4, <1>a, <1>b, <2>2, <2>3 DEF AwaitDone
<1>5. CASE ReadResponse       BY <1>5, <1>a, <1>b DEF ReadResponse
<1>6. CASE CopyResponse
  <2>1. services_sr.done \in 0..MaxRequests /\ mailbox \in 0..Zeros
    BY <1>a
  <2>2. buffer' \in [1..MaxRequests -> 0..Zeros]
    BY <1>6, <1>a, <2>1 DEF CopyResponse
  <2>3. status' \in [1..MaxRequests -> 0..MaxRequests]
    BY <1>6, <1>a, <2>1 DEF CopyResponse
  <2>4. QED
    BY <1>6, <1>a, <1>b, <2>2, <2>3 DEF CopyResponse
<1>7. CASE MessageIsr
  <2>1. (g_message_interrupt_counter + 1) % 256 \in 0..255
    BY <1>a
  <2>2. QED
    BY <1>7, <1>a, <1>b, <2>1 DEF MessageIsr
<1>8. CASE TakeRequest        BY <1>8, <1>a, <1>b DEF TakeRequest
<1>9. CASE CompleteRequest
  <2>1. services_sr.busy \in 1..MaxRequests /\ services_sr.notify \in BOOLEAN
    BY <1>9, <1>a DEF CompleteRequest
  <2>2. services_sr' = [busy |-> 0, notify |-> services_sr.notify, done |-> services_sr.busy]
    BY <1>9, <1>a DEF CompleteRequest
  <2>3. message_int' \in BOOLEAN
    BY <1>9, <1>a, <2>1 DEF CompleteRequest
  <2>4. failed' \subseteq 1..MaxRequests
    BY <1>9, <1>a, <2>1 DEF CompleteRequest
  <2>5. mailbox' \in 0..MaxRequests
    BY <1>9, <1>a, <2>1 DEF CompleteRequest
  <2>6. services_sr' \in [busy : 0..MaxRequests, notify : BOOLEAN, done : 0..MaxRequests]
    BY <2>1, <2>2
  <2>7. UNCHANGED <<g_service_mode, gp_int_service_response, g_message_interrupt_counter,
                    services_cr, sys_pc, requests, destination, buffer, status, overlapped>>
    BY <1>9 DEF CompleteRequest
  <2>8. QED
    BY <1>a, <1>b, <2>3, <2>4, <2>5, <2>6, <2>7
<1>10. CASE UNCHANGED sysVars BY <1>10, <1>a, <1>b DEF sysVars
<1>11. CASE CopyToDeadFrame
  <2>1. services_sr.done \in 0..MaxRequests
    BY <1>a
  <2>2. status' \in [1..MaxRequests -> 0..MaxRequests]
    BY <1>11, <1>a, <2>1 DEF CopyToDeadFrame
  <2>3. QED
    BY <1>11, <1>a, <1>b, <2>2 DEF CopyToDeadFrame
<1>12. QED
  BY <1>1, <1>2, <1>3, <1>4, <1>5, <1>6, <1>7, <1>8, <1>9, <1>10, <1>11, ServicesAreRequests
     DEF SysNext, SysThread, Controller

\* What one step of the thread or the controller has to show.
Kept == LatestOnly' /\ SysSafety'

LEMMA RequestKeeps ==
  ASSUME SysInv, SysTypeOK', ~overlapped', NEW to \in Destinations, Requested(to)
  PROVE  Kept
<1>1. /\ RequestSystemService(to) /\ sys_pc = "client" /\ services_sr.busy = 0
      /\ requests \in Nat /\ requests' = requests + 1 /\ requests' \in Requests
  BY RequestedNext, SysAssumption DEF SysInv, SysAssumption, Requests
<1>2. ~overlapped /\ (requests > 0 => status[requests] # 0)
  <2>1. overlapped' = (overlapped \/ (requests > 0 /\ status[requests] = 0))
    BY <1>1 DEF RequestSystemService
  <2>2. QED
    BY <2>1
<1>3. /\ RequestStages /\ Outcomes /\ Notices /\ SysSafety
      /\ destination \in [Requests -> Destinations] /\ services_sr.busy \in Nat
      /\ buffer \in [Requests -> 0..Zeros] /\ Requests \subseteq Nat \ {0}
  <2>1. RequestStages /\ Outcomes /\ Notices /\ SysSafety /\ SysTypeOK
    BY <1>2 DEF SysInv, LatestOnly
  <2>2. Requests \subseteq Nat \ {0}
    BY SysAssumption DEF SysAssumption, Requests
  <2>3. QED
    BY <2>1, <2>2, SysAssumption DEF SysTypeOK, SysAssumption
<1>4. ~Waiting /\ ~Executing /\ ~Notified
  <2>1. requests > 0 => ~Waiting /\ ~Executing /\ ~Notified
    BY <1>2, <1>3 DEF Outcomes, Notices
  <2>2. requests = 0 => ~Waiting /\ ~Executing /\ ~Notified
    BY <1>3 DEF RequestStages, Notices, Waiting, Executing
  <2>3. QED
    BY <1>1, <2>1, <2>2
<1>5. /\ services_cr' = [request |-> requests', notify |-> g_service_mode = "interrupt"]
      /\ message_int' = FALSE
      /\ destination' = [destination EXCEPT ![requests'] = to]
      /\ g_service_mode = "interrupt" =>
           gp_int_service_response' = [of |-> requests', to |-> to]
  BY <1>1 DEF RequestSystemService
<1>6. /\ UNCHANGED <<services_sr, status, mailbox, g_message_interrupt_counter>>
      /\ sys_pc' = IF g_service_mode = "interrupt" THEN "client" ELSE "await_taken"
      /\ \A k \in Requests : buffer'[k] = IF k = requests' /\ to = "dead_frame" THEN Zeros ELSE buffer[k]
  BY <1>1, <1>3 DEF Requested, Service
<1>7. Waiting' /\ ~Executing' /\ ~Notified'
  <2>1. requests' # 0
    BY <1>1
  <2>2. Waiting'
    BY <1>5, <2>1 DEF Waiting
  <2>3. ~Executing'
    BY <1>1, <1>6 DEF Executing
  <2>4. ~Notified'
    BY <1>4, <1>5, <1>6 DEF Notified
  <2>5. QED
    BY <2>2, <2>3, <2>4
<1>8. RequestStages'
  BY <1>1, <1>5, <1>6, <1>7 DEF RequestStages
<1>9. \A k \in Requests : /\ k < requests' => status[k] = k
                          /\ k >= requests' => status[k] = 0 /\ buffer[k] = 0
  <2>1. \A k \in Requests : k < requests => status[k] = k
    BY <1>3 DEF Outcomes
  <2>2. requests > 0 => status[requests] = requests
    <3>1. requests > 0 => requests \in Requests
      BY <1>1, SysAssumption DEF SysAssumption, Requests
    <3>2. QED
      BY <1>2, <1>3, <3>1 DEF SysSafety
  <2>3. \A k \in Requests : k > requests => status[k] = 0 /\ buffer[k] = 0
    BY <1>3 DEF Outcomes
  <2>4. QED
    BY <1>1, <1>3, <2>1, <2>2, <2>3
<1>10. Outcomes'
  <2>1. \A k \in Requests : k < requests' => status'[k] = k
    BY <1>6, <1>9
  <2>2. \A k \in Requests : k > requests' => status'[k] = 0 /\ buffer'[k] = 0
    BY <1>1, <1>3, <1>6, <1>9
  <2>3. status'[requests'] = 0
    BY <1>1, <1>6, <1>9
  <2>4. QED
    BY <2>1, <2>2, <2>3 DEF Outcomes, Requests
<1>11. Polling'
  BY <1>1, <1>6, <1>9 DEF Polling
<1>12. Notices'
  <2>1. WillNotify' => /\ requests' > 0 /\ status'[requests'] = 0 /\ sys_pc' = "client"
                       /\ gp_int_service_response' = [of |-> requests', to |-> destination'[requests']]
    <3>1. requests' > 0 /\ status'[requests'] = 0
      BY <1>1, <1>3, <1>6, <1>9
    <3>2. WillNotify' => g_service_mode = "interrupt"
      BY <1>5, <1>7 DEF WillNotify
    <3>3. destination'[requests'] = to
      BY <1>1, <1>3, <1>5
    <3>4. QED
      BY <1>5, <1>6, <3>1, <3>2, <3>3
  <2>2. QED
    BY <1>5, <1>7, <2>1 DEF Notices
<1>13. SysSafety'
  <2>1. ASSUME NEW k \in Requests
        PROVE  /\ status'[k] \in {0, k}
               /\ destination'[k] = "dead_frame" => buffer'[k] = Zeros
               /\ destination'[k] # "dead_frame" => buffer'[k] \in {0, k}
               /\ status'[k] = k /\ Delivered(k)' => buffer'[k] = k
    <3>1. k # 0 /\ k \in Nat
      BY <1>3, SysAssumption DEF SysAssumption, Requests
    <3>2. CASE k = requests'
      BY <1>1, <1>3, <1>5, <1>6, <1>9, <3>1, <3>2
    <3>3. CASE k # requests'
      <4>1. destination'[k] = destination[k] /\ buffer'[k] = buffer[k] /\ status'[k] = status[k]
        BY <1>3, <1>5, <1>6, <3>3
      <4>2. Delivered(k)' = Delivered(k)
        BY <4>1 DEF Requested, Service, Delivered
      <4>3. QED
        BY <1>2, <1>3, <4>1, <4>2 DEF SysSafety
    <3>4. QED
      BY <3>2, <3>3
  <2>2. QED
    BY <2>1 DEF SysSafety, Requests
<1>14. QED
  BY <1>8, <1>10, <1>11, <1>12, <1>13 DEF Kept, LatestOnly

\* What is read with no request under way is the response to the latest one.
LEMMA ReadIsOfLatest ==
  ASSUME SysTypeOK, RequestStages, Notices, sys_pc = "read"
  PROVE  /\ requests \in Requests /\ services_sr.done = requests /\ ~Waiting /\ ~Executing
         /\ gp_int_service_response = [of |-> requests, to |-> destination[requests]]
         /\ destination[requests] # "none" => mailbox = requests
         /\ ~message_int /\ status[requests] = 0
<1>1. Notified
  BY DEF Notified
<1>2. ~Waiting /\ ~Executing /\ ~message_int
  BY <1>1 DEF Notices
<1>3. /\ requests > 0 /\ status[requests] = 0
      /\ gp_int_service_response = [of |-> requests, to |-> destination[requests]]
  BY <1>1 DEF Notices
<1>4. requests \in 0..MaxRequests
  BY DEF SysTypeOK
<1>5. requests \in Requests
  BY <1>3, <1>4, SysAssumption DEF SysAssumption, Requests
<1>6. QED
  BY <1>2, <1>3, <1>5 DEF RequestStages

\* The status of the latest request, and its response to where that goes, keep
\* what holds with no request under way.
LEMMA DeliveryKeeps ==
  ASSUME SysTypeOK, SysSafety, RequestStages, Outcomes, ~overlapped,
         requests \in Requests, ~Waiting, ~Executing,
         status' = [status EXCEPT ![requests] = requests],
         UNCHANGED <<services_cr, services_sr, mailbox, requests, destination, failed>>,
         buffer' \in {buffer, [buffer EXCEPT ![requests] = requests]},
         buffer' # buffer => destination[requests] # "dead_frame",
         Delivered(requests) => buffer' = [buffer EXCEPT ![requests] = requests]
  PROVE  RequestStages' /\ Outcomes' /\ SysSafety'
<1>1. /\ status \in [Requests -> 0..MaxRequests] /\ buffer \in [Requests -> 0..Zeros]
      /\ Requests \subseteq Nat \ {0}
  BY SysAssumption DEF SysTypeOK, SysAssumption, Requests
<1>2. RequestStages' /\ ~Waiting' /\ ~Executing'
  BY DEF RequestStages, Waiting, Executing
<1>3. \A k \in Requests : /\ k # requests => status'[k] = status[k] /\ buffer'[k] = buffer[k]
                          /\ k = requests => status'[k] = k /\ buffer'[k] \in {buffer[k], k}
  BY <1>1
<1>4. Outcomes'
  BY <1>1, <1>2, <1>3 DEF Outcomes
<1>5. SysSafety'
  <2>1. ASSUME NEW k \in Requests
        PROVE  /\ status'[k] \in {0, k}
               /\ destination'[k] = "dead_frame" => buffer'[k] = Zeros
               /\ destination'[k] # "dead_frame" => buffer'[k] \in {0, k}
               /\ status'[k] = k /\ Delivered(k)' => buffer'[k] = k
    <3>1. Delivered(k)' = Delivered(k)
      BY DEF Delivered
    <3>2. CASE k # requests
      BY <1>3, <3>1, <3>2 DEF SysSafety
    <3>3. CASE k = requests
      <4>1. /\ destination[k] = "dead_frame" => buffer'[k] = buffer[k]
            /\ Delivered(k) => buffer'[k] = k
        BY <1>1, <3>3
      <4>2. QED
        BY <1>3, <3>1, <3>3, <4>1 DEF SysSafety
    <3>4. QED
      BY <3>2, <3>3
  <2>2. QED
    BY <2>1 DEF SysSafety, Requests
<1>6. QED
  BY <1>2, <1>4, <1>5

LEMMA ThreadKeeps ==
  ASSUME SysInv, SysTypeOK', ~overlapped, SysThread \/ ReadResponse \/ SelectServiceMode
  PROVE  Kept
<1>1. SysSafety /\ SysTypeOK /\ RequestStages /\ Outcomes /\ Polling /\ Notices
  BY DEF SysInv, LatestOnly
<1>2. requests \in 0..MaxRequests /\ services_sr.done \in 0..MaxRequests
  BY <1>1 DEF SysTypeOK
<1>3. CASE SelectServiceMode \/ AwaitTaken \/ ReadResponse
  <2>1. /\ UNCHANGED <<services_cr, services_sr, mailbox, requests, destination, buffer, status,
                       failed, overlapped, message_int, g_message_interrupt_counter,
                       gp_int_service_response>>
        /\ sys_pc' = sys_pc \/ (sys_pc = "await_taken" /\ sys_pc' = "await_done" /\ ~Waiting)
                  \/ (sys_pc = "client" /\ sys_pc' = "read" /\ g_message_interrupt_counter > 0)
    BY <1>3 DEF SelectServiceMode, AwaitTaken, ReadResponse, Waiting
  <2>2. RequestStages' /\ Outcomes' /\ SysSafety'
    BY <1>1, <2>1 DEF RequestStages, Outcomes, SysSafety, Delivered, Waiting, Executing
  <2>3. Waiting' = Waiting /\ Executing' = Executing
    BY <2>1 DEF Waiting, Executing
  <2>4. Polling'
    BY <1>1, <2>1, <2>3 DEF Polling
  <2>5. Notices'
    <3>1. (Notified' => Notified) /\ WillNotify' = WillNotify
      BY <2>1, <2>3 DEF Notified, WillNotify
    <3>2. sys_pc' = "read" => ~message_int
      BY <1>1, <2>1 DEF Notices, SysTypeOK
    <3>3. Notified \/ WillNotify => sys_pc' \in {"client", "read"}
      BY <1>1, <2>1 DEF Notices
    <3>4. message_int => sys_pc' = "client"
      BY <1>1, <2>1, <3>2, <3>3 DEF Notified
    <3>5. QED
      BY <1>1, <2>1, <2>3, <3>1, <3>3, <3>4 DEF Notices
  <2>6. QED
    BY <2>2, <2>4, <2>5 DEF Kept, LatestOnly
<1>4. CASE AwaitDone
  <2>1. sys_pc = "await_done" /\ ~Waiting /\ ~Executing /\ requests > 0 /\ status[requests] = 0
    BY <1>1, <1>4 DEF AwaitDone, Polling, Executing
  <2>2. /\ requests \in Requests /\ services_sr.done = requests
        /\ destination[requests] # "none" => mailbox = requests
    BY <1>1, <1>2, <2>1, SysAssumption DEF RequestStages, SysAssumption, Requests
  <2>3. ~Notified /\ ~WillNotify
    BY <1>1, <2>1 DEF Notices
  <2>4. /\ status' = [status EXCEPT ![requests] = requests] /\ sys_pc' = "client"
        /\ UNCHANGED <<services_cr, services_sr, mailbox, requests, destination, failed,
                       overlapped, message_int, g_message_interrupt_counter>>
        /\ buffer' = IF Delivered(requests) THEN [buffer EXCEPT ![requests] = requests] ELSE buffer
    BY <1>4, <2>2 DEF AwaitDone, Delivered
  <2>5. buffer' # buffer => destination[requests] # "dead_frame"
    BY <2>4 DEF Delivered
  <2>6. RequestStages' /\ Outcomes' /\ SysSafety'
    BY <1>1, <2>1, <2>2, <2>4, <2>5, DeliveryKeeps
  <2>7. Polling' /\ Notices'
    BY <2>3, <2>4 DEF Polling, Notices, Notified, WillNotify, Waiting, Executing
  <2>8. QED
    BY <2>6, <2>7 DEF Kept, LatestOnly
<1>5. CASE CopyResponse
  <2>1. /\ requests \in Requests /\ services_sr.done = requests /\ ~Waiting /\ ~Executing
        /\ gp_int_service_response = [of |-> requests, to |-> destination[requests]]
        /\ destination[requests] # "none" => mailbox = requests
        /\ ~message_int
    BY <1>1, <1>5, ReadIsOfLatest DEF CopyResponse
  <2>2. /\ status' = [status EXCEPT ![requests] = requests] /\ sys_pc' = "client"
        /\ UNCHANGED <<services_cr, services_sr, mailbox, requests, destination, failed,
                       overlapped, message_int>>
        /\ g_message_interrupt_counter' = 0
        /\ buffer' = IF destination[requests] = "buffer"
                     THEN [buffer EXCEPT ![requests] = requests] ELSE buffer
    BY <1>5, <2>1 DEF CopyResponse
  <2>3. destination[requests] # "on_success"
    BY <1>1, <2>1 DEF SysTypeOK
  <2>4. RequestStages' /\ Outcomes' /\ SysSafety'
    BY <1>1, <2>1, <2>2, <2>3, DeliveryKeeps DEF Delivered
  <2>5. Polling' /\ Notices'
    BY <2>1, <2>2 DEF Polling, Notices, Notified, WillNotify, Waiting, Executing
  <2>6. QED
    BY <2>4, <2>5 DEF Kept, LatestOnly
<1>6. CASE CopyToDeadFrame
  <2>1. /\ requests \in Requests /\ services_sr.done = requests /\ ~Waiting /\ ~Executing
        /\ gp_int_service_response = [of |-> requests, to |-> destination[requests]]
        /\ ~message_int /\ destination[requests] = "dead_frame"
    BY <1>1, <1>6, ReadIsOfLatest DEF CopyToDeadFrame
  <2>2. /\ status' \in {status, [status EXCEPT ![requests] = requests]}
        /\ UNCHANGED <<services_cr, services_sr, mailbox, requests, destination, buffer, failed,
                       overlapped, message_int>>
        /\ g_message_interrupt_counter' = 0 /\ sys_pc' \in {"client", "lost"}
    BY <1>6, <2>1 DEF CopyToDeadFrame
  <2>3. ~Delivered(requests)
    BY <2>1 DEF Delivered
  <2>4. RequestStages' /\ Outcomes' /\ SysSafety'
    <3>1. CASE status' = status
      BY <1>1, <2>2, <3>1 DEF RequestStages, Outcomes, SysSafety, Delivered, Waiting, Executing
    <3>2. CASE status' = [status EXCEPT ![requests] = requests]
      BY <1>1, <2>1, <2>2, <2>3, <3>2, DeliveryKeeps
    <3>3. QED
      BY <2>2, <3>1, <3>2
  <2>5. Polling' /\ Notices'
    BY <2>1, <2>2 DEF Polling, Notices, Notified, WillNotify, Waiting, Executing
  <2>6. QED
    BY <2>4, <2>5 DEF Kept, LatestOnly
<1>7. QED
  BY <1>3, <1>4, <1>5, <1>6 DEF SysThread

LEMMA ControllerKeeps ==
  ASSUME SysInv, SysTypeOK', ~overlapped, Controller \/ MessageIsr
  PROVE  Kept
<1> USE SysAssumption DEF SysAssumption, Requests, Zeros, Waiting, Executing
<1>1. LatestOnly /\ SysSafety /\ SysTypeOK
  BY DEF SysInv
<1>2. RequestStages /\ Outcomes /\ Polling /\ Notices
  BY <1>1 DEF LatestOnly
<1>3. CASE TakeRequest
  BY <1>1, <1>2, <1>3 DEF TakeRequest, Kept, LatestOnly, RequestStages, Outcomes,
       Polling, Notices, Notified, WillNotify, SysSafety, Delivered, SysTypeOK
<1>4. CASE CompleteRequest
  <2>1. /\ requests \in 1..MaxRequests /\ services_sr.busy = requests /\ ~Waiting
        /\ services_sr'.busy = 0 /\ services_sr'.done = requests
        /\ services_sr'.notify = services_sr.notify
    BY <1>1, <1>2, <1>4 DEF CompleteRequest, RequestStages, SysTypeOK
  <2>2. RequestStages' /\ Outcomes' /\ Polling' /\ SysSafety'
    BY <1>1, <1>2, <1>4, <2>1 DEF CompleteRequest, RequestStages, Outcomes, Polling, SysSafety,
       Delivered, SysTypeOK
  <2>3. message_int' => message_int \/ WillNotify
    BY <1>1, <1>4, <2>1 DEF CompleteRequest, WillNotify
  <2>4. ~Notified
    BY <1>2, <1>4 DEF CompleteRequest, Notices
  <2>5. /\ ~Waiting' /\ ~Executing' /\ g_message_interrupt_counter' = 0 /\ sys_pc' # "read"
        /\ Notified' \/ WillNotify' => WillNotify
    <3>1. ~message_int /\ g_message_interrupt_counter = 0 /\ sys_pc # "read"
      <4>1. ~message_int /\ ~(g_message_interrupt_counter > 0) /\ sys_pc # "read"
        BY <2>4 DEF Notified
      <4>2. g_message_interrupt_counter \in 0..255
        BY <1>1 DEF SysTypeOK
      <4>3. QED
        BY <4>1, <4>2
    <3>2. ~Waiting' /\ ~Executing'
      BY <1>4, <2>1 DEF CompleteRequest
    <3>3. g_message_interrupt_counter' = 0 /\ sys_pc' # "read"
      BY <1>4, <3>1 DEF CompleteRequest
    <3>4. Notified' => message_int'
      BY <3>3 DEF Notified
    <3>5. ~WillNotify'
      BY <3>2 DEF WillNotify
    <3>6. QED
      BY <2>3, <3>1, <3>2, <3>3, <3>4, <3>5
  <2>6. WillNotify => sys_pc = "client"
    BY <1>2, <2>4 DEF Notices, Notified
  <2>7. /\ UNCHANGED <<requests, status, sys_pc, gp_int_service_response, destination>>
        /\ message_int' => Notified'
    BY <1>4 DEF CompleteRequest, Notified
  <2>8. Notices'
    BY <1>2, <2>5, <2>6, <2>7 DEF Notices
  <2>9. QED
    BY <2>2, <2>8 DEF Kept, LatestOnly
<1>5. CASE MessageIsr
  BY <1>1, <1>2, <1>5 DEF MessageIsr, Kept, LatestOnly, RequestStages, Outcomes,
       Polling, Notices, Notified, WillNotify, SysSafety, Delivered, SysTypeOK
<1>6. QED
  BY <1>3, <1>4, <1>5 DEF Controller

LEMMA SysInductive ==
  ASSUME SysInv, [SysNext]_sysVars
  PROVE  SysInv'
<1>1. SysTypeOK'
  BY SysTyped DEF SysInv
<1>2. ASSUME ~overlapped' PROVE Kept
  <2>1. CASE UNCHANGED sysVars
    BY <1>2, <2>1 DEF sysVars, Kept, SysInv, LatestOnly, RequestStages, Outcomes,
       Polling, Notices, Notified, WillNotify, SysSafety, Delivered, Waiting, Executing
  <2>2. CASE Services
    BY <1>1, <1>2, <2>2, ServicesAreRequests, RequestKeeps
  <2>3. CASE SysThread \/ ReadResponse \/ SelectServiceMode
    <3>1. overlapped' = overlapped
      BY <2>3 DEF SysThread, AwaitTaken, AwaitDone, CopyResponse, CopyToDeadFrame, ReadResponse,
         SelectServiceMode
    <3>2. QED
      BY <1>1, <1>2, <2>3, <3>1, ThreadKeeps
  <2>4. CASE Controller \/ MessageIsr
    <3>1. overlapped' = overlapped
      BY <2>4 DEF Controller, TakeRequest, CompleteRequest, MessageIsr
    <3>2. QED
      BY <1>1, <1>2, <2>4, <3>1, ControllerKeeps
  <2>5. QED
    BY <2>1, <2>2, <2>3, <2>4 DEF SysNext
<1>3. CASE overlapped'
  BY <1>1, <1>3 DEF SysInv, SysSafety
<1>4. CASE ~overlapped'
  BY <1>1, <1>2, <1>4 DEF SysInv, Kept
<1>5. QED
  BY <1>3, <1>4

LEMMA SysInitially == SysInit => SysInv
<1> SUFFICES ASSUME SysInit PROVE SysInv
  OBVIOUS
<1> USE SysAssumption DEF SysAssumption, SysInit, Requests, Destinations, Zeros
<1>1. SysTypeOK
  <2>1. {message_int, overlapped} \subseteq BOOLEAN
    OBVIOUS
  <2>2. /\ gp_int_service_response \in [of : 0..MaxRequests, to : {"buffer", "dead_frame", "none"}]
        /\ services_cr \in [request : 0..MaxRequests, notify : BOOLEAN]
        /\ services_sr \in [busy : 0..MaxRequests, notify : BOOLEAN, done : 0..MaxRequests]
    OBVIOUS
  <2>3. QED
    BY <2>1, <2>2 DEF SysTypeOK
<1>2. SysSafety
  BY DEF SysSafety
<1>3. RequestStages /\ Outcomes /\ Polling
  BY DEF RequestStages, Outcomes, Polling, Waiting, Executing
<1>4. Notices
  BY DEF Notices, Notified, WillNotify, Waiting, Executing
<1>5. QED
  BY <1>1, <1>2, <1>3, <1>4 DEF SysInv, LatestOnly

\* The variables of the system services driver keep their types, whatever overlaps.
THEOREM SysTyping == SysSpec => []SysTypeOK
<1>1. SysInit => SysTypeOK
  BY SysInitially DEF SysInv
<1>2. SysTypeOK /\ [SysNext]_sysVars => SysTypeOK'
  BY SysTyped
<1>3. QED
  BY <1>1, <1>2, PTL DEF SysSpec

\* A client whose requests do not overlap gets the status of the service it
\* requested, in both modes, however many it requests, and in its buffer nothing
\* but that service's response; the response is there with the status unless the
\* code never delivers it: MSS_SYS_query_security() and MSS_SYS_secure_nvm_read()
\* in interrupt mode leave zeros in the client's buffer (mss_sys_services.c:379-382,
\* 808-820), a failed polled MSS_SYS_secure_nvm_read() leaves it alone.
THEOREM ResponseIsItsOwn == SysSpec => []SysSafety
<1>1. SysInv /\ [SysNext]_sysVars => SysInv'
  BY SysInductive
<1>2. SysInv => SysSafety
  BY DEF SysInv
<1>3. QED
  BY <1>1, <1>2, SysInitially, PTL DEF SysSpec

------------------------------------------------------------------------------
\* The queues of the Ethernet MAC driver.

\* Of a set of numbers there is a least one.
LEMMA Least ==
  ASSUME NEW S, S \subseteq Nat, S # {}
  PROVE  \E x \in S : \A y \in S : x <= y
<1> DEFINE R == OpToRel(<, Nat)
<1>1. \A x, y \in Nat : <<y, x>> \in R <=> y < x
  BY DEF OpToRel
<1>2. IsWellFoundedOn(R, Nat)
  BY NatLessThanWellFounded
<1> HIDE DEF R
<1>3. PICK x \in S : \A y \in S : ~ (<<y, x>> \in R)
  BY <1>2, WFMin
<1>4. ASSUME NEW y \in S PROVE x <= y
  <2>1. x \in Nat /\ y \in Nat /\ ~ (<<y, x>> \in R)
    BY <1>3
  <2>2. ~ (y < x)
    BY <1>1, <2>1
  <2>3. QED BY <2>1, <2>2
<1>5. QED BY <1>4

LEMMA Wraps ==
  ASSUME NEW i \in 0..RxRing-1
  PROVE  (i + 1) % RxRing = IF i = RxRing - 1 THEN 0 ELSE i + 1
BY MacAssumption


RingTyped ==
  /\ enable_receive \in BOOLEAN /\ rx_dma \in 0..RxRing-1 /\ nb_available_rx_desc \in Nat
  /\ rx_desc \in [0..RxRing-1 -> [buffer : 0..RxBuffers, used : BOOLEAN]]
  /\ next_free_rx_desc_index \in 0..RxRing-1 /\ first_rx_desc_index \in 0..RxRing-1
  /\ received \in [0..RxBuffers -> 0..MaxFrames] /\ frames \in 0..MaxFrames
  /\ delivered \in Seq(0..MaxFrames)
QueuesTyped ==
  /\ tx_caller_info \in [MacQueues -> [0..TxRing-1 -> Nat]]
  /\ nb_available_tx_desc \in [MacQueues -> 1..TxRing]
  /\ current_tx_desc \in [MacQueues -> 0..TxRing-1]
  /\ accepted \in [MacQueues -> Nat]
  /\ called_back \in [MacQueues -> SUBSET Nat] /\ given_up \in [MacQueues -> SUBSET Nat]
SendingTyped ==
  /\ tx_desc \in [MacQueues -> [0..TxRing-1 -> {"ready", "used", "failed"}]]
  /\ tries \in [MacQueues -> 0..MaxTries+1] /\ tx_go \in BOOLEAN /\ tx_status \in BOOLEAN
HandlersTyped ==
  /\ int_status \in [MacQueues -> SUBSET Interrupts] /\ mac_isr \in IsrStates
PlicTyped == plic \subseteq MacQueues /\ mac_lost \in BOOLEAN

LEMMA MacTypes ==
  MacTypeOK <=> RingTyped /\ QueuesTyped /\ SendingTyped /\ HandlersTyped /\ PlicTyped
BY DEF MacTypeOK, RingTyped, QueuesTyped, SendingTyped, HandlersTyped, PlicTyped

Sends ==
  \/ \E q \in MacQueues : SendPkt(q) \/ SendPktBusy(q)
  \/ \E n \in [MacQueues -> 0..(TxRing - 1)] : SendPkts(n)
  \/ SendPktsBusy
Handles ==
  (\E q \in MacQueues : EnterIsr(q)) \/ ReceiveIsr \/ OthersIsr

LEMMA MacSteps ==
  MacNext <=> \/ ReceivePkt \/ Sends \/ Handles \/ RxPacket \/ RxNext \/ RxDone
              \/ TransmitIsr \/ RxFrame \/ TxFrame
BY DEF MacNext, MacClient, MacIsr, Sends, Handles

\* Which part of the state a step leaves as it is.
LEMMA SendsKeep ==
  Sends => UNCHANGED <<rxVars, int_status, mac_isr, mac_lost, called_back>>
BY DEF Sends, SendPkt, SendPktBusy, SendPkts, SendPktsBusy
LEMMA ReceivesKeep ==
  ReceivePkt \/ Handles \/ RxPacket \/ RxNext \/ RxDone \/ RxFrame => UNCHANGED <<txVars, mac_lost>>
BY DEF Handles, ReceivePkt, EnterIsr, ReceiveIsr, OthersIsr, RxPacket, RxNext, RxDone, RxFrame
LEMMA TransmitsKeep ==
  TransmitIsr \/ TxFrame => UNCHANGED <<rxVars, plic>>
BY DEF TransmitIsr, TxFrame

LEMMA PlicTypedStep ==
  ASSUME PlicTyped, HandlersTyped, MacNext
  PROVE  PlicTyped'
<1> USE MacAssumption DEF PlicTyped
<1>1. mac_lost' \in BOOLEAN
  <2>1. CASE TransmitIsr \/ TxFrame
    BY <2>1 DEF TransmitIsr, TxFrame
  <2>2. QED
    BY <2>1, MacSteps, SendsKeep, ReceivesKeep
<1>2. plic' \subseteq MacQueues
  <2>1. CASE Sends
    BY <2>1 DEF Sends, SendPkt, SendPktBusy, SendPkts, SendPktsBusy, EnableIrq
  <2>2. CASE ReceivePkt
    BY <2>2 DEF ReceivePkt
  <2>3. CASE ~Sends /\ ~ReceivePkt
    BY <2>3, MacSteps DEF Handles, EnterIsr, ReceiveIsr, OthersIsr, RxPacket, RxNext, RxDone,
      RxFrame, TransmitIsr, TxFrame
  <2>4. QED
    BY <2>1, <2>2, <2>3
<1>3. QED
  BY <1>1, <1>2

\* A record of the handler after one of its fields has changed.
LEMMA IsrRecord ==
  ASSUME NEW isr \in IsrStates
  PROVE  /\ isr = [queue |-> isr.queue, pending |-> isr.pending, burst |-> isr.burst, at |-> isr.at]
         /\ isr.queue \in MacQueues /\ isr.pending \subseteq Interrupts /\ isr.burst \in 0..RxRing
BY DEF IsrStates

LEMMA StartTyped ==
  ASSUME mac_isr \in IsrStates, NEW i, StartReceive(i)
  PROVE  mac_isr' \in IsrStates
<1>1. mac_isr' = [mac_isr EXCEPT !.burst = RxRing, !.at = "packet", !.pending = @ \ {i}]
  BY DEF StartReceive
<1>2. RxRing \in 0..RxRing /\ mac_isr.pending \ {i} \subseteq Interrupts
  BY IsrRecord, MacAssumption
<1>3. mac_isr' = [queue |-> mac_isr.queue, pending |-> mac_isr.pending \ {i}, burst |-> RxRing,
                  at |-> "packet"]
  BY <1>1 DEF IsrStates
<1>4. QED
  BY <1>2, <1>3, IsrRecord DEF IsrStates

LEMMA HandlersTypedStep ==
  ASSUME HandlersTyped, HandlerInStep, MacNext
  PROVE  HandlersTyped'
<1> USE MacAssumption DEF HandlersTyped, HandlerInStep
<1>1. int_status' \in [MacQueues -> SUBSET Interrupts]
  <2>1. CASE RxFrame
    BY <2>1 DEF RxFrame, Raise, Interrupts
  <2>2. CASE TxFrame
    <3>1. PICK q \in MacQueues : \/ int_status' = [int_status EXCEPT ![q] = @ \cup {"TRANSMIT_COMPLETE"}]
                                \/ int_status' = int_status
      BY <2>2 DEF TxFrame, Raise
    <3>2. QED
      BY <3>1 DEF Interrupts
  <2>3. CASE ~RxFrame /\ ~TxFrame
    BY <2>3, MacSteps, SendsKeep DEF Handles, EnterIsr, ReceiveIsr, OthersIsr, StartReceive, RxPacket,
      RxNext, RxDone, ReceivePkt, TransmitIsr
  <2>4. QED
    BY <2>1, <2>2, <2>3
<1>2. mac_isr' \in IsrStates
  <2> USE IsrRecord
  <2>1. CASE \E q \in MacQueues : EnterIsr(q)
    BY <2>1 DEF EnterIsr, IsrStates
  <2>2. CASE ReceiveIsr
    <3>1. \/ \E i \in Interrupts : StartReceive(i)
          \/ IsrAt("transmit")
      BY <2>2 DEF ReceiveIsr, Interrupts
    <3>2. QED
      BY <3>1, StartTyped DEF IsrAt, IsrStates
  <2>3. CASE OthersIsr
    <3>1. \/ \E i \in Interrupts : StartReceive(i)
          \/ mac_isr' = NoIsr
      BY <2>3 DEF OthersIsr, Interrupts
    <3>2. QED
      BY <3>1, StartTyped DEF IsrStates, NoIsr
  <2>4. CASE RxPacket \/ RxDone
    BY <2>4 DEF RxPacket, RxDone, IsrAt, IsrStates
  <2>5. CASE RxNext
    <3>1. mac_isr.at = "callback" /\ mac_isr' = [mac_isr EXCEPT !.at = "packet", !.burst = @ - 1]
      BY <2>5 DEF RxNext
    <3>2. mac_isr.burst - 1 \in 0..RxRing
      BY <3>1
    <3>3. QED
      BY <3>1, <3>2 DEF IsrStates
  <2>6. CASE TransmitIsr
    BY <2>6 DEF TransmitIsr, IsrStates
  <2>7. CASE ReceivePkt \/ RxFrame \/ TxFrame \/ Sends
    BY <2>7, SendsKeep DEF ReceivePkt, RxFrame, TxFrame
  <2>8. QED
    BY <2>1, <2>2, <2>3, <2>4, <2>5, <2>6, <2>7, MacSteps DEF Handles
<1>3. QED
  BY <1>1, <1>2

LEMMA TriesTyped ==
  ASSUME SendingTyped, NEW queues, TryAgain(queues)
  PROVE  tries' \in [MacQueues -> 0..MaxTries+1]
BY MacAssumption DEF SendingTyped, TryAgain

LEMMA ChainTyped ==
  ASSUME SendingTyped, NEW n \in [MacQueues -> 0..TxRing-1], Chain(n)
  PROVE  tx_desc' \in [MacQueues -> [0..TxRing-1 -> {"ready", "used", "failed"}]] /\ tx_go' \in BOOLEAN
<1>1. /\ tx_desc' = [q \in MacQueues |-> IF n[q] = 0 THEN tx_desc[q]
            ELSE [i \in 0..TxRing-1 |-> IF i < n[q] THEN "ready" ELSE "used"]]
      /\ tx_go' = (\E q \in MacQueues : n[q] > 0)
  BY DEF Chain
<1>2. QED
  BY <1>1, MacAssumption DEF SendingTyped

LEMMA SendingTypedStep ==
  ASSUME SendingTyped, MacNext
  PROVE  SendingTyped'
<1> USE MacAssumption
<1>1. CASE \E q \in MacQueues : SendPkt(q)
  <2>1. PICK q \in MacQueues : SendPkt(q)
    BY <1>1
  <2> DEFINE n == [p \in MacQueues |-> IF p = q THEN 1 ELSE 0]
  <2>2. n \in [MacQueues -> 0..TxRing-1]
    OBVIOUS
  <2>3. Chain(n) /\ tries' = [tries EXCEPT ![q] = 0] /\ tx_status' = tx_status
    BY <2>1 DEF SendPkt
  <2> HIDE DEF n
  <2>4. QED
    BY <2>2, <2>3, ChainTyped DEF SendingTyped
<1>2. CASE \E n \in [MacQueues -> 0..(TxRing - 1)] : SendPkts(n)
  <2>1. PICK n \in [MacQueues -> 0..(TxRing - 1)] : SendPkts(n)
    BY <1>2
  <2>2. Chain(n) /\ tries' = [q \in MacQueues |-> 0] /\ tx_status' = tx_status
    BY <2>1 DEF SendPkts
  <2>3. QED
    BY <2>2, ChainTyped DEF SendingTyped
<1>3. CASE \E q \in MacQueues : SendPktBusy(q)
  <2>1. PICK q \in MacQueues : SendPktBusy(q)
    BY <1>3
  <2>2. tries' \in [MacQueues -> 0..MaxTries+1]
    BY <2>1, TriesTyped DEF SendPktBusy
  <2>3. tx_go' \in BOOLEAN /\ UNCHANGED <<tx_desc, tx_status>>
    BY <2>1 DEF SendPktBusy, Kick
  <2>4. QED
    BY <2>2, <2>3 DEF SendingTyped
<1>4. CASE SendPktsBusy
  <2>1. tries' \in [MacQueues -> 0..MaxTries+1]
    BY <1>4, TriesTyped DEF SendPktsBusy
  <2>2. tx_go' \in BOOLEAN /\ UNCHANGED <<tx_desc, tx_status>>
    BY <1>4 DEF SendPktsBusy, Kick
  <2>3. QED
    BY <2>1, <2>2 DEF SendingTyped
<1>5. CASE TransmitIsr
  BY <1>5 DEF TransmitIsr, SendingTyped
<1>6. CASE TxFrame
  <2>1. PICK q \in MacQueues, i \in 0..TxRing-1 :
          \/ tx_desc' = [tx_desc EXCEPT ![q][i] = "used"]
          \/ tx_desc' = [tx_desc EXCEPT ![q][i] = "failed"]
    BY <1>6 DEF TxFrame
  <2>2. tx_desc' \in [MacQueues -> [0..TxRing-1 -> {"ready", "used", "failed"}]]
    <3>1. tx_desc[q] \in [0..TxRing-1 -> {"ready", "used", "failed"}]
      BY DEF SendingTyped
    <3>2. ASSUME NEW state \in {"used", "failed"}, tx_desc' = [tx_desc EXCEPT ![q][i] = state]
          PROVE  tx_desc' \in [MacQueues -> [0..TxRing-1 -> {"ready", "used", "failed"}]]
      <4> DEFINE row == [tx_desc[q] EXCEPT ![i] = state]
      <4>1. row \in [0..TxRing-1 -> {"ready", "used", "failed"}]
        BY <3>1
      <4>2. tx_desc' = [tx_desc EXCEPT ![q] = row]
        BY <3>2
      <4> HIDE DEF row
      <4>3. QED
        BY <4>1, <4>2 DEF SendingTyped
    <3>3. QED
      BY <2>1, <3>2
  <2>3. tx_go' \in BOOLEAN /\ tx_status' \in BOOLEAN /\ tries' = tries
    BY <1>6 DEF TxFrame, SendingTyped
  <2>4. QED
    BY <2>2, <2>3 DEF SendingTyped
<1>7. CASE ReceivePkt \/ Handles \/ RxPacket \/ RxNext \/ RxDone \/ RxFrame
  BY <1>7, ReceivesKeep DEF txVars, SendingTyped
<1>8. QED
  BY <1>1, <1>2, <1>3, <1>4, <1>5, <1>6, <1>7, MacSteps DEF Sends

\* The receive ring of queue 0.

RingInv == RingTyped /\ HandlersTyped /\ Attaching /\ RingInStep /\ HandlerInStep

LEMMA ReceivePktRing ==
  ASSUME RingInv, ReceivePkt
  PROVE  RingTyped' /\ Attaching' /\ RingInStep' /\ HandlerInStep'
<1> USE MacAssumption
<1> DEFINE nf == next_free_rx_desc_index
           b == nf + 1
           N == RxRing - 1
<1>1. /\ ~enable_receive /\ mac_isr.at = "exit" /\ nf = RxRing - nb_available_rx_desc
      /\ nb_available_rx_desc' = nb_available_rx_desc - 1
  BY DEF ReceivePkt, InThread, Attach
<1>2. UNCHANGED <<first_rx_desc_index, received, frames, delivered, int_status, mac_isr>>
  BY DEF ReceivePkt
<1>3. enable_receive' \in BOOLEAN /\ (enable_receive' <=> b = RxBuffers)
  BY DEF ReceivePkt
<1>4. /\ rx_desc' = [rx_desc EXCEPT ![nf] = [buffer |-> b, used |-> FALSE]]
      /\ nf' = (nf + 1) % RxRing
  BY DEF ReceivePkt, Attach
<1>5. /\ nf < RxBuffers /\ first_rx_desc_index = 0 /\ rx_dma = 0
      /\ frames = 0 /\ delivered = <<>> /\ received = [c \in 0..RxBuffers |-> 0]
      /\ \A q \in MacQueues : int_status[q] \cap Receptions = {}
      /\ mac_isr.pending \cap Receptions = {}
  BY <1>1 DEF RingInv, Attaching
<1>6. rx_desc = [i \in 0..N |-> [buffer |-> IF i < nf THEN i + 1 ELSE 0, used |-> FALSE]]
  BY <1>1 DEF RingInv, Attaching
<1>7. nf \in 0..N /\ nb_available_rx_desc \in Nat
  BY DEF RingInv, RingTyped
<1>8. nf' = IF nf = N THEN 0 ELSE b
  BY <1>4, <1>7, Wraps
<1>9. rx_dma' = 0
  BY <1>5 DEF ReceivePkt
<1>10. rx_desc' = [i \in 0..N |-> [buffer |-> IF i < b THEN i + 1 ELSE 0, used |-> FALSE]]
  <2>1. \A i \in 0..N : IF i = nf THEN i < b /\ i + 1 = b ELSE (i < b <=> i < nf)
    BY <1>7
  <2> HIDE DEF b, nf, N
  <2>2. QED
    BY <1>4, <1>6, <2>1
<1>11. nb_available_rx_desc' \in Nat
  BY <1>1, <1>5, <1>7
<1>12. nf' \in 0..N
  BY <1>7, <1>8
<1>13. rx_desc' \in [0..N -> [buffer : 0..RxBuffers, used : BOOLEAN]]
  <2>1. \A i \in 0..N : (IF i < b THEN i + 1 ELSE 0) \in 0..RxBuffers
    BY <1>5, <1>7
  <2> HIDE DEF b, nf, N
  <2>2. QED
    BY <1>10, <2>1
<1>14. RingTyped'
  <2>1. /\ first_rx_desc_index \in 0..RxRing-1 /\ received \in [0..RxBuffers -> 0..MaxFrames]
        /\ frames \in 0..MaxFrames /\ delivered \in Seq(0..MaxFrames)
    BY DEF RingInv, RingTyped
  <2>2. 0 \in 0..RxRing-1
    OBVIOUS
  <2>3. QED
    BY <2>1, <2>2, <1>2, <1>3, <1>9, <1>11, <1>12, <1>13 DEF RingTyped
<1>15. Attaching'
  <2> SUFFICES ASSUME ~enable_receive' PROVE Attaching'
    BY DEF Attaching
  <2>1. nf' = b /\ b < RxBuffers
    BY <1>3, <1>5, <1>7, <1>8
  <2>2. mac_isr'.at = "exit"
    BY <1>1, <1>2
  <2>3. QED
    BY <1>2, <1>5, <1>9, <1>10, <2>1, <2>2 DEF Attaching
<1>16. RingInStep'
  <2> SUFFICES ASSUME Full' PROVE RingInStep'
    BY DEF RingInStep
  <2>1. b = RxBuffers /\ nf' = 0 /\ b = RxRing
    BY <1>3, <1>7, <1>8 DEF Full
  <2>2. Filled' = 0 /\ Len(delivered') = 0
    <3>1. frames' = 0 /\ delivered' = <<>>
      BY <1>2, <1>5
    <3>2. Len(<<>>) = 0
      OBVIOUS
    <3>3. Len(delivered') = 0
      BY <3>1, <3>2
    <3>4. Filled' = frames' - Len(delivered')
      BY DEF Filled
    <3>5. frames' - Len(delivered') = 0 - 0
      BY <3>1, <3>3
    <3>6. QED
      BY <3>3, <3>4, <3>5
  <2>3. \A i \in 0..N : Ahead(i)' = i
    BY <2>1 DEF Ahead
  <2>4. \A i \in 0..N : rx_desc'[i].buffer = i + 1 /\ ~rx_desc'[i].used
    BY <1>10, <2>1
  <2>5. Ahead(rx_dma)' = 0
    BY <1>9, <2>1 DEF Ahead
  <2>6. received'[0] = 0
    BY <1>2, <1>5
  <2>7. QED
    BY <2>1, <2>2, <2>3, <2>4, <2>5, <2>6 DEF RingInStep
<1>17. HandlerInStep'
  <2>1. mac_isr'.at = "exit" /\ (Full' => nf' = first_rx_desc_index')
    BY <1>1, <1>2, <1>3, <1>5, <1>7, <1>8 DEF Full
  <2>2. QED
    BY <2>1 DEF HandlerInStep
<1>18. QED
  BY <1>14, <1>15, <1>16, <1>17

\* A step that leaves the ring alone, and of the handler changes nothing it goes by.
LEMMA RingLeft ==
  ASSUME RingInv, UNCHANGED rxVars,
         ~enable_receive => /\ \A q \in MacQueues : int_status'[q] \cap Receptions = {}
                            /\ mac_isr'.pending \cap Receptions = {}
                            /\ mac_isr'.at \notin {"packet", "callback"},
         mac_isr'.at = "callback" <=> mac_isr.at = "callback",
         mac_isr'.at = "callback" => mac_isr'.burst > 0
  PROVE  RingTyped' /\ Attaching' /\ RingInStep' /\ HandlerInStep'
<1> USE DEF RingInv, rxVars
<1>1. RingTyped'
  BY DEF RingTyped
<1>2. Attaching'
  BY DEF Attaching
<1>3. RingInStep'
  <2>1. Full' = Full /\ Filled' = Filled /\ Ahead(rx_dma)' = Ahead(rx_dma)
    BY DEF Full, Filled, Ahead
  <2>2. \A i \in 0..RxRing-1 : Ahead(i)' = Ahead(i)
    BY DEF Ahead
  <2>3. QED
    BY <2>1, <2>2 DEF RingInStep
<1>4. HandlerInStep'
  BY DEF HandlerInStep, Full
<1>5. QED
  BY <1>1, <1>2, <1>3, <1>4

LEMMA RxPacketRing ==
  ASSUME RingInv, RxPacket
  PROVE  RingTyped' /\ Attaching' /\ RingInStep' /\ HandlerInStep'
<1> USE MacAssumption
<1> DEFINE nf == next_free_rx_desc_index
           desc == rx_desc[first_rx_desc_index]
           N == RxRing - 1
<1>1. /\ mac_isr.at = "packet" /\ mac_isr.burst > 0 /\ desc.used
      /\ mac_isr' = [mac_isr EXCEPT !.at = "callback"]
  BY DEF RxPacket, IsrAt
<1>2. UNCHANGED <<enable_receive, rx_dma, first_rx_desc_index, received, frames>>
  BY DEF RxPacket
<1>4. enable_receive /\ enable_receive'
  BY <1>1, <1>2 DEF RingInv, Attaching, RingTyped
<1>5. mac_isr'.at = "callback" /\ mac_isr'.burst > 0
  BY <1>1, IsrRecord DEF RingInv, HandlersTyped, IsrStates
<1>6. RingTyped
  BY DEF RingInv
<1>7. /\ rx_desc \in [0..N -> [buffer : 0..RxBuffers, used : BOOLEAN]] /\ nf \in 0..N
      /\ desc.buffer \in 0..RxBuffers /\ received[desc.buffer] \in 0..MaxFrames
      /\ delivered \in Seq(0..MaxFrames)
  BY <1>6 DEF RingTyped
<1>8. RingTyped'
  <2>1. CASE desc.buffer = 0
    <3>1. UNCHANGED <<rx_desc, nf, delivered>> /\ nb_available_rx_desc' = nb_available_rx_desc + 1
      BY <2>1 DEF RxPacket
    <3>2. QED
      BY <1>2, <1>6, <3>1 DEF RingTyped
  <2>2. CASE desc.buffer # 0
    <3>1. /\ delivered' = Append(delivered, received[desc.buffer])
          /\ rx_desc' = [rx_desc EXCEPT ![nf] = [buffer |-> desc.buffer, used |-> FALSE]]
          /\ nf' = (nf + 1) % RxRing /\ UNCHANGED nb_available_rx_desc
      BY <2>2 DEF RxPacket
    <3>2. nf' \in 0..N
      BY <1>7, <3>1, Wraps
    <3>3. delivered' \in Seq(0..MaxFrames)
      BY <1>7, <3>1
    <3>4. rx_desc' \in [0..N -> [buffer : 0..RxBuffers, used : BOOLEAN]]
      BY <1>7, <3>1
    <3>5. QED
      BY <1>2, <1>6, <3>1, <3>2, <3>3, <3>4 DEF RingTyped
  <2>3. QED
    BY <2>1, <2>2
<1>9. Attaching'
  BY <1>4 DEF Attaching
<1>10. RingInStep' /\ HandlerInStep'
  <2>1. CASE ~Full
    BY <1>2, <1>4, <1>5, <2>1 DEF Full, RingInStep, HandlerInStep
  <2>2. CASE Full
    <3>1. /\ Filled \in 0..RxRing
          /\ IF Filled = RxRing THEN rx_dma = nf ELSE Ahead(rx_dma) = Filled
          /\ \A i \in 0..N :
               /\ rx_desc[i].buffer = i + 1
               /\ rx_desc[i].used <=> Ahead(i) < Filled
               /\ rx_desc[i].used => received[i + 1] = Len(delivered) + Ahead(i) + 1
          /\ received[0] = 0
          /\ \A k \in 1..Len(delivered) : delivered[k] = k
      BY <2>2 DEF RingInv, RingInStep
    <3>2. nf = first_rx_desc_index
      BY <1>1, <2>2 DEF RingInv, HandlerInStep
    <3>3. Full' /\ RxBuffers = RxRing
      BY <1>4, <2>2 DEF Full
    <3>4. desc.buffer = nf + 1 /\ desc.used
      BY <1>1, <1>7, <3>1, <3>2
    <3>5. /\ delivered' = Append(delivered, received[nf + 1])
          /\ rx_desc' = [rx_desc EXCEPT ![nf] = [buffer |-> nf + 1, used |-> FALSE]]
          /\ nf' = (nf + 1) % RxRing
      BY <1>7, <3>2, <3>4 DEF RxPacket
    <3>6. Ahead(nf) = 0 /\ Filled > 0 /\ received[nf + 1] = Len(delivered) + 1
      <4>1. Ahead(nf) = 0
        BY <1>7 DEF Ahead
      <4>2. QED
        BY <1>7, <3>1, <3>2, <3>4, <4>1
    <3>7. Len(delivered) \in Nat /\ frames \in Nat /\ rx_dma \in 0..N
      BY <1>6 DEF RingTyped
    <3>8. /\ Len(delivered') = Len(delivered) + 1
          /\ \A k \in 1..Len(delivered') : delivered'[k] = k
      <4>1. received[nf + 1] \in 0..MaxFrames
        BY <1>7, <3>4
      <4> DEFINE d == received[nf + 1]
      <4>2. /\ Len(delivered') = Len(delivered) + 1 /\ delivered'[Len(delivered) + 1] = d
            /\ \A k \in 1..Len(delivered) : delivered'[k] = delivered[k]
        BY <1>7, <3>5, <4>1, AppendProperties
      <4>3. QED
        BY <3>1, <3>6, <3>7, <4>2
    <3>9. Filled' = Filled - 1
      BY <1>2, <3>7, <3>8 DEF Filled
    <3>10. nf' = IF nf = N THEN 0 ELSE nf + 1
      BY <1>7, <3>5, Wraps
    <3>11. \A i \in 0..N : Ahead(i) \in 0..N /\ Ahead(i)' = IF i = nf THEN N ELSE Ahead(i) - 1
      BY <1>7, <3>10 DEF Ahead
    <3>12. \A i \in 0..N :
             /\ rx_desc'[i].buffer = i + 1
             /\ rx_desc'[i].used <=> Ahead(i)' < Filled'
             /\ rx_desc'[i].used => received'[i + 1] = Len(delivered') + Ahead(i)' + 1
      <4> SUFFICES ASSUME NEW i \in 0..N
                   PROVE  /\ rx_desc'[i].buffer = i + 1
                          /\ rx_desc'[i].used <=> Ahead(i)' < Filled'
                          /\ rx_desc'[i].used => received'[i + 1] = Len(delivered') + Ahead(i)' + 1
        OBVIOUS
      <4> DEFINE a == Ahead(i)
                 b == Ahead(i)'
                 len == Len(delivered)
                 next == Len(delivered')
                 f == Filled
                 g == Filled'
      <4>1. /\ a \in 0..N /\ b = (IF i = nf THEN N ELSE a - 1) /\ g = f - 1 /\ next = len + 1
            /\ f \in 0..RxRing /\ len \in Nat
        BY <3>1, <3>7, <3>8, <3>9, <3>11
      <4>2. CASE i = nf
        <5>1. rx_desc'[i] = [buffer |-> i + 1, used |-> FALSE]
          BY <1>7, <3>5, <4>2
        <5>2. ~(b < g)
          BY <4>1, <4>2
        <5>3. QED
          BY <5>1, <5>2
      <4>3. CASE i # nf
        <5>1. rx_desc'[i] = rx_desc[i] /\ received' = received
          BY <1>2, <1>7, <3>5, <4>3
        <5>2. /\ rx_desc[i].buffer = i + 1
              /\ rx_desc[i].used <=> a < f
              /\ rx_desc[i].used => received[i + 1] = len + a + 1
          BY <3>1
        <5> HIDE DEF a, b, len, next, f, g, nf, N
        <5>3. (a < f <=> b < g) /\ len + a + 1 = next + b + 1
          BY <4>1, <4>3 DEF N
        <5>4. QED
          BY <5>1, <5>2, <5>3 DEF a, b, len, next, f, g
      <4>4. QED
        BY <4>2, <4>3
    <3>13. Filled' \in 0..RxRing /\ Filled' # RxRing /\ Ahead(rx_dma)' = Filled'
      <4>1. CASE Filled = RxRing
        BY <3>1, <3>7, <3>9, <3>11, <4>1, <1>2 DEF Ahead
      <4>2. CASE Filled # RxRing
        <5>1. Ahead(rx_dma) = Filled /\ rx_dma # nf
          BY <3>1, <3>6, <4>2
        <5>2. \A i \in 0..N : i = rx_dma => Ahead(i)' = Filled - 1
          BY <3>11, <5>1
        <5>3. Ahead(rx_dma)' = Filled - 1
          <6> DEFINE dma == rx_dma
          <6>1. dma' = dma /\ dma \in 0..N
            BY <1>2, <3>7
          <6>2. QED
            BY <5>2, <6>1 DEF Ahead
        <5>4. QED
          BY <3>1, <3>6, <3>9, <4>2, <5>3
      <4>3. QED
        BY <4>1, <4>2
    <3>14. RingInStep'
      BY <1>2, <3>1, <3>8, <3>12, <3>13 DEF RingInStep
    <3>15. HandlerInStep'
      BY <1>2, <1>5, <3>2, <3>5 DEF HandlerInStep
    <3>16. QED
      BY <3>14, <3>15
  <2>3. QED
    BY <2>1, <2>2
<1>11. QED
  BY <1>8, <1>9, <1>10

LEMMA RxNextRing ==
  ASSUME RingInv, RxNext
  PROVE  RingTyped' /\ Attaching' /\ RingInStep' /\ HandlerInStep'
<1>1. /\ mac_isr.at = "callback" /\ first_rx_desc_index' = (first_rx_desc_index + 1) % RxRing
      /\ mac_isr' = [mac_isr EXCEPT !.at = "packet", !.burst = @ - 1]
      /\ UNCHANGED <<enable_receive, rx_desc, rx_dma, nb_available_rx_desc, next_free_rx_desc_index,
                     received, frames, delivered>>
  BY DEF RxNext
<1>2. enable_receive /\ enable_receive' /\ mac_isr'.at = "packet"
  BY <1>1, IsrRecord DEF RingInv, Attaching, HandlersTyped, IsrStates
<1>3. RingTyped'
  <2>1. first_rx_desc_index' \in 0..RxRing-1
    <3>1. first_rx_desc_index \in 0..RxRing-1
      BY DEF RingInv, RingTyped
    <3>2. first_rx_desc_index' = IF first_rx_desc_index = RxRing - 1 THEN 0 ELSE first_rx_desc_index + 1
      BY <1>1, <3>1, Wraps
    <3>3. QED
      BY <3>1, <3>2, MacAssumption
  <2>2. QED
    BY <1>1, <2>1 DEF RingInv, RingTyped
<1>4. Attaching'
  BY <1>2 DEF Attaching
<1>5. RingInStep'
  <2>1. Full' = Full /\ Filled' = Filled /\ Ahead(rx_dma)' = Ahead(rx_dma)
    BY <1>1 DEF Full, Filled, Ahead
  <2>2. \A i \in 0..RxRing-1 : Ahead(i)' = Ahead(i)
    BY <1>1 DEF Ahead
  <2>3. QED
    BY <1>1, <2>1, <2>2 DEF RingInv, RingInStep
<1>6. HandlerInStep'
  BY <1>1, <1>2 DEF RingInv, HandlerInStep, Full
<1>7. QED
  BY <1>3, <1>4, <1>5, <1>6

LEMMA RxDoneRing ==
  ASSUME RingInv, RxDone
  PROVE  RingTyped' /\ Attaching' /\ RingInStep' /\ HandlerInStep'
<1>1. mac_isr.at = "packet" /\ mac_isr' = [mac_isr EXCEPT !.at = "transmit"]
  BY DEF RxDone, IsrAt
<1>2. enable_receive /\ mac_isr'.at = "transmit"
  BY <1>1, IsrRecord DEF RingInv, Attaching, HandlersTyped, IsrStates
<1>3. UNCHANGED rxVars
  BY <1>2 DEF RxDone, rxVars, RingInv, RingTyped
<1>4. QED
  BY <1>1, <1>2, <1>3, RingLeft

LEMMA RxFrameRing ==
  ASSUME RingInv, RxFrame
  PROVE  RingTyped' /\ Attaching' /\ RingInStep' /\ HandlerInStep'
<1> USE MacAssumption
<1> DEFINE desc == rx_desc[rx_dma]
           N == RxRing - 1
<1>1. /\ enable_receive /\ frames < MaxFrames
      /\ UNCHANGED <<enable_receive, nb_available_rx_desc, next_free_rx_desc_index,
                     first_rx_desc_index, delivered, mac_isr>>
  BY DEF RxFrame
<1>2. RingTyped
  BY DEF RingInv
<1>3. /\ rx_desc \in [0..N -> [buffer : 0..RxBuffers, used : BOOLEAN]] /\ rx_dma \in 0..N
      /\ desc.buffer \in 0..RxBuffers /\ received \in [0..RxBuffers -> 0..MaxFrames]
      /\ frames \in Nat /\ frames + 1 \in 0..MaxFrames /\ Len(delivered) \in Nat
      /\ next_free_rx_desc_index \in 0..N
  BY <1>1, <1>2 DEF RingTyped
<1>4. CASE desc.used
  <2>1. UNCHANGED rxVars
    BY <1>4 DEF RxFrame, rxVars
  <2>2. QED
    BY <1>1, <2>1, RingLeft DEF RingInv, HandlerInStep
<1>5. CASE ~desc.used
  <2>1. /\ rx_desc' = [rx_desc EXCEPT ![rx_dma].used = TRUE]
        /\ rx_dma' = (rx_dma + 1) % RxRing /\ frames' = frames + 1
        /\ received' = [received EXCEPT ![desc.buffer] = frames + 1]
    BY <1>5 DEF RxFrame
  <2>2. rx_dma' = IF rx_dma = N THEN 0 ELSE rx_dma + 1
    BY <1>3, <2>1, Wraps
  <2>3. RingTyped'
    <3>1. rx_desc' \in [0..N -> [buffer : 0..RxBuffers, used : BOOLEAN]]
      BY <1>3, <2>1
    <3>2. received' \in [0..RxBuffers -> 0..MaxFrames]
      BY <1>3, <2>1
    <3>3. rx_dma' \in 0..N
      BY <1>3, <2>2
    <3>4. QED
      BY <1>1, <1>2, <1>3, <2>1, <3>1, <3>2, <3>3 DEF RingTyped
  <2>4. Attaching'
    BY <1>1 DEF Attaching
  <2>5. HandlerInStep'
    BY <1>1 DEF RingInv, HandlerInStep, Full
  <2>6. RingInStep'
    <3>1. CASE ~Full
      BY <1>1, <3>1 DEF Full, RingInStep
    <3>2. CASE Full
      <4>1. /\ Filled \in 0..RxRing
            /\ IF Filled = RxRing THEN rx_dma = next_free_rx_desc_index ELSE Ahead(rx_dma) = Filled
            /\ \A i \in 0..N :
                 /\ rx_desc[i].buffer = i + 1
                 /\ rx_desc[i].used <=> Ahead(i) < Filled
                 /\ rx_desc[i].used => received[i + 1] = Len(delivered) + Ahead(i) + 1
            /\ received[0] = 0
            /\ \A k \in 1..Len(delivered) : delivered[k] = k
        BY <3>2 DEF RingInv, RingInStep
      <4>2. Full' /\ RxBuffers = RxRing
        BY <1>1, <3>2 DEF Full
      <4>3. \A i \in 0..N : Ahead(i) \in 0..N /\ Ahead(i)' = Ahead(i)
        BY <1>1, <1>3 DEF Ahead
      <4>4. Ahead(rx_dma) = Filled /\ Filled < RxRing
        <5>1. ~(Ahead(rx_dma) < Filled)
          BY <1>3, <1>5, <4>1
        <5>2. Ahead(rx_dma) \in 0..N
          BY <1>3, <4>3
        <5> DEFINE a == Ahead(rx_dma)
                   f == Filled
        <5>3. a \in 0..N /\ f \in 0..RxRing /\ ~(a < f) /\ (f # RxRing => a = f)
          BY <4>1, <5>1, <5>2
        <5> HIDE DEF a, f
        <5>4. a = f /\ f < RxRing
          BY <5>3
        <5>5. QED
          BY <5>4 DEF a, f
      <4>5. Filled' = Filled + 1
        BY <1>1, <1>3, <2>1 DEF Filled
      <4>6. \A i \in 0..N : Ahead(i) = Filled => i = rx_dma
        BY <1>3, <4>4 DEF Ahead
      <4>7. desc.buffer = rx_dma + 1
        BY <1>3, <4>1
      <4>8. received'[0] = 0 /\ received'[rx_dma + 1] = frames + 1
        BY <1>3, <2>1, <4>1, <4>2, <4>7
      <4>9. frames + 1 = Len(delivered) + Filled + 1
        BY <1>3 DEF Filled
      <4>10. ASSUME NEW i \in 0..N
             PROVE  /\ rx_desc'[i].buffer = i + 1
                    /\ rx_desc'[i].used <=> Ahead(i)' < Filled'
                    /\ rx_desc'[i].used => received'[i + 1] = Len(delivered') + Ahead(i)' + 1
        <5> DEFINE a == Ahead(i)
                   b == Ahead(i)'
                   f == Filled
                   g == Filled'
        <5>1. /\ a \in 0..N /\ b = a /\ g = f + 1 /\ f \in 0..RxRing
              /\ Len(delivered') = Len(delivered)
          BY <1>1, <4>1, <4>3, <4>5
        <5>2. CASE i = rx_dma
          <6>1. rx_desc'[i].buffer = i + 1 /\ rx_desc'[i].used
            BY <1>3, <2>1, <4>7, <5>2
          <6>2. a = f /\ received'[i + 1] = frames + 1
            BY <4>4, <4>8, <5>2
          <6> HIDE DEF a, b, f, g, N
          <6>3. b < g /\ frames + 1 = Len(delivered') + b + 1
            BY <4>9, <5>1, <6>2 DEF f
          <6>4. QED
            BY <6>1, <6>2, <6>3 DEF b, g
        <5>3. CASE i # rx_dma
          <6>1. rx_desc'[i] = rx_desc[i]
            BY <1>3, <2>1, <5>3
          <6>2. received'[i + 1] = received[i + 1]
            BY <1>3, <2>1, <4>2, <4>7, <5>3
          <6>3. a # f
            BY <4>6, <5>3
          <6>4. /\ rx_desc[i].buffer = i + 1
                /\ rx_desc[i].used <=> a < f
                /\ rx_desc[i].used => received[i + 1] = Len(delivered) + a + 1
            BY <4>1
          <6> HIDE DEF a, b, f, g, N
          <6>5. a < f <=> b < g
            BY <5>1, <6>3 DEF N
          <6>6. QED
            BY <5>1, <6>1, <6>2, <6>4, <6>5 DEF a, b, f, g
        <5>4. QED
          BY <5>2, <5>3
      <4>11. IF Filled' = RxRing THEN rx_dma' = next_free_rx_desc_index' ELSE Ahead(rx_dma)' = Filled'
        <5> DEFINE nf == next_free_rx_desc_index
                   dma == rx_dma
                   f == Filled
        <5>1. nf' = nf /\ nf \in 0..N /\ dma \in 0..N /\ f < RxRing /\ Filled' = f + 1
          BY <1>1, <1>3, <4>4, <4>5
        <5>2. IF dma < nf THEN dma + RxRing - nf = f ELSE dma - nf = f
          BY <4>4 DEF Ahead
        <5>3. dma' = IF dma = N THEN 0 ELSE dma + 1
          BY <2>2
        <5>4. f \in Nat
          BY <4>1
        <5>5. CASE f + 1 = RxRing
          <6> HIDE DEF dma, nf, f
          <6>1. dma' = nf'
            BY <5>1, <5>2, <5>3, <5>4, <5>5
          <6>2. QED
            BY <5>1, <5>5, <6>1 DEF dma, nf
        <5>6. CASE f + 1 # RxRing
          <6> HIDE DEF dma, nf, f
          <6>1. IF dma' < nf' THEN dma' + RxRing - nf' = f + 1 ELSE dma' - nf' = f + 1
            BY <5>1, <5>2, <5>3, <5>4, <5>6
          <6>2. Ahead(rx_dma)' = f + 1
            BY <6>1 DEF Ahead, dma, nf
          <6>3. QED
            BY <5>1, <5>6, <6>2
        <5>7. QED
          BY <5>5, <5>6
      <4>12. Filled' \in 0..RxRing
        BY <4>1, <4>4, <4>5
      <4>13. QED
        BY <1>1, <4>1, <4>8, <4>10, <4>11, <4>12 DEF RingInStep
    <3>3. QED
      BY <3>1, <3>2
  <2>7. QED
    BY <2>3, <2>4, <2>5, <2>6
<1>6. QED
  BY <1>4, <1>5

\* The steps that only move a handler on, and those of the transmit queues.
LEMMA RingKept ==
  ASSUME RingInv, Handles \/ Sends \/ TransmitIsr \/ TxFrame
  PROVE  RingTyped' /\ Attaching' /\ RingInStep' /\ HandlerInStep'
<1> USE IsrRecord
<1> DEFINE NotReceiving ==
      ~enable_receive => /\ \A q \in MacQueues : int_status[q] \cap Receptions = {}
                         /\ mac_isr.pending \cap Receptions = {}
                         /\ mac_isr.at \notin {"packet", "callback"}
<1>1. NotReceiving /\ HandlersTyped /\ HandlerInStep
  BY DEF RingInv, Attaching
<1>2. mac_isr \in IsrStates /\ int_status \in [MacQueues -> SUBSET Interrupts]
  BY <1>1 DEF HandlersTyped
<1>3. CASE \E q \in MacQueues : EnterIsr(q)
  <2>1. PICK q \in MacQueues :
          /\ mac_isr' = [queue |-> q, pending |-> int_status[q], burst |-> 0, at |-> "receive"]
          /\ UNCHANGED <<rxVars, int_status>> /\ mac_isr.at = "exit"
    BY <1>3 DEF EnterIsr, InThread
  <2>2. QED
    BY <1>1, <2>1, RingLeft
<1>4. ASSUME NEW i \in Receptions, StartReceive(i), i \in mac_isr.pending,
             mac_isr.at \notin {"packet", "callback"}, UNCHANGED rxVars
      PROVE  RingTyped' /\ Attaching' /\ RingInStep' /\ HandlerInStep'
  <2>1. enable_receive
    BY <1>1, <1>4
  <2>2. mac_isr'.at = "packet"
    BY <1>2, <1>4 DEF StartReceive, IsrStates
  <2>3. QED
    BY <1>4, <2>1, <2>2, RingLeft
<1>5. CASE ReceiveIsr
  <2>1. UNCHANGED rxVars /\ mac_isr.at = "receive"
    BY <1>5 DEF ReceiveIsr
  <2>2. CASE "RECEIVE_COMPLETE" \in mac_isr.pending
    BY <1>4, <1>5, <2>1, <2>2 DEF ReceiveIsr, Receptions
  <2>3. CASE "RECEIVE_COMPLETE" \notin mac_isr.pending
    <3>1. mac_isr' = [mac_isr EXCEPT !.at = "transmit"] /\ UNCHANGED int_status
      BY <1>5, <2>3 DEF ReceiveIsr, IsrAt
    <3>2. mac_isr'.at = "transmit" /\ mac_isr'.pending = mac_isr.pending
      BY <1>2, <3>1 DEF IsrStates
    <3>3. QED
      BY <1>1, <2>1, <3>1, <3>2, RingLeft
  <2>4. QED
    BY <2>2, <2>3
<1>6. CASE OthersIsr
  <2>1. UNCHANGED rxVars /\ mac_isr.at = "others"
    BY <1>6 DEF OthersIsr
  <2>2. CASE "RX_USED_BIT_READ" \in mac_isr.pending
    BY <1>4, <1>6, <2>1, <2>2 DEF OthersIsr, Receptions
  <2>3. CASE "RX_USED_BIT_READ" \notin mac_isr.pending
    <3>1. mac_isr' = NoIsr /\ UNCHANGED int_status
      BY <1>6, <2>3 DEF OthersIsr
    <3>2. mac_isr'.at = "exit" /\ mac_isr'.pending = {}
      BY <3>1 DEF NoIsr
    <3>3. QED
      BY <1>1, <2>1, <3>1, <3>2, RingLeft
  <2>4. QED
    BY <2>2, <2>3
<1>7. CASE Sends
  <2>1. UNCHANGED <<rxVars, int_status, mac_isr>>
    BY <1>7, SendsKeep
  <2>2. QED
    BY <1>1, <2>1, RingLeft DEF HandlerInStep
<1>8. CASE TransmitIsr
  <2>1. /\ UNCHANGED rxVars /\ mac_isr.at = "transmit"
        /\ mac_isr' = [mac_isr EXCEPT !.at = "others", !.pending = @ \ {"TRANSMIT_COMPLETE"}]
        /\ \A q \in MacQueues : int_status'[q] \subseteq int_status[q]
    BY <1>2, <1>8 DEF TransmitIsr
  <2>2. mac_isr'.at = "others" /\ mac_isr'.pending \subseteq mac_isr.pending
    BY <1>2, <2>1 DEF IsrStates
  <2>3. QED
    BY <1>1, <2>1, <2>2, RingLeft
<1>9. CASE TxFrame
  <2>1. UNCHANGED <<rxVars, mac_isr>>
    BY <1>9 DEF TxFrame
  <2>2. PICK p \in MacQueues : \/ int_status' = [int_status EXCEPT ![p] = @ \cup {"TRANSMIT_COMPLETE"}]
                               \/ int_status' = int_status
    BY <1>9 DEF TxFrame, Raise
  <2>3. ~enable_receive => \A q \in MacQueues : int_status'[q] \cap Receptions = {}
    BY <1>1, <1>2, <2>2 DEF Receptions
  <2>4. QED
    BY <1>1, <2>1, <2>3, RingLeft DEF HandlerInStep
<1>10. QED
  BY <1>3, <1>5, <1>6, <1>7, <1>8, <1>9 DEF Handles

LEMMA RingStep ==
  ASSUME RingInv, MacNext
  PROVE  RingInv'
<1>1. RingTyped' /\ Attaching' /\ RingInStep' /\ HandlerInStep'
  BY MacSteps, ReceivePktRing, RxPacketRing, RxNextRing, RxDoneRing, RxFrameRing, RingKept
<1>2. HandlersTyped'
  BY HandlersTypedStep DEF RingInv
<1>3. QED
  BY <1>1, <1>2 DEF RingInv

\* The transmit queues.

QueuesInv == QueuesTyped /\ \A q \in MacQueues : QueueInStep(q)

LEMMA HeldTyped ==
  ASSUME QueuesTyped, NEW q \in MacQueues
  PROVE  /\ Held(q) \in 0..TxRing-1 /\ accepted[q] \in Nat /\ current_tx_desc[q] \in 0..TxRing-1
         /\ nb_available_tx_desc[q] \in 1..TxRing /\ TxRing \in Nat
<1>1. nb_available_tx_desc[q] \in 1..TxRing /\ accepted[q] \in Nat
      /\ current_tx_desc[q] \in 0..TxRing-1
  BY DEF QueuesTyped
<1>2. TxRing \in Nat
  BY MacAssumption
<1>3. Held(q) \in 0..TxRing-1
  BY <1>1, <1>2 DEF Held
<1>4. QED
  BY <1>1, <1>2, <1>3

\* A queue of which nothing that matters here has changed.
LEMMA QueueLeft ==
  ASSUME NEW q, QueueInStep(q),
         /\ tx_caller_info'[q] = tx_caller_info[q] /\ accepted'[q] = accepted[q]
         /\ nb_available_tx_desc'[q] = nb_available_tx_desc[q]
         /\ current_tx_desc'[q] = current_tx_desc[q]
         /\ called_back'[q] = called_back[q] /\ given_up'[q] = given_up[q]
  PROVE  QueueInStep(q)'
<1>1. Held(q)' = Held(q)
  BY DEF Held
<1>2. QED
  BY <1>1 DEF QueueInStep

LEMMA ChainQueues ==
  ASSUME QueuesInv, NEW n \in [MacQueues -> 0..TxRing-1], Chain(n),
         \A q \in MacQueues : n[q] # 0 => Available(q), UNCHANGED <<called_back, given_up>>
  PROVE  QueuesInv'
<1> USE MacAssumption
<1>1. /\ tx_caller_info' = [q \in MacQueues |-> IF n[q] = 0 THEN tx_caller_info[q]
           ELSE [i \in 0..TxRing-1 |-> IF i < n[q] THEN accepted[q] + i + 1 ELSE 0]]
      /\ nb_available_tx_desc' = [q \in MacQueues |-> nb_available_tx_desc[q] - n[q]]
      /\ current_tx_desc' = [q \in MacQueues |-> IF n[q] = 0 THEN current_tx_desc[q] ELSE 0]
      /\ accepted' = [q \in MacQueues |-> accepted[q] + n[q]]
  BY DEF Chain
<1>2. QueuesTyped
  BY DEF QueuesInv
<1>3. ASSUME NEW q \in MacQueues
      PROVE  /\ tx_caller_info'[q] \in [0..TxRing-1 -> Nat] /\ accepted'[q] \in Nat
             /\ nb_available_tx_desc'[q] \in 1..TxRing /\ current_tx_desc'[q] \in 0..TxRing-1
             /\ QueueInStep(q)'
  <2> DEFINE nb == nb_available_tx_desc[q]
             a == accepted[q]
             m == n[q]
  <2>1. nb \in 1..TxRing /\ a \in Nat /\ m \in 0..TxRing-1 /\ TxRing \in Nat
    BY <1>2, HeldTyped
  <2>2. CASE m = 0
    <3>1. /\ tx_caller_info'[q] = tx_caller_info[q] /\ accepted'[q] = accepted[q]
          /\ nb_available_tx_desc'[q] = nb /\ current_tx_desc'[q] = current_tx_desc[q]
          /\ called_back'[q] = called_back[q] /\ given_up'[q] = given_up[q]
      BY <1>1, <2>1, <2>2
    <3>2. QueueInStep(q)'
      BY <3>1, QueueLeft DEF QueuesInv
    <3>3. QED
      BY <1>2, <3>1, <3>2 DEF QueuesTyped
  <2>3. CASE m # 0
    <3>1. nb = TxRing
      BY <2>3 DEF Available
    <3>2. /\ tx_caller_info'[q] = [i \in 0..TxRing-1 |-> IF i < m THEN a + i + 1 ELSE 0]
          /\ nb_available_tx_desc'[q] = TxRing - m /\ current_tx_desc'[q] = 0
          /\ accepted'[q] = a + m
      BY <1>1, <2>3, <3>1
    <3>3. Held(q) = 0 /\ Held(q)' = m
      BY <2>1, <3>1, <3>2 DEF Held
    <3>4. called_back[q] \cup given_up[q] = 1..a /\ called_back[q] \cap given_up[q] = {}
      BY <2>1, <3>3 DEF QueuesInv, QueueInStep
    <3>5. TxRing - m \in 1..TxRing /\ a + m \in Nat /\ a + m - m = a /\ 0 \in 0..TxRing-1
      BY <2>1
    <3> HIDE DEF nb, a, m
    <3>6. tx_caller_info'[q] \in [0..TxRing-1 -> Nat]
      BY <2>1, <3>2
    <3>7. \A j \in 0..m-1 : tx_caller_info'[q][0 + j] = (a + m) - m + j + 1
      BY <2>1, <3>2
    <3>8. QueueInStep(q)'
      BY <2>1, <3>2, <3>3, <3>4, <3>5, <3>7 DEF QueueInStep
    <3>9. QED
      BY <3>2, <3>5, <3>6, <3>8
  <2>4. QED
    BY <2>2, <2>3
<1>4. QueuesTyped'
  <2>1. tx_caller_info' \in [MacQueues -> [0..TxRing-1 -> Nat]]
    BY <1>1, <1>3
  <2>2. nb_available_tx_desc' \in [MacQueues -> 1..TxRing]
    BY <1>1, <1>3
  <2>3. current_tx_desc' \in [MacQueues -> 0..TxRing-1] /\ accepted' \in [MacQueues -> Nat]
    BY <1>1, <1>3
  <2>4. QED
    BY <1>2, <2>1, <2>2, <2>3 DEF QueuesTyped
<1>5. QED
  BY <1>3, <1>4 DEF QueuesInv

LEMMA GiveUpQueues ==
  ASSUME QueuesInv, NEW queues, GiveUp(queues),
         UNCHANGED <<tx_caller_info, current_tx_desc, accepted, called_back>>
  PROVE  QueuesInv'
<1> USE MacAssumption
<1>1. /\ nb_available_tx_desc' = [q \in MacQueues |-> IF q \in queues THEN TxRing
                                                      ELSE nb_available_tx_desc[q]]
      /\ given_up' = [q \in MacQueues |-> given_up[q] \cup
                        IF q \in queues THEN Outstanding(q) ELSE {}]
  BY DEF GiveUp
<1>2. QueuesTyped
  BY DEF QueuesInv
<1>3. ASSUME NEW q \in MacQueues PROVE Outstanding(q) \subseteq Nat
  <2>1. accepted[q] \in Nat
    BY <1>2, HeldTyped
  <2>2. 1..accepted[q] \subseteq Nat
    BY <2>1
  <2>3. QED
    BY <2>2 DEF Outstanding
<1>4. QueuesTyped'
  <2>1. nb_available_tx_desc' \in [MacQueues -> 1..TxRing]
    BY <1>1, <1>2 DEF QueuesTyped
  <2>2. given_up' \in [MacQueues -> SUBSET Nat]
    BY <1>1, <1>2, <1>3 DEF QueuesTyped
  <2>3. QED
    BY <1>2, <2>1, <2>2 DEF QueuesTyped
<1>5. ASSUME NEW q \in MacQueues PROVE QueueInStep(q)'
  <2>1. CASE q \notin queues
    <3>1. nb_available_tx_desc'[q] = nb_available_tx_desc[q] /\ given_up'[q] = given_up[q]
      BY <1>1, <2>1
    <3>2. QED
      BY <3>1, QueueLeft DEF QueuesInv
  <2>2. CASE q \in queues
    <3> DEFINE a == accepted[q]
               k == Held(q)
               cb == called_back[q]
               gu == given_up[q]
    <3>1. nb_available_tx_desc'[q] = TxRing /\ given_up'[q] = gu \cup (1..a \ (cb \cup gu))
      BY <1>1, <2>2 DEF Outstanding
    <3>2. Held(q)' = 0 /\ a \in Nat /\ k \in Nat /\ current_tx_desc[q] \in 0..TxRing-1
      BY <1>2, <3>1, HeldTyped DEF Held
    <3>3. cb \cup gu = 1..(a - k) /\ cb \cap gu = {}
      BY DEF QueuesInv, QueueInStep
    <3>4. 1..(a - k) \subseteq 1..a
      BY <3>2
    <3> HIDE DEF cb, gu
    <3>5. /\ cb \cup (gu \cup (1..a \ (cb \cup gu))) = 1..a
          /\ cb \cap (gu \cup (1..a \ (cb \cup gu))) = {}
      BY <3>3, <3>4
    <3>6. called_back'[q] = cb /\ accepted'[q] = a /\ current_tx_desc'[q] = current_tx_desc[q]
      BY DEF cb
    <3>7. a - 0 = a /\ 0..(0-1) = {}
      BY <3>2
    <3>8. QED
      BY <3>1, <3>2, <3>5, <3>6, <3>7 DEF QueueInStep
  <2>3. QED
    BY <2>1, <2>2
<1>6. QED
  BY <1>4, <1>5 DEF QueuesInv

\* What txpkt_handler() finds done, no ready descriptor being before it, is a
\* number of descriptors from its first on.
BeforeReady(done, c, k, Unsent) ==
  \A i : i \in done <=> i \in c..(c + k - 1) /\ \A j \in c..i : j \notin Unsent
FirstOf(done, c, k) == \E m \in 0..k : done = c..(c + m - 1)

LEMMA DoneFirst ==
  ASSUME NEW c \in Nat, NEW k \in Nat, NEW Unsent, NEW done, Unsent \subseteq Nat,
         BeforeReady(done, c, k, Unsent)
  PROVE  FirstOf(done, c, k)
<1> USE DEF BeforeReady, FirstOf
<1> DEFINE stop == {j \in c..(c + k - 1) : j \in Unsent}
<1>1. CASE stop = {}
  <2>1. ASSUME NEW i \in c..(c + k - 1), NEW j \in c..i PROVE j \in c..(c + k - 1)
    OBVIOUS
  <2>2. done = c..(c + k - 1)
    BY <1>1, <2>1
  <2>3. QED
    BY <2>2
<1>2. CASE stop # {}
  <2>1. stop \subseteq Nat
    OBVIOUS
  <2> HIDE DEF stop
  <2>2. PICK x \in stop : \A y \in stop : x <= y
    BY <1>2, <2>1, Least
  <2> DEFINE m == x - c
  <2>3. x \in c..(c + k - 1) /\ x \in Unsent
    BY <2>2 DEF stop
  <2>4. \A j \in c..(x - 1) : j \notin Unsent
    <3>1. \A j \in c..(x - 1) : j \in c..(c + k - 1) /\ ~ (x <= j)
      BY <2>3
    <3>2. QED
      BY <2>2, <3>1 DEF stop
  <2>5. m \in 0..k /\ c + m - 1 = x - 1
    BY <2>3
  <2>6. done \subseteq c..(x - 1)
    <3>1. \A i \in c..(c + k - 1) : i \notin c..(x - 1) => x \in c..i
      BY <2>3
    <3>2. QED
      BY <2>3, <3>1
  <2>7. c..(x - 1) \subseteq done
    <3>1. \A i \in c..(x - 1) : i \in c..(c + k - 1) /\ \A j \in c..i : j \in c..(x - 1)
      BY <2>3
    <3>2. QED
      BY <2>4, <3>1
  <2>8. QED
    BY <2>5, <2>6, <2>7
<1>3. QED
  BY <1>1, <1>2

LEMMA TxPacketsQueues ==
  ASSUME QueuesInv, NEW q \in MacQueues, TxPackets(q),
         UNCHANGED <<tx_caller_info, accepted, given_up>>
  PROVE  QueuesInv'
<1> USE MacAssumption
<1> DEFINE c == current_tx_desc[q]
           k == Held(q)
           a == accepted[q]
           nb == nb_available_tx_desc[q]
           info == tx_caller_info[q]
           Unsent == {j \in 0..TxRing-1 : tx_desc[q][j] = "ready"}
           done == {i \in c..(c + TxRing - nb - 1) : \A j \in c..i : tx_desc[q][j] # "ready"}
<1>1. QueuesTyped
  BY DEF QueuesInv
<1>2. /\ c \in Nat /\ k \in Nat /\ a \in Nat /\ nb \in 1..TxRing /\ TxRing \in Nat /\ k < TxRing
      /\ k = TxRing - nb
  BY <1>1, HeldTyped DEF Held
<1>3. /\ c + k < TxRing /\ k <= a
      /\ \A j \in 0..k-1 : info[c + j] = a - k + j + 1
      /\ called_back[q] \cup given_up[q] = 1..(a - k) /\ called_back[q] \cap given_up[q] = {}
  BY DEF QueuesInv, QueueInStep
<1>4. PICK m \in 0..k : done = c..(c + m - 1)
  <2>1. c + TxRing - nb - 1 = c + k - 1
    BY <1>2
  <2>2. ASSUME NEW i \in c..(c + k - 1), NEW j \in c..i PROVE j \in 0..TxRing-1
    BY <1>2, <1>3
  <2>3. BeforeReady(done, c, k, Unsent)
    BY <2>1, <2>2 DEF BeforeReady
  <2>4. Unsent \subseteq Nat
    OBVIOUS
  <2>5. c \in Nat /\ k \in Nat
    BY <1>2
  <2>6. FirstOf(done, c, k)
    <3> HIDE DEF done, Unsent, c, k
    <3>1. QED
      BY <2>3, <2>4, <2>5, DoneFirst
  <2>7. QED
    BY <2>6 DEF FirstOf
<1>5. Cardinality(done) = m
  <2> DEFINE last == c + m - 1
  <2>1. c \in Int /\ last \in Int /\ m \in Nat /\ (IF c > last THEN 0 ELSE last - c + 1) = m
    BY <1>2
  <2>2. done = c..last
    BY <1>4
  <2> HIDE DEF c, last, done
  <2>3. QED
    BY <2>1, <2>2, FS_Interval
<1>6. /\ called_back' = [called_back EXCEPT ![q] = @ \cup {info[i] : i \in done}]
      /\ nb_available_tx_desc' = [nb_available_tx_desc EXCEPT ![q] = @ + m]
      /\ current_tx_desc' = [current_tx_desc EXCEPT ![q] = @ + m]
  BY <1>5 DEF TxPackets
<1>7. {info[i] : i \in done} = (a - k + 1)..(a - k + m)
  <2>1. \A i \in c..(c + m - 1) : info[i] = a - k + (i - c) + 1 /\ info[i] \in (a - k + 1)..(a - k + m)
    <3> SUFFICES ASSUME NEW i \in c..(c + m - 1)
                 PROVE  info[i] = a - k + (i - c) + 1 /\ info[i] \in (a - k + 1)..(a - k + m)
      OBVIOUS
    <3>1. i - c \in 0..k-1 /\ c + (i - c) = i
      BY <1>2
    <3>2. info[i] = a - k + (i - c) + 1
      BY <1>3, <3>1
    <3> HIDE DEF info
    <3>3. QED
      BY <1>2, <3>2
  <2>2. ASSUME NEW x \in (a - k + 1)..(a - k + m) PROVE \E i \in c..(c + m - 1) : info[i] = x
    <3> DEFINE i == c + (x - (a - k) - 1)
    <3>1. i \in c..(c + m - 1) /\ x = a - k + (i - c) + 1
      BY <1>2
    <3> HIDE DEF i
    <3>2. QED
      BY <2>1, <3>1
  <2> HIDE DEF info, c, k, a, done
  <2>3. QED
    BY <1>4, <2>1, <2>2
<1>8. QueuesTyped'
  <2>1. c + m \in 0..TxRing-1 /\ nb + m \in 1..TxRing
    BY <1>2, <1>3
  <2>2. (a - k + 1)..(a - k + m) \subseteq Nat
    BY <1>2, <1>3
  <2>3. called_back' \in [MacQueues -> SUBSET Nat]
    BY <1>1, <1>6, <1>7, <2>2 DEF QueuesTyped
  <2>4. nb_available_tx_desc' \in [MacQueues -> 1..TxRing]
    BY <1>1, <1>6, <2>1 DEF QueuesTyped
  <2>5. current_tx_desc' \in [MacQueues -> 0..TxRing-1]
    BY <1>1, <1>6, <2>1 DEF QueuesTyped
  <2>6. QED
    BY <1>1, <2>3, <2>4, <2>5 DEF QueuesTyped
<1>9. ASSUME NEW p \in MacQueues PROVE QueueInStep(p)'
  <2>1. CASE p # q
    <3>1. /\ called_back'[p] = called_back[p] /\ nb_available_tx_desc'[p] = nb_available_tx_desc[p]
          /\ current_tx_desc'[p] = current_tx_desc[p]
      BY <1>1, <1>6, <2>1 DEF QueuesTyped
    <3>2. QED
      BY <3>1, QueueLeft DEF QueuesInv
  <2>2. CASE p = q
    <3>1. /\ called_back'[q] = called_back[q] \cup ((a - k + 1)..(a - k + m))
          /\ nb_available_tx_desc'[q] = nb + m /\ current_tx_desc'[q] = c + m
      BY <1>1, <1>6, <1>7 DEF QueuesTyped
    <3>2. Held(q)' = k - m
      BY <1>2, <3>1 DEF Held
    <3>3. (c + m) + (k - m) < TxRing /\ k - m <= a
      BY <1>2, <1>3
    <3>4. \A j \in 0..(k - m)-1 : info[(c + m) + j] = a - (k - m) + j + 1
      <4>1. \A j \in 0..(k - m)-1 : m + j \in 0..k-1 /\ (c + m) + j = c + (m + j)
                                    /\ a - (k - m) + j + 1 = a - k + (m + j) + 1
        BY <1>2
      <4>2. QED
        BY <1>3, <4>1
    <3>5. /\ (called_back[q] \cup ((a - k + 1)..(a - k + m))) \cup given_up[q] = 1..(a - (k - m))
          /\ (called_back[q] \cup ((a - k + 1)..(a - k + m))) \cap given_up[q] = {}
      <4>1. /\ (1..(a - k)) \cup ((a - k + 1)..(a - k + m)) = 1..(a - (k - m))
            /\ (1..(a - k)) \cap ((a - k + 1)..(a - k + m)) = {}
        BY <1>2, <1>3
      <4> DEFINE new == (a - k + 1)..(a - k + m)
                 old == 1..(a - k)
                 all == 1..(a - (k - m))
      <4>2. old \cup new = all /\ old \cap new = {}
        BY <4>1
      <4>3. called_back[q] \cup given_up[q] = old /\ called_back[q] \cap given_up[q] = {}
        BY <1>3
      <4> HIDE DEF new, old, all
      <4>4. (called_back[q] \cup new) \cup given_up[q] = all /\ (called_back[q] \cup new) \cap given_up[q] = {}
        BY <4>2, <4>3
      <4>5. QED
        BY <4>4 DEF new, all
    <3>6. tx_caller_info'[q] = info /\ accepted'[q] = a /\ given_up'[q] = given_up[q]
      OBVIOUS
    <3> HIDE DEF c, k, a, info
    <3>7. QueueInStep(q)'
      BY <3>1, <3>2, <3>3, <3>4, <3>5, <3>6 DEF QueueInStep
    <3>8. QED
      BY <2>2, <3>7
  <2>3. QED
    BY <2>1, <2>2
<1>10. QED
  BY <1>8, <1>9 DEF QueuesInv

\* A step that leaves the queues as they are.
LEMMA QueuesLeft ==
  ASSUME QueuesInv, UNCHANGED <<tx_caller_info, nb_available_tx_desc, current_tx_desc, accepted,
                                called_back, given_up>>
  PROVE  QueuesInv'
<1>1. QueuesTyped'
  BY DEF QueuesInv, QueuesTyped
<1>2. \A q \in MacQueues : QueueInStep(q)'
  BY QueueLeft DEF QueuesInv
<1>3. QED
  BY <1>1, <1>2 DEF QueuesInv

LEMMA QueuesStep ==
  ASSUME QueuesInv, HandlersTyped, MacNext
  PROVE  QueuesInv'
<1>1. CASE \E q \in MacQueues : SendPkt(q)
  <2>1. PICK q \in MacQueues : SendPkt(q)
    BY <1>1
  <2> DEFINE n == [p \in MacQueues |-> IF p = q THEN 1 ELSE 0]
  <2>2. n \in [MacQueues -> 0..TxRing-1] /\ \A p \in MacQueues : n[p] # 0 => p = q
    BY MacAssumption
  <2>3. Chain(n) /\ Available(q) /\ UNCHANGED <<called_back, given_up>>
    BY <2>1 DEF SendPkt
  <2> HIDE DEF n
  <2>4. QED
    BY <2>2, <2>3, ChainQueues
<1>2. CASE \E n \in [MacQueues -> 0..(TxRing - 1)] : SendPkts(n)
  <2>1. PICK n \in [MacQueues -> 0..(TxRing - 1)] : SendPkts(n)
    BY <1>2
  <2>2. Chain(n) /\ UNCHANGED <<called_back, given_up>> /\ \A q \in MacQueues : Available(q)
    BY <2>1 DEF SendPkts, AllAvailable
  <2>3. QED
    BY <2>2, ChainQueues
<1>3. CASE \E q \in MacQueues : SendPktBusy(q)
  <2>1. PICK q \in MacQueues : SendPktBusy(q)
    BY <1>3
  <2>2. /\ GiveUp({q}) \/ UNCHANGED <<nb_available_tx_desc, given_up>>
        /\ UNCHANGED <<tx_caller_info, current_tx_desc, accepted, called_back>>
    BY <2>1 DEF SendPktBusy
  <2>3. QED
    BY <2>2, GiveUpQueues, QueuesLeft
<1>4. CASE SendPktsBusy
  <2> DEFINE queues == {q \in MacQueues : (AllSent(q) /\ tries'[q] > MaxTries) \/ Failed(q)}
  <2>1. GiveUp(queues) /\ UNCHANGED <<tx_caller_info, current_tx_desc, accepted, called_back>>
    BY <1>4 DEF SendPktsBusy
  <2> HIDE DEF queues
  <2>2. QED
    BY <2>1, GiveUpQueues
<1>5. CASE TransmitIsr
  <2>1. UNCHANGED <<tx_caller_info, accepted, given_up>>
    BY <1>5 DEF TransmitIsr
  <2>2. \/ TxPackets(mac_isr.queue)
        \/ UNCHANGED <<called_back, nb_available_tx_desc, current_tx_desc>>
    BY <1>5 DEF TransmitIsr
  <2>3. mac_isr.queue \in MacQueues
    BY IsrRecord DEF HandlersTyped
  <2>4. QED
    BY <2>1, <2>2, <2>3, TxPacketsQueues, QueuesLeft
<1>6. CASE TxFrame
  BY <1>6, QueuesLeft DEF TxFrame
<1>7. CASE ReceivePkt \/ Handles \/ RxPacket \/ RxNext \/ RxDone \/ RxFrame
  BY <1>7, ReceivesKeep, QueuesLeft DEF txVars
<1>8. QED
  BY <1>1, <1>2, <1>3, <1>4, <1>5, <1>6, <1>7, MacSteps DEF Sends

LEMMA MacParts ==
  MacInv <=> RingInv /\ QueuesInv /\ SendingTyped /\ PlicTyped
BY MacTypes DEF MacInv, RingInv, QueuesInv

LEMMA MacInitially == MacInit => MacInv
<1> SUFFICES ASSUME MacInit PROVE MacInv
  OBVIOUS
<1> USE MacAssumption DEF MacInit
<1>1. RingTyped /\ HandlersTyped /\ PlicTyped
  <2>1. RxRingInit \in [0..RxRing-1 -> [buffer : 0..RxBuffers, used : BOOLEAN]]
    BY DEF RxRingInit
  <2>2. RingTyped
    <3>1. [b \in 0..RxBuffers |-> 0] \in [0..RxBuffers -> 0..MaxFrames] /\ 0 \in 0..MaxFrames
          /\ 0 \in 0..RxRing-1 /\ RxRing \in Nat /\ <<>> \in Seq(0..MaxFrames)
      OBVIOUS
    <3>2. QED
      BY <2>1, <3>1 DEF RingTyped
  <2>3. HandlersTyped /\ PlicTyped
    BY DEF HandlersTyped, PlicTyped, NoIsr, IsrStates
  <2>4. QED
    BY <2>2, <2>3
<1>2. SendingTyped
  <2>1. TxRingInit \in [MacQueues -> [0..TxRing-1 -> {"ready", "used", "failed"}]]
    BY DEF TxRingInit
  <2>2. [q \in MacQueues |-> 0] \in [MacQueues -> 0..MaxTries+1]
    OBVIOUS
  <2>3. QED
    BY <2>1, <2>2 DEF SendingTyped
<1>3. QueuesTyped
  BY DEF QueuesTyped
<1>4. ASSUME NEW q \in MacQueues PROVE QueueInStep(q)
  <2>1. Held(q) = 0 /\ accepted[q] = 0 /\ current_tx_desc[q] = 0
    BY DEF Held
  <2>2. called_back[q] = {} /\ given_up[q] = {}
    OBVIOUS
  <2>3. QED
    BY <2>1, <2>2 DEF QueueInStep
<1>5. Attaching
  <2>1. \A i \in 0..RxRing-1 : ~(i < 0)
    OBVIOUS
  <2>2. rx_desc = [i \in 0..RxRing-1 |-> [buffer |-> IF i < next_free_rx_desc_index THEN i + 1 ELSE 0,
                                          used |-> FALSE]]
    BY <2>1 DEF RxRingInit
  <2>3. QED
    BY <2>2 DEF Attaching, NoIsr
<1>6. RingInStep /\ HandlerInStep
  BY DEF RingInStep, HandlerInStep, Full, NoIsr
<1>7. QED
  BY <1>1, <1>2, <1>3, <1>4, <1>5, <1>6, MacParts DEF RingInv, QueuesInv

LEMMA MacInductive == MacInv /\ [MacNext]_macVars => MacInv'
<1>1. ASSUME MacInv, MacNext PROVE MacInv'
  <2>1. RingInv /\ QueuesInv /\ SendingTyped /\ PlicTyped /\ HandlersTyped
    BY <1>1, MacParts DEF RingInv
  <2>2. RingInv' /\ QueuesInv' /\ SendingTyped' /\ PlicTyped'
    BY <1>1, <2>1, RingStep, QueuesStep, SendingTypedStep, PlicTypedStep
  <2>3. QED
    BY <2>2, MacParts DEF MacInv, RingInv, QueuesInv, RingTyped, QueuesTyped, SendingTyped, PlicTyped,
      HandlersTyped, MacTypeOK
<1>2. ASSUME MacInv, UNCHANGED macVars PROVE MacInv'
  <2>1. UNCHANGED <<rxVars, txVars, int_status, plic, mac_isr, mac_lost>>
    BY <1>2 DEF macVars
  <2>2. RingInv /\ QueuesInv /\ SendingTyped /\ PlicTyped /\ HandlersTyped
    BY <1>2, MacParts DEF RingInv
  <2>3. MacTypeOK'
    BY <1>2, <2>1 DEF MacInv, MacTypeOK, rxVars, txVars
  <2>4. Attaching' /\ RingInStep' /\ HandlerInStep'
    BY <2>1, <2>2, RingLeft DEF RingInv, Attaching, HandlerInStep
  <2>5. QueuesInv'
    BY <2>1, <2>2, QueuesLeft DEF txVars
  <2>6. QED
    BY <2>3, <2>4, <2>5 DEF MacInv, QueuesInv
<1>3. QED
  BY <1>1, <1>2

\* The packets without a descriptor are as many as the driver counts.
LEMMA InvIsSafe == MacInv => MacSafety
<1> SUFFICES ASSUME MacInv PROVE MacSafety
  OBVIOUS
<1>1. RingInv /\ QueuesInv
  BY MacParts
<1>2. RxBuffers = RxRing => received[0] = 0 /\ \A k \in 1..Len(delivered) : delivered[k] = k
  <2>1. CASE enable_receive
    BY <1>1, <2>1 DEF RingInv, RingInStep, Full
  <2>2. CASE ~enable_receive
    BY <1>1, <2>2, MacAssumption DEF RingInv, Attaching
  <2>3. QED
    BY <2>1, <2>2
<1>3. ASSUME NEW q \in MacQueues
      PROVE  /\ Cardinality(Outstanding(q)) = TxRing - nb_available_tx_desc[q]
             /\ called_back[q] \cap given_up[q] = {}
  <2> DEFINE a == accepted[q]
             k == Held(q)
  <2>1. a \in Nat /\ k \in Nat /\ k <= a /\ k = TxRing - nb_available_tx_desc[q]
    BY <1>1, HeldTyped DEF QueuesInv, QueueInStep, Held
  <2>2. called_back[q] \cup given_up[q] = 1..(a - k) /\ called_back[q] \cap given_up[q] = {}
    BY <1>1 DEF QueuesInv, QueueInStep
  <2>3. 1..a \ 1..(a - k) = (a - k + 1)..a
    BY <2>1
  <2>4. Outstanding(q) = (a - k + 1)..a
    BY <2>2, <2>3 DEF Outstanding
  <2> DEFINE first == a - k + 1
  <2>5. first \in Int /\ a \in Int /\ (IF first > a THEN 0 ELSE a - first + 1) = k
    BY <2>1
  <2>6. Cardinality(Outstanding(q)) = k
    <3> HIDE DEF first, a, k
    <3>1. Outstanding(q) = first..a
      BY <2>4 DEF first
    <3>2. QED
      BY <2>5, <3>1, FS_Interval
  <2>7. QED
    BY <2>1, <2>2, <2>6
<1>4. QED
  BY <1>2, <1>3 DEF MacSafety

\* No index, counter or record of the MAC driver leaves its type.
THEOREM MacTyping == MacSpec => []MacTypeOK
<1>1. MacInv => MacTypeOK
  BY DEF MacInv
<1>2. QED
  BY <1>1, MacInitially, MacInductive, PTL DEF MacSpec

\* Frames are passed up in order, and every transmit descriptor is accounted for.
THEOREM FramesInOrder == MacSpec => []MacSafety
BY MacInitially, MacInductive, InvIsSafe, PTL DEF MacSpec

------------------------------------------------------------------------------
\* The six drivers together.

LEMMA DriversInitially == DriversInit => DriversInv
BY DdrInitially, MmcInitially, MacInitially, SpiInitially, SysInitially, UsbInitially
   DEF DriversInit, DriversInv

LEMMA DriversInductive == DriversInv /\ [DriversNext]_drivers => DriversInv'
<1> SUFFICES ASSUME DriversInv, [DriversNext]_drivers PROVE DriversInv'
  OBVIOUS
<1>1. /\ [DdrNext]_ddrVars /\ [MmcNext]_mmcVars /\ [MacNext]_macVars
      /\ [SpiNext]_spiVars /\ [SysNext]_sysVars /\ [UsbNext]_usbVars
  BY DEF DriversNext, DdrStep, MmcStep, MacStep, SpiStep, SysStep, UsbStep, drivers
<1>2. DdrInv' /\ MmcInv' /\ MacInv'
  BY <1>1, DdrInductive, MmcInductive, MacInductive DEF DriversInv
<1>3. SpiInv' /\ SysInv' /\ UsbInv'
  BY <1>1, SpiInductive, SysInductive, UsbInductive DEF DriversInv
<1>4. QED
  BY <1>2, <1>3 DEF DriversInv

\* Whichever driver is at work, all six keep the invariants their promises rest on.
THEOREM DriversKeepTheirInvariants == DriversSpec => []DriversInv
BY DriversInitially, DriversInductive, PTL DEF DriversSpec

\* So what each of the six promises its caller holds, with all of them in one
\* program: DDR training is over without an error only with the memory ready, a
\* transfer, packet or frame reported done has been moved whole and in order, and
\* the status of a system service, with the response where the driver delivers
\* one (SysSafety says where), is that of the request it belongs to.
THEOREM DriversKeepTheirPromises ==
  DriversSpec => [](/\ DdrReady /\ MmcSafety /\ MacSafety
                    /\ SpiSafety /\ SysSafety /\ UsbSafety)
<1>1. DriversInv => /\ DdrReady /\ MmcSafety /\ MacSafety
                    /\ SpiSafety /\ SysSafety /\ UsbSafety
  BY FinishedIsReady, InvIsSafe, UsbInvIsSafe DEF DriversInv, MmcInv, SpiInv, SysInv
<1>2. QED
  BY <1>1, DriversKeepTheirInvariants, PTL
=============================================================================
