----------------------------- MODULE DdrTraining -----------------------------
(***************************************************************************)
(* DDR training at boot: mss_nwc_init_ddr() calls ddr_state_machine() until *)
(* it reports DDR_SETUP_DONE, and each call runs one case of ddr_setup().   *)
(* Values of ddr_training_state have the source's names without            *)
(* DDR_TRAINING_; the ones in lower case are places inside a call.         *)
(*                                                                         *)
(* The environment is the PLL, the training IP (TIP), which works through   *)
(* its stages by itself, and the memory, which passes or fails each test.   *)
(* Register contents are kept as far as a later state overwrites or relies  *)
(* on them: see phy.                                                       *)
(***************************************************************************)
EXTENDS Naturals, FiniteSets

CONSTANTS
  DdrTypes,       \* subset of DDR3, DDR3L, DDR4, LPDDR3, LPDDR4, OFF
  Skip,           \* LIBERO_SETTING_TRAINING_SKIP_SETTING: stages the TIP skips
  LastLane,       \* get_num_lanes() - 1
  LastOffset,     \* the last write delay the calibration tries
  FirstLatency,   \* LIBERO_SETTING_CFG_DFI_T_PHY_WRLAT
  LastLatency,    \* DDR_CAL_MAX_LATENCY
  RpcValues,      \* NUM_RPC_166_VALUES
  DdrTimeout,     \* 0xFFFF and 0xFFFFF polls
  CaLimit         \* 0xFF, the largest initial delay of the address training

ASSUME DdrAssumption ==
  /\ LastLane \in Nat /\ LastOffset \in Nat /\ RpcValues \in Nat
  /\ FirstLatency \in Nat /\ LastLatency \in Nat /\ FirstLatency <= LastLatency
  /\ DdrTimeout \in Nat \ {0, 1} /\ CaLimit \in Nat
  /\ DdrTypes \subseteq {"DDR3", "DDR3L", "DDR4", "LPDDR3", "LPDDR4", "OFF"}

VARIABLES
  ddr_type,            \* LIBERO_SETTING_DDRPHY_MODE & DDRPHY_MODE_MASK
  nwc,                 \* mss_nwc_init_ddr(): "start", "loop", "ok" or "error"
  ddr_training_state,
  ddr_timeout,         \* static timeout
  ddr_error,           \* static error: the bits MTC_TIMEOUT_ERROR "T" and 1 "M"
  ddr_error_count,
  rpc_166_retires,     \* num_rpc_166_retires
  wrlat,               \* register CFG_DFI_T_PHY_WRLAT
  cal,                 \* calib_data.write_cal and the loop of the calibration
  ca_del,              \* init_del_offset of the address training
  phy,                 \* what the registers hold, see PhyTypes
  tip,                 \* stages the TIP has completed since its reset
  proven               \* <<lane, delay>> that passed at the present latency

ddrVars == <<ddr_type, nwc, ddr_training_state, ddr_timeout, ddr_error, ddr_error_count,
             rpc_166_retires, wrlat, cal, ca_del, phy, tip, proven>>

DdrLanes == 0..LastLane
Stages == <<"INIT", "BCLKSCLK", "ADDCMD", "WRLVL", "RDGATE", "DQ_DQS", "COMPLETE">>
StageSet == {Stages[i] : i \in DOMAIN Stages}
MtcErrors == SUBSET {"M", "T"}

PhyTypes ==
  [pll   : {"off", "unlocked", "locked"},
   speed : {"full", "half"},
   phase : {"configured", "rotated", "aligned"},
   rpc   : {"flash", "corrected"}, io : {"flash", "corrected"},
   mode  : {"off", "training", "final"}, dpc : {"off", "wrlvl", "final"},
   segs  : {"reset", "default", "libero"},
   dram  : {"held", "running"},       \* CKE and reset of the memory
   start : BOOLEAN,                   \* PHY_DFI_INIT_START and CTRLR_INIT
   wrcalib : [DdrLanes -> 0..LastOffset]]

NoCal == [offset |-> 0, lane |-> 0, result |-> {}, status_lower |-> {},
          lower |-> [l \in DdrLanes |-> 0]]

FailStates == {"FAIL_SM2_VERIFY", "FAIL_SM_VERIFY", "FAIL_SM_DQ_DQS", "FAIL_SM_RDGATE",
  "FAIL_SM_WRLVL", "FAIL_SM_ADDCMD", "FAIL_SM_BCLKSCLK", "FAIL_BCLKSCLK_SW",
  "FAIL_FULL_32BIT_NC_CHECK", "FAIL_32BIT_CACHE_CHECK", "FAIL_MIN_LATENCY",
  "FAIL_START_CHECK", "FAIL_PLL_LOCK"}

DdrInit ==
  /\ ddr_type \in DdrTypes /\ nwc = "start" /\ ddr_training_state = "INIT"
  /\ ddr_timeout = 0 /\ ddr_error = {} /\ ddr_error_count = 0 /\ rpc_166_retires = 0
  /\ wrlat = 0 /\ cal = NoCal /\ ca_del = 0 /\ tip = {} /\ proven = {}
  /\ phy = [pll |-> "off", speed |-> "full", phase |-> "configured", rpc |-> "flash",
            io |-> "flash", mode |-> "off", dpc |-> "off", segs |-> "reset",
            dram |-> "held", start |-> FALSE, wrcalib |-> [l \in DdrLanes |-> 0]]

------------------------------------------------------------------------------
\* One call of ddr_setup() in case s, and the case the next call will find.
At(s) == nwc = "loop" /\ ddr_training_state = s
Goto(s) == ddr_training_state' = s

errorVars == <<ddr_error, ddr_error_count>>
calVars == <<wrlat, cal, proven>>
\* What the cases of set-up and training leave alone.
Uncalibrated == UNCHANGED <<ddr_type, errorVars, rpc_166_retires, cal>>

\* Polling with a time-out: success sets it anew, and every poll counts it down.
Poll(done, next, fail) ==
  LET left_ == (IF done THEN DdrTimeout ELSE ddr_timeout) - 1 IN
  /\ ddr_timeout' = left_
  /\ Goto(IF left_ = 0 THEN fail ELSE IF done THEN next ELSE ddr_training_state)

\* A straight-line case that changes the registers to p.
Configure(s, p, next) ==
  /\ At(s) /\ Goto(next) /\ phy' = p
  /\ Uncalibrated /\ UNCHANGED <<nwc, ddr_timeout, wrlat, ca_del, tip, proven>>

\* DDR_SS__INIT, and the while loop begins.
StartDdr ==
  /\ nwc = "start" /\ nwc' = "loop"
  /\ UNCHANGED <<ddr_type, ddr_training_state, ddr_timeout, errorVars, rpc_166_retires,
                 calVars, ca_del, phy, tip>>

TrainingInit ==
  /\ At("INIT") /\ Goto("CHECK_FOR_OFFMODE")
  /\ ddr_error' = {} /\ ddr_error_count' = 0 /\ cal' = NoCal
  /\ UNCHANGED <<ddr_type, nwc, ddr_timeout, rpc_166_retires, wrlat, ca_del, phy, tip, proven>>

\* The cases FAIL_* only go on to FAIL.  FAIL_DDR_SANITY_CHECKS is not one of
\* them: outside DEBUG_DDR_INIT it changes nothing, and the caller loops in it.
FailureReported ==
  /\ nwc = "loop" /\ ddr_training_state \in FailStates /\ Goto("FAIL")
  /\ UNCHANGED <<ddr_type, nwc, ddr_timeout, errorVars, rpc_166_retires, calVars, ca_del,
                 phy, tip>>

TrainingFail ==
  /\ At("FAIL") /\ Goto("CHECK_FOR_OFFMODE")
  /\ ddr_error' = {} /\ ddr_error_count' = 0 /\ cal' = NoCal
  /\ phy' = [phy EXCEPT !.dram = "held", !.start = FALSE]
  /\ UNCHANGED <<ddr_type, nwc, ddr_timeout, rpc_166_retires, wrlat, ca_del, tip, proven>>

DdrOffMode == [phy EXCEPT !.mode = "off", !.dpc = "off", !.rpc = "flash", !.pll = "off"]

CheckForOffmode ==
  /\ At("CHECK_FOR_OFFMODE")
  /\ IF ddr_type = "OFF"
     THEN phy' = DdrOffMode /\ nwc' = "ok" /\ UNCHANGED ddr_training_state
     ELSE UNCHANGED <<phy, nwc>> /\ Goto("SET_MODE_VS_BITS")
  /\ Uncalibrated /\ UNCHANGED <<ddr_timeout, wrlat, ca_del, tip, proven>>

\* The board's DDR4 has ECC and is trained without DMI and DBI.
SetDdrMode == [phy EXCEPT !.mode = IF ddr_type = "DDR4" THEN "training" ELSE "final",
                          !.dpc = "final"]

SetModeVsBits ==
  Configure("SET_MODE_VS_BITS",
            IF ddr_type \in {"LPDDR4", "DDR3", "DDR3L"} THEN [SetDdrMode EXCEPT !.dpc = "wrlvl"]
            ELSE SetDdrMode,
            "FLASH_REGS")

FlashRegs == Configure("FLASH_REGS", [phy EXCEPT !.rpc = "flash"], "CORRECT_RPC")
SetDdrRpcRegs == [phy EXCEPT !.rpc = "corrected"]
CorrectRpc == Configure("CORRECT_RPC", SetDdrRpcRegs, "SOFT_RESET")
\* The bank controller loads the RPC values when it leaves reset.
SoftReset == Configure("SOFT_RESET", [phy EXCEPT !.io = phy.rpc], "CALIBRATE_IO")
\* ddr_pvt_calibration() waits for the I/O calibration without a bound.
CalibrateIo == Configure("CALIBRATE_IO", phy, "CONFIG_PLL")

DdrPllConfig == [phy EXCEPT !.pll = "unlocked", !.speed = "full", !.phase = "configured"]

ConfigPll ==
  /\ At("CONFIG_PLL") /\ Goto("VERIFY_PLL_LOCK")
  /\ phy' = DdrPllConfig /\ ddr_timeout' = DdrTimeout
  /\ Uncalibrated /\ UNCHANGED <<nwc, wrlat, ca_del, tip, proven>>

VerifyPllLock ==
  /\ At("VERIFY_PLL_LOCK")
  /\ IF phy.pll = "locked" THEN Goto("SETUP_SEGS") /\ UNCHANGED ddr_timeout
     ELSE /\ ddr_timeout' = ddr_timeout - 1
          /\ Goto(IF ddr_timeout = 1 THEN "FAIL_PLL_LOCK" ELSE "VERIFY_PLL_LOCK")
  /\ Uncalibrated /\ UNCHANGED <<nwc, wrlat, ca_del, phy, tip, proven>>

SetupDdrSegments(option) == [phy EXCEPT !.segs = option]
SetupSegs == Configure("SETUP_SEGS", SetupDdrSegments("default"), "SETUP_DDRC")

InitDdrc ==
  /\ wrlat' = FirstLatency /\ proven' = {}
  /\ phy' = [phy EXCEPT !.dram = "running", !.start = FALSE]

SetupDdrc ==
  /\ At("SETUP_DDRC") /\ Goto("RESET") /\ InitDdrc
  /\ Uncalibrated /\ UNCHANGED <<nwc, ddr_timeout, ca_del, tip>>

TrainingReset ==
  /\ At("RESET") /\ Goto("ROTATE_CLK") /\ tip' = {}
  /\ Uncalibrated /\ UNCHANGED <<nwc, ddr_timeout, wrlat, ca_del, phy, proven>>

RotateClk == Configure("ROTATE_CLK", [phy EXCEPT !.phase = "rotated"], "SET_TRAINING_PARAMETERS")

\* use_software_bclk_sclk_training() is 1 for every memory type.
SetTrainingParameters ==
  /\ At("SET_TRAINING_PARAMETERS") /\ Goto("IP_SM_BCLKSCLK_SW") /\ ddr_timeout' = DdrTimeout
  /\ Uncalibrated /\ UNCHANGED <<nwc, wrlat, ca_del, phy, tip, proven>>

\* The phase found is the environment's; the search has a fixed length.
BclkSclkSw == Configure("IP_SM_BCLKSCLK_SW", phy, "MANUAL_ADDCMD_TRAINING_SW")

------------------------------------------------------------------------------
\* Address and command training by software.  The reference voltage is searched
\* over a fixed grid, has a default when none is found, and is given back.

LeaveAddcmd ==
  /\ ddr_timeout' = ddr_timeout - 1
  /\ Goto(IF ddr_timeout = 1 THEN "FAIL_BCLKSCLK_SW" ELSE "IP_SM_START")

ManualAddcmd ==
  /\ At("MANUAL_ADDCMD_TRAINING_SW")
  /\ phy' = [phy EXCEPT !.phase = "aligned"] /\ ca_del' = 1
  /\ IF ddr_type = "LPDDR4" THEN LeaveAddcmd
     ELSE Goto("ca_sweep") /\ UNCHANGED ddr_timeout
  /\ Uncalibrated /\ UNCHANGED <<nwc, wrlat, tip, proven>>

\* Mutant: the initial delay is set inside the loop.
CaPassFromStart(moved) ==
  /\ ca_del < CaLimit
  /\ ca_del' = 1 + moved
  /\ UNCHANGED ddr_training_state

\* One pass of while(a5_offset_status != PASS): a failing pass moves the initial
\* delay by the transition it saw and a constant, up to CaLimit.
CaPass(moved) ==
  /\ ca_del < CaLimit
  /\ ca_del' = ca_del + moved + 1
  /\ UNCHANGED ddr_training_state

\* address_cmd_training_with_ck_push()
CkPush ==
  /\ At("ca_sweep")
  /\ \/ \E moved \in 0..1 : CaPass(moved) /\ UNCHANGED ddr_timeout
     \/ LeaveAddcmd /\ UNCHANGED ca_del
  /\ Uncalibrated /\ UNCHANGED <<nwc, wrlat, phy, tip, proven>>

------------------------------------------------------------------------------
\* Training by the TIP.

IpSmStart ==
  /\ At("IP_SM_START") /\ Goto("IP_SM_START_CHECK")
  /\ phy' = [phy EXCEPT !.start = TRUE] /\ ddr_timeout' = DdrTimeout
  /\ Uncalibrated /\ UNCHANGED <<nwc, wrlat, ca_del, tip, proven>>

AfterStart == IF "BCLKSCLK" \in Skip THEN "IP_SM_ADDCMD" ELSE "IP_SM_BCLKSCLK"

StartCheck ==
  /\ At("IP_SM_START_CHECK") /\ ~("INIT" \in tip /\ ddr_type = "LPDDR4")
  /\ Poll("INIT" \in tip, AfterStart, "FAIL_START_CHECK")
  /\ Uncalibrated /\ UNCHANGED <<nwc, wrlat, ca_del, phy, tip, proven>>

\* lpddr4_manual_training(): the mode registers are written at half the clock,
\* then the address training runs at full speed.  Both changes wait for the PLL
\* without a bound, with CKE off.
Lpddr4Start ==
  /\ At("IP_SM_START_CHECK") /\ "INIT" \in tip /\ ddr_type = "LPDDR4"
  /\ phy' = [phy EXCEPT !.pll = "unlocked", !.speed = "half", !.dram = "held"]
  /\ Goto("lpddr4_half")
  /\ Uncalibrated /\ UNCHANGED <<nwc, ddr_timeout, wrlat, ca_del, tip, proven>>

Lpddr4ModeRegisters ==
  /\ At("lpddr4_half") /\ phy.pll = "locked"
  /\ phy' = [phy EXCEPT !.pll = "unlocked", !.speed = "full"] /\ Goto("lpddr4_full")
  /\ Uncalibrated /\ UNCHANGED <<nwc, ddr_timeout, wrlat, ca_del, tip, proven>>

Lpddr4Vref ==
  /\ At("lpddr4_full") /\ phy.pll = "locked" /\ ca_del' = 1 /\ Goto("lpddr4_sweep")
  /\ Uncalibrated /\ UNCHANGED <<nwc, ddr_timeout, wrlat, phy, tip, proven>>

Lpddr4Sweep ==
  /\ At("lpddr4_sweep")
  /\ \/ \E moved \in 0..1 : CaPass(moved)
     \/ Goto("lpddr4_finish") /\ UNCHANGED ca_del
  /\ Uncalibrated /\ UNCHANGED <<nwc, ddr_timeout, wrlat, phy, tip, proven>>

\* Mode registers again and ZQ calibration, then the rest of IP_SM_START_CHECK.
Lpddr4Finish ==
  /\ At("lpddr4_finish") /\ phy' = [phy EXCEPT !.dram = "running"]
  /\ Poll(TRUE, AfterStart, "FAIL_START_CHECK")
  /\ Uncalibrated /\ UNCHANGED <<nwc, wrlat, ca_del, tip, proven>>

\* A case that waits for a stage of the TIP, or passes over a skipped one.
AwaitStage(s, stage, next, fail) ==
  /\ At(s)
  /\ Poll(stage \in tip \cup Skip, next, fail)
  /\ Uncalibrated /\ UNCHANGED <<nwc, wrlat, ca_del, tip, proven>>

AwaitBclksclk == AwaitStage("IP_SM_BCLKSCLK", "BCLKSCLK", "IP_SM_ADDCMD", "FAIL_SM_BCLKSCLK")
                 /\ UNCHANGED phy
AwaitAddcmd == AwaitStage("IP_SM_ADDCMD", "ADDCMD", "IP_SM_WRLVL", "FAIL_SM_ADDCMD")
               /\ UNCHANGED phy
AwaitWrlvl == AwaitStage("IP_SM_WRLVL", "WRLVL", "IP_SM_RDGATE", "FAIL_SM_WRLVL")
              /\ UNCHANGED phy
\* Mutant: the drive and termination of write levelling stay.
AwaitRdgateKeepsDpc ==
  AwaitStage("IP_SM_RDGATE", "RDGATE", "IP_SM_DQ_DQS", "FAIL_SM_RDGATE") /\ UNCHANGED phy

\* Write levelling is over: the drive and termination get their values back.
AwaitRdgate == AwaitStage("IP_SM_RDGATE", "RDGATE", "IP_SM_DQ_DQS", "FAIL_SM_RDGATE")
               /\ phy' = [phy EXCEPT !.dpc = "final"]
AwaitDqDqs == AwaitStage("IP_SM_DQ_DQS", "DQ_DQS", "IP_SM_VERIFY", "FAIL_SM_DQ_DQS")
              /\ UNCHANGED phy

\* The TIP has to be done by now, and the windows of every lane to be good.
Verify ==
  /\ At("IP_SM_VERIFY")
  /\ IF "COMPLETE" \notin tip THEN Goto("FAIL_SM2_VERIFY")
     ELSE \E good \in BOOLEAN : Goto(IF good THEN "SET_FINAL_MODE" ELSE "FAIL_SM_VERIFY")
  /\ Uncalibrated /\ UNCHANGED <<nwc, ddr_timeout, wrlat, ca_del, phy, tip, proven>>

SetFinalMode == Configure("SET_FINAL_MODE", [phy EXCEPT !.mode = "final"], "WRITE_CALIBRATION")

------------------------------------------------------------------------------
\* Write calibration: every delay is tried on every lane until each lane has one
\* that passes.

Try(offset) == [phy EXCEPT !.wrcalib = [l \in DdrLanes |-> offset]]

StartCalibration ==
  /\ At("WRITE_CALIBRATION") /\ ddr_error = {} /\ Goto("calibrate")
  /\ cal' = [cal EXCEPT !.offset = 0, !.lane = 0, !.result = {}, !.status_lower = {}]
  /\ phy' = Try(0)
  /\ UNCHANGED <<ddr_type, nwc, ddr_timeout, errorVars, rpc_166_retires, wrlat, ca_del, tip,
                 proven>>

\* What MTC_test() makes of the error word it is handed: after a time-out no test
\* is run.  A lane's first test is alone in deciding whether the others run.
MtcOutcomes(result) == IF "T" \in result THEN {result} ELSE MtcErrors

SetWriteCalib(lower) == [phy EXCEPT !.wrcalib = lower]

\* WRITE_CALIBRATION after write_calibration_using_mtc() returned result.
JudgeCalibration(result) ==
  /\ ddr_error' = {}
  /\ ddr_error_count' = ddr_error_count + (IF result = {} THEN 0 ELSE 1)
  /\ Goto(CASE result = {} -> "SWEEP_CHECK"
            [] result = {"T"} -> "FAIL_DDR_SANITY_CHECKS"
            [] OTHER -> "WRITE_CALIBRATION_RETRY")

CalibrateLane ==
  /\ At("calibrate")
  /\ \E outcome \in MtcOutcomes(cal.result) :
       LET passed == outcome = {}
           status == cal.status_lower \cup (IF passed THEN {cal.lane} ELSE {})
           lower == IF passed /\ cal.lane \notin cal.status_lower
                    THEN [cal.lower EXCEPT ![cal.lane] = cal.offset] ELSE cal.lower
           result == IF passed /\ status # DdrLanes THEN {"M"} ELSE outcome
           next == [cal EXCEPT !.status_lower = status, !.lower = lower, !.result = result]
       IN /\ proven' = proven \cup (IF passed THEN {<<cal.lane, cal.offset>>} ELSE {})
          /\ \/ /\ result = {} /\ cal' = next
                /\ phy' = SetWriteCalib(lower) /\ JudgeCalibration(result)
             \/ /\ result # {} /\ cal.lane < LastLane
                /\ cal' = [next EXCEPT !.lane = cal.lane + 1]
                /\ UNCHANGED <<phy, ddr_training_state, errorVars>>
             \/ /\ result # {} /\ cal.lane = LastLane /\ cal.offset < LastOffset
                /\ cal' = [next EXCEPT !.lane = 0, !.offset = cal.offset + 1]
                /\ phy' = Try(cal.offset + 1)
                /\ UNCHANGED <<ddr_training_state, errorVars>>
             \/ /\ result # {} /\ cal.lane = LastLane /\ cal.offset = LastOffset
                /\ cal' = next /\ UNCHANGED phy /\ JudgeCalibration(result)
  /\ UNCHANGED <<ddr_type, nwc, ddr_timeout, rpc_166_retires, wrlat, ca_del, tip>>

\* The next latency, whose calibration starts from nothing.
CalibrationRetry ==
  /\ At("WRITE_CALIBRATION_RETRY") /\ cal' = NoCal
  /\ IF wrlat + 1 > LastLatency
     THEN Goto("FAIL_MIN_LATENCY") /\ UNCHANGED <<wrlat, proven>>
     ELSE Goto("WRITE_CALIBRATION") /\ wrlat' = wrlat + 1 /\ proven' = {}
  /\ UNCHANGED <<ddr_type, nwc, ddr_timeout, errorVars, rpc_166_retires, ca_del, phy, tip>>

------------------------------------------------------------------------------
\* Memory checks, then the address map the application uses.

checkUnchanged == <<ddr_type, ddr_timeout, calVars, ca_del, phy, tip>>

\* Cases whose test is not compiled in: they look at the error of the case before.
PassOn(s, next, fail) ==
  /\ At(s) /\ Goto(IF ddr_error = {} THEN next ELSE fail)
  /\ UNCHANGED <<checkUnchanged, nwc, errorVars, rpc_166_retires>>

SweepCheck == PassOn("SWEEP_CHECK", "SANITY_CHECKS", "SANITY_CHECKS")
SanityChecks == PassOn("SANITY_CHECKS", "FULL_MTC_CHECK", "FAIL_DDR_SANITY_CHECKS")
CacheCheck == PassOn("FULL_32BIT_CACHE_CHECK", "LOAD_PATTERN_TO_CACHE_SETUP", "FAIL_32BIT_CACHE_CHECK")
WrcCheck == PassOn("FULL_32BIT_WRC_CHECK", "FULL_64BIT_NC_CHECK", "FAIL")
Nc64Check == PassOn("FULL_64BIT_NC_CHECK", "FULL_64BIT_CACHE_CHECK", "FAIL")
Cache64Check == PassOn("FULL_64BIT_CACHE_CHECK", "FULL_64BIT_WRC_CHECK", "FAIL")
Wrc64Check == PassOn("FULL_64BIT_WRC_CHECK", "VREFDQ_CALIB", "FAIL")
LoadPattern == PassOn("LOAD_PATTERN_TO_CACHE", "VERIFY_PATTERN_IN_CACHE", "FAIL")

\* Cases without a condition of their own.
GoOn(s, next) ==
  /\ At(s) /\ Goto(next)
  /\ UNCHANGED <<checkUnchanged, nwc, errorVars, rpc_166_retires>>

LoadPatternSetup == GoOn("LOAD_PATTERN_TO_CACHE_SETUP", "LOAD_PATTERN_TO_CACHE")
VrefdqCalib == GoOn("VREFDQ_CALIB", "FPGA_VREFDQ_CALIB")
FpgaVrefdqCalib == GoOn("FPGA_VREFDQ_CALIB", "INIT_ALL_MEMORY")
InitAllMemory == GoOn("INIT_ALL_MEMORY", "FINISH_CHECK")

\* A case that tests the memory.
Test(s, outcomes, next, fail) ==
  /\ At(s) /\ ddr_error' \in outcomes
  /\ Goto(IF ddr_error' = {} THEN next ELSE fail)
  /\ UNCHANGED <<checkUnchanged, nwc, ddr_error_count, rpc_166_retires>>

\* The result of the first of the tests is overwritten before it is looked at.
FullMtcCheck == Test("FULL_MTC_CHECK", MtcErrors, "FULL_32BIT_NC_CHECK", "FAIL")
Nc32Check == Test("FULL_32BIT_NC_CHECK", {{}, {"M"}}, "FULL_32BIT_CACHE_CHECK",
                  "FAIL_FULL_32BIT_NC_CHECK")

\* pattern_test is a local that an earlier call has filled in: whether there is
\* another offset to try depends on what is left of it on the stack.
PatternGood ==
  /\ ddr_error' = {} /\ UNCHANGED rpc_166_retires
  /\ Goto("LOAD_PATTERN_TO_CACHE") \/ Goto("FULL_32BIT_WRC_CHECK")

\* A mismatch shifts the read FIFO and tests again, up to RpcValues times.
PatternBad ==
  /\ ddr_error' = {"M"}
  /\ IF rpc_166_retires < RpcValues
     THEN rpc_166_retires' = rpc_166_retires + 1 /\ UNCHANGED ddr_training_state
     ELSE rpc_166_retires' = 0 /\ Goto("FAIL")

VerifyPattern ==
  /\ At("VERIFY_PATTERN_IN_CACHE")
  /\ PatternGood \/ PatternBad
  /\ UNCHANGED <<checkUnchanged, nwc, ddr_error_count>>

\* clear_bootup_cache_ways() fills the cache through the new map.
FinishCheck ==
  /\ At("FINISH_CHECK") /\ Goto("FINISHED")
  /\ IF ddr_error_count > 0 THEN nwc' = "error" /\ UNCHANGED phy
     ELSE nwc' = "ok" /\ phy' = SetupDdrSegments("libero")
  /\ UNCHANGED <<ddr_type, ddr_timeout, errorVars, rpc_166_retires, calVars, ca_del, tip>>

------------------------------------------------------------------------------
\* The environment.

PllLocks ==
  /\ phy.pll = "unlocked" /\ phy' = [phy EXCEPT !.pll = "locked"]
  /\ UNCHANGED <<ddr_type, nwc, ddr_training_state, ddr_timeout, errorVars, rpc_166_retires,
                 calVars, ca_del, tip>>

TipStage ==
  /\ phy.start /\ StageSet \ Skip # tip
  /\ \E i \in DOMAIN Stages :
       /\ Stages[i] \notin tip \cup Skip
       /\ \A j \in 1..i - 1 : Stages[j] \in tip \cup Skip
       /\ tip' = tip \cup {Stages[i]}
  /\ UNCHANGED <<ddr_type, nwc, ddr_training_state, ddr_timeout, errorVars, rpc_166_retires,
                 calVars, ca_del, phy>>

SetupCase ==
  \/ TrainingInit \/ FailureReported \/ TrainingFail \/ CheckForOffmode \/ SetModeVsBits
  \/ FlashRegs \/ CorrectRpc \/ SoftReset \/ CalibrateIo \/ ConfigPll \/ VerifyPllLock
  \/ SetupSegs \/ SetupDdrc \/ TrainingReset \/ RotateClk \/ SetTrainingParameters
  \/ BclkSclkSw \/ ManualAddcmd \/ CkPush

TrainingCase ==
  \/ IpSmStart \/ StartCheck \/ Lpddr4Start \/ Lpddr4ModeRegisters \/ Lpddr4Vref
  \/ Lpddr4Sweep \/ Lpddr4Finish \/ AwaitBclksclk \/ AwaitAddcmd \/ AwaitWrlvl \/ AwaitRdgate
  \/ AwaitDqDqs \/ Verify \/ SetFinalMode \/ StartCalibration \/ CalibrateLane \/ CalibrationRetry

CheckCase ==
  \/ SweepCheck \/ SanityChecks \/ FullMtcCheck \/ Nc32Check \/ CacheCheck \/ LoadPatternSetup
  \/ LoadPattern \/ VerifyPattern \/ WrcCheck \/ Nc64Check \/ Cache64Check \/ Wrc64Check
  \/ VrefdqCalib \/ FpgaVrefdqCalib \/ InitAllMemory \/ FinishCheck

DdrDriver == StartDdr \/ SetupCase \/ TrainingCase \/ CheckCase
DdrNext == DdrDriver \/ PllLocks \/ TipStage

\* The main hart runs mss_nwc_init_ddr() with interrupts off.  A PLL that does
\* not lock is a fault only the bounded wait survives: see DdrAttemptEnds.
DdrFairness == WF_ddrVars(DdrDriver) /\ WF_ddrVars(PllLocks)
DdrSpec == DdrInit /\ [][DdrNext]_ddrVars /\ DdrFairness

------------------------------------------------------------------------------
\* Properties.

DdrTypeOK ==
  /\ ddr_type \in DdrTypes /\ nwc \in {"start", "loop", "ok", "error"}
  /\ ddr_timeout \in 0..DdrTimeout /\ ddr_error \in MtcErrors /\ ddr_error_count \in Nat
  /\ rpc_166_retires \in 0..RpcValues /\ wrlat \in 0..LastLatency
  /\ cal \in [offset : 0..LastOffset, lane : DdrLanes, result : MtcErrors,
              status_lower : SUBSET DdrLanes, lower : [DdrLanes -> 0..LastOffset]]
  /\ ca_del \in 0..CaLimit + 2 /\ phy \in PhyTypes
  /\ tip \subseteq StageSet /\ proven \subseteq DdrLanes \X (0..LastOffset)

Trained ==
  /\ phy.pll = "locked" /\ phy.speed = "full" /\ phy.phase = "aligned"
  /\ phy.io = "corrected" /\ phy.mode = "final" /\ phy.dpc = "final"
  /\ phy.dram = "running" /\ StageSet \subseteq tip \cup Skip
  /\ \A l \in DdrLanes : <<l, phy.wrcalib[l]>> \in proven

\* The result of mss_nwc_init_ddr() is true of the hardware, whatever failed and
\* was repeated before: success means memory that is clocked, out of reset, in its
\* final mode, trained in every stage, with a write delay on each lane that passed
\* at the latency in use, and mapped; failure leaves the application's map unset.
DdrReady ==
  /\ phy.segs = "libero" <=> nwc = "ok" /\ ddr_type # "OFF"
  /\ phy.segs = "libero" => Trained

\* Every attempt at training comes to an end: the boot returns, the attempt is
\* given up and begun again, or it has failed the sanity check.  Excepted is the
\* pattern test, which repeats by an uninitialised count.
DdrAttemptEnds ==
  (nwc = "loop" /\ ddr_training_state = "CHECK_FOR_OFFMODE")
    ~> (nwc # "loop" \/ ddr_training_state \in {"FAIL", "FAIL_DDR_SANITY_CHECKS", "LOAD_PATTERN_TO_CACHE"})

------------------------------------------------------------------------------
\* What keeps DdrReady true: what every attempt has achieved at each of its
\* states, from the last state backwards.

Checks ==
  {"SWEEP_CHECK", "SANITY_CHECKS", "FULL_MTC_CHECK", "FULL_32BIT_NC_CHECK",
   "FULL_32BIT_CACHE_CHECK", "LOAD_PATTERN_TO_CACHE_SETUP", "LOAD_PATTERN_TO_CACHE",
   "VERIFY_PATTERN_IN_CACHE", "FULL_32BIT_WRC_CHECK", "FULL_64BIT_NC_CHECK",
   "FULL_64BIT_CACHE_CHECK", "FULL_64BIT_WRC_CHECK", "VREFDQ_CALIB", "FPGA_VREFDQ_CALIB",
   "INIT_ALL_MEMORY", "FINISH_CHECK", "FINISHED"}
InFinalMode == Checks \cup {"WRITE_CALIBRATION", "calibrate", "WRITE_CALIBRATION_RETRY"}
Completed == InFinalMode \cup {"SET_FINAL_MODE"}
Levelled == Completed \cup {"IP_SM_DQ_DQS", "IP_SM_VERIFY"}
Awaiting == {"IP_SM_BCLKSCLK", "IP_SM_ADDCMD", "IP_SM_WRLVL", "IP_SM_RDGATE"}
Changing == {"lpddr4_half", "lpddr4_full"}
Starting == {"ca_sweep", "IP_SM_START", "IP_SM_START_CHECK"}
Aligned == Levelled \cup Awaiting \cup Starting \cup Changing \cup {"lpddr4_sweep", "lpddr4_finish"}
Running == Levelled \cup Awaiting \cup Starting \cup
  {"RESET", "ROTATE_CLK", "SET_TRAINING_PARAMETERS", "IP_SM_BCLKSCLK_SW", "MANUAL_ADDCMD_TRAINING_SW"}
Clocked == Running \cup {"SETUP_SEGS", "SETUP_DDRC", "lpddr4_sweep", "lpddr4_finish"}
Corrected == Clocked \cup Changing \cup {"CALIBRATE_IO", "CONFIG_PLL", "VERIFY_PLL_LOCK"}

Achieved ==
  LET state == ddr_training_state IN
  /\ state = "SOFT_RESET" => phy.rpc = "corrected"
  /\ state \in Corrected => phy.io = "corrected"
  /\ state \in Clocked => phy.pll = "locked"
  /\ state \in Clocked \cup {"VERIFY_PLL_LOCK", "lpddr4_full"} => phy.speed = "full"
  /\ state \in Running => phy.dram = "running"
  /\ state \in Aligned => phy.phase = "aligned"
  /\ state \in Levelled => phy.dpc = "final"
  /\ state \in Completed => "COMPLETE" \in tip
  /\ state \in InFinalMode => phy.mode = "final"
  /\ state = "calibrate" => \A l \in cal.status_lower : <<l, cal.lower[l]>> \in proven
  /\ state \in Checks => \A l \in DdrLanes : <<l, phy.wrcalib[l]>> \in proven

\* The stages of the TIP are completed in their order.
TipInOrder ==
  \A i \in DOMAIN Stages : Stages[i] \in tip => \A j \in 1..i - 1 : Stages[j] \in tip \cup Skip

\* A time-out that has run out is not counted down again.
Polls ==
  Awaiting \cup Changing \cup {"VERIFY_PLL_LOCK", "IP_SM_BCLKSCLK_SW", "MANUAL_ADDCMD_TRAINING_SW",
    "ca_sweep", "IP_SM_START_CHECK", "lpddr4_sweep", "lpddr4_finish", "IP_SM_DQ_DQS"}
TimeLeft == ddr_training_state \in Polls => ddr_timeout > 0

Results ==
  /\ nwc \in {"ok", "error"} => ddr_training_state = "FINISHED" \/ ddr_type = "OFF"
  /\ ddr_type = "OFF" => ddr_training_state \in {"INIT", "CHECK_FOR_OFFMODE"}
  /\ phy.segs = "libero" <=> nwc = "ok" /\ ddr_type # "OFF"

DdrInv == DdrTypeOK /\ Achieved /\ TipInOrder /\ TimeLeft /\ Results
==============================================================================
