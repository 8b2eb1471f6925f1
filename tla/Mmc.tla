-------------------------------- MODULE Mmc ---------------------------------
(***************************************************************************)
(* The eMMC/SD driver (drivers/mss/mss_mmc/mss_mmc.c): one hart that starts *)
(* transfers, the interrupt handler mmc_main_plic_IRQHandler(), and the     *)
(* host controller with the card behind it.                                *)
(*                                                                         *)
(* A transfer is started with its interrupt masked at the PLIC and in       *)
(* SRS14, so the call is one step up to the command, and a second one       *)
(* writes the status.  The client calls nothing but MSS_MMC_init() while a  *)
(* transfer is in progress, as MSS_MMC_get_transfer_status() tells it, and  *)
(* command queuing is initialised again after MSS_MMC_init().              *)
(***************************************************************************)
EXTENDS Naturals, FiniteSets

CONSTANTS
  MaxTransfers,  \* bound on the transfers the client starts
  CqTasks        \* the largest number of tasks of one queued transfer

ASSUME MmcAssumption == MaxTransfers \in Nat /\ CqTasks \in Nat

VARIABLES
  mmc_state,          \* g_mmc_trs_status.state
  mmc_ready,          \* g_mmc_init_complete
  cq_ready,           \* g_mmc_cq_init_complete, and the engine's enable
  is_multi_blk,       \* g_mmc_is_multi_blk
  transfer_complete,  \* static in the handler
  cq_task_id,         \* g_cq_task_id
  srs12,              \* interrupt status
  srs14,              \* the signals enabled, and the PLIC: "off", "dma" or "cq"
  response_error,     \* card status in SRS04 has an error
  cqrs04, cqrs11,     \* queue interrupts, and the tasks notified
  card,               \* what the controller is doing, see CardTypes
  mmc_pc,             \* the thread: outside the driver, or before it writes the status
  transfers,          \* transfers started
  moved,              \* history: the data of the latest transfer have been moved
  mmc_lost,           \* history: why the end of the latest transfer may go unseen
  bad_stop            \* history: a stop command has had no answer, or one with an error

mmcThread == <<mmc_pc, transfers, mmc_ready, cq_ready>>
mmcHistory == <<moved, mmc_lost, bad_stop>>
mmcHost == <<srs12, response_error, cqrs04, cqrs11, card>>
mmcVars == <<mmc_state, is_multi_blk, transfer_complete, cq_task_id, srs14,
             mmcThread, mmcHistory, mmcHost>>

MmcStates == {"NOT_INITIALISED", "INIT_SUCCESS", "INIT_FAILURE", "IN_PROGRESS", "SUCCESS",
              "FAIL", "RESPONSE_ERROR", "DEVICE_ERROR", "INVALID_PARAMETER"}
CardTypes == [doing : {"nothing", "command", "data", "paused", "stop", "tasks"},
              boundary : BOOLEAN,          \* the data cross a DMA buffer boundary
              tasks : SUBSET (1..CqTasks)]
NoWork == [doing |-> "nothing", boundary |-> FALSE, tasks |-> {}]

MmcInit ==
  /\ mmc_state = "NOT_INITIALISED" /\ mmc_ready = FALSE /\ cq_ready = FALSE
  /\ is_multi_blk = FALSE /\ transfer_complete = FALSE /\ cq_task_id = 0
  /\ srs12 = {} /\ srs14 = "off" /\ response_error = FALSE /\ cqrs04 = {} /\ cqrs11 = {}
  /\ card = NoWork /\ mmc_pc = "client" /\ transfers = 0
  /\ moved = FALSE /\ mmc_lost = {} /\ bad_stop = FALSE

------------------------------------------------------------------------------
\* The client's calls.

\* MSS_MMC_init() resets the controller and the card; the handler's
\* transfer_complete stays as it is.
InitHost ==
  /\ mmc_pc = "client" /\ transfers < MaxTransfers
  /\ \/ mmc_ready' = TRUE /\ mmc_state' = "INIT_SUCCESS"
     \/ mmc_ready' = FALSE /\ mmc_state' \in {"INIT_FAILURE", "NOT_INITIALISED"}
  /\ srs12' = {} /\ srs14' = "off" /\ cqrs04' = {} /\ cqrs11' = {} /\ card' = NoWork
  /\ cq_ready' = FALSE /\ bad_stop' = (bad_stop \/ transfer_complete)
  /\ UNCHANGED <<is_multi_blk, transfer_complete, cq_task_id, response_error, mmc_pc,
                 transfers, moved, mmc_lost>>

MayTransfer == mmc_pc = "client" /\ mmc_ready /\ mmc_state # "IN_PROGRESS"

\* The card answers CMD13 with an error; the interrupt stays masked.
Refused ==
  /\ mmc_state' = "DEVICE_ERROR" /\ srs12' = {} /\ srs14' = "off"
  /\ UNCHANGED <<is_multi_blk, transfer_complete, cq_task_id, response_error, cqrs04, cqrs11,
                 card, mmcThread, mmcHistory>>

\* Ready again, the lines reset, the interrupts enabled: the command goes out.
Launch(signals, work) ==
  /\ transfers < MaxTransfers /\ transfers' = transfers + 1
  /\ srs12' = {} /\ srs14' = signals /\ card' = work /\ mmc_pc' = "issued"
  /\ moved' = FALSE /\ mmc_lost' = {}
  /\ UNCHANGED <<mmc_state, transfer_complete, mmc_ready, cq_ready, bad_stop>>

DmaCommand(boundary) == [doing |-> "command", boundary |-> boundary, tasks |-> {}]

DmaTransfer(boundaries) ==
  /\ MayTransfer /\ ~cq_ready
  /\ \/ Refused
     \/ /\ \E b \in boundaries : Launch("dma", DmaCommand(b))
        /\ is_multi_blk' \in BOOLEAN
        /\ UNCHANGED <<cq_task_id, response_error, cqrs04, cqrs11>>

\* Only the single-descriptor DMA stops at buffer boundaries.  A size that does
\* not fit is refused; SDMA reads alone record that in the status.
SdmaRead ==
  \/ DmaTransfer(BOOLEAN)
  \/ /\ MayTransfer /\ mmc_state' = "INVALID_PARAMETER"
     /\ UNCHANGED <<is_multi_blk, transfer_complete, cq_task_id, srs14, mmcThread, mmcHistory,
                    mmcHost>>
SdmaWrite == DmaTransfer(BOOLEAN)
Adma2Read == DmaTransfer({FALSE})
Adma2Write == DmaTransfer({FALSE})

\* The doorbell starts n tasks.  CMD13 goes through the queue too, and its
\* notification is cleared with whatever else was caught.
QueuedTransfer ==
  /\ MayTransfer /\ cq_ready
  /\ \/ Refused
     \/ \E n \in 1..CqTasks :
          /\ Launch("cq", [NoWork EXCEPT !.doing = "tasks", !.tasks = 1..n])
          /\ cq_task_id' = n /\ cqrs04' = {} /\ cqrs11' = {}
          /\ UNCHANGED <<is_multi_blk, response_error>>
CqWrite == QueuedTransfer
CqRead == QueuedTransfer

\* Both ways of starting a transfer write the status after the command.
MarkInProgress ==
  /\ mmc_pc = "issued" /\ mmc_pc' = "client"
  /\ mmc_state' = "IN_PROGRESS"
  /\ mmc_lost' = mmc_lost \cup (IF srs14 = "off" THEN {"overtaken"} ELSE {})
  /\ UNCHANGED <<is_multi_blk, transfer_complete, cq_task_id, srs14, transfers, mmc_ready,
                 cq_ready, moved, bad_stop, mmcHost>>

\* Polled transfers of one block; each command clears the status it polls.
Polled ==
  /\ MayTransfer /\ ~cq_ready /\ srs12' = {}
  /\ UNCHANGED <<mmc_state, is_multi_blk, transfer_complete, cq_task_id, srs14, mmcThread,
                 mmcHistory, response_error, cqrs04, cqrs11, card>>
SingleBlockRead == Polled
SingleBlockWrite == Polled
SdioSingleBlockRead == Polled
SdioSingleBlockWrite == Polled

CqSetUp ==
  /\ MayTransfer /\ cq_ready' \in BOOLEAN /\ srs12' = {} /\ cqrs04' = {} /\ cqrs11' = {}
  /\ card' = NoWork
  /\ UNCHANGED <<mmc_state, is_multi_blk, transfer_complete, cq_task_id, srs14, mmc_pc,
                 transfers, mmc_ready, mmcHistory, response_error>>

\* MSS_MMC_error_recovery(): the lines are reset and the transfer aborted.
ErrorRecovery ==
  /\ MayTransfer /\ ~cq_ready /\ srs12' = {} /\ card' = NoWork
  /\ UNCHANGED <<mmc_state, is_multi_blk, transfer_complete, cq_task_id, srs14, mmcThread,
                 mmcHistory, response_error, cqrs04, cqrs11>>

MmcClient ==
  \/ InitHost \/ SdmaRead \/ SdmaWrite \/ Adma2Read \/ Adma2Write \/ CqWrite \/ CqRead
  \/ SingleBlockRead \/ SingleBlockWrite \/ SdioSingleBlockRead \/ SdioSingleBlockWrite
  \/ CqSetUp \/ ErrorRecovery

------------------------------------------------------------------------------
\* The handler: one branch each time, and again as long as a signal is enabled
\* for a bit of srs12.  SRS13 has every error recorded; signals are enabled for
\* the data timeout (and the ADMA error, the same here) and, for queued transfers
\* alone, the command timeout.  CRC, end-bit and index errors have none.

Signalled ==
  CASE srs14 = "dma" -> {"CMD", "XFER", "DMA", "DATA_TIMEOUT"}
    [] srs14 = "cq"  -> {"CQ", "DATA_TIMEOUT", "CMD_TIMEOUT"}
    [] srs14 = "off" -> {}
MmcPending == srs12 \cap Signalled # {}

Errors == {"DATA_TIMEOUT", "CMD_TIMEOUT", "CRC_ERROR"}
InError == srs12 \cap Errors # {}

\* The transfer is over for the driver.
EndTransfer(state) == mmc_state' = state /\ srs14' = "off"

ErrorIsr ==
  /\ MmcPending /\ InError
  /\ EndTransfer("FAIL") /\ srs12' = {}
  /\ UNCHANGED <<is_multi_blk, transfer_complete, cq_task_id, response_error, cqrs04, cqrs11,
                 card, mmcThread, mmcHistory>>

\* Mutant: transfer_complete is not cleared when the stop command is answered.
CommandIsrKeeps ==
  /\ MmcPending /\ ~InError /\ "CMD" \in srs12 /\ srs12' = srs12 \ {"CMD"}
  /\ IF transfer_complete THEN EndTransfer("SUCCESS")
     ELSE IF response_error THEN EndTransfer("RESPONSE_ERROR") ELSE UNCHANGED <<mmc_state, srs14>>
  /\ UNCHANGED <<is_multi_blk, transfer_complete, cq_task_id, response_error, cqrs04, cqrs11,
                 card, mmcThread, mmcHistory>>

\* An answer with an error is overwritten by the success of a stop command.
CommandIsr ==
  /\ MmcPending /\ ~InError /\ "CMD" \in srs12 /\ srs12' = srs12 \ {"CMD"}
  /\ IF transfer_complete THEN EndTransfer("SUCCESS")
     ELSE IF response_error THEN EndTransfer("RESPONSE_ERROR") ELSE UNCHANGED <<mmc_state, srs14>>
  /\ transfer_complete' = FALSE
  /\ UNCHANGED <<is_multi_blk, cq_task_id, response_error, cqrs04, cqrs11, card, mmcThread,
                 mmcHistory>>

\* The stop command follows a transfer of several blocks.
TransferIsr ==
  /\ MmcPending /\ ~InError /\ "CMD" \notin srs12 /\ "XFER" \in srs12 /\ srs12' = {}
  /\ transfer_complete' = is_multi_blk
  /\ IF is_multi_blk THEN card' = [card EXCEPT !.doing = "stop"] /\ UNCHANGED <<mmc_state, srs14>>
     ELSE EndTransfer("SUCCESS") /\ UNCHANGED card
  /\ UNCHANGED <<is_multi_blk, cq_task_id, response_error, cqrs04, cqrs11, mmcThread, mmcHistory>>

\* Mutant: the address is not written, and the DMA stays where it is.
DmaIsrNoAddress ==
  /\ MmcPending /\ ~InError /\ srs12 \cap {"CMD", "XFER"} = {} /\ "DMA" \in srs12
  /\ srs12' = srs12 \ {"DMA"}
  /\ UNCHANGED <<mmc_state, is_multi_blk, transfer_complete, cq_task_id, srs14, response_error,
                 cqrs04, cqrs11, card, mmcThread, mmcHistory>>

\* Writing the address lets the DMA go on.
DmaIsr ==
  /\ MmcPending /\ ~InError /\ srs12 \cap {"CMD", "XFER"} = {} /\ "DMA" \in srs12
  /\ srs12' = srs12 \ {"DMA"} /\ card' = [card EXCEPT !.doing = "data"]
  /\ UNCHANGED <<mmc_state, is_multi_blk, transfer_complete, cq_task_id, srs14, response_error,
                 cqrs04, cqrs11, mmcThread, mmcHistory>>

\* However many tasks are notified, one is counted.
QueueIsr ==
  /\ MmcPending /\ ~InError /\ "CQ" \in srs12
  /\ srs12' = {} /\ cqrs04' = {}
  /\ IF "TASK_COMPLETE" \in cqrs04
     THEN cqrs11' = {} /\ cq_task_id' = cq_task_id - 1
     ELSE UNCHANGED <<cqrs11, cq_task_id>>
  /\ CASE "TASK_COMPLETE" \in cqrs04 /\ cq_task_id = 1 -> EndTransfer("SUCCESS")
       [] "RESP_ERR" \in cqrs04 /\ ~("TASK_COMPLETE" \in cqrs04 /\ cq_task_id = 1)
            -> EndTransfer("FAIL")
       [] OTHER -> UNCHANGED <<mmc_state, srs14>>
  /\ UNCHANGED <<is_multi_blk, transfer_complete, response_error, card, mmcThread, mmcHistory>>

MmcIsr == ErrorIsr \/ CommandIsr \/ TransferIsr \/ DmaIsr \/ QueueIsr

------------------------------------------------------------------------------
\* The controller and the card.

mmcDriver == <<mmc_state, is_multi_blk, transfer_complete, cq_task_id, srs14, mmcThread>>
CardIs(what) == card.doing = what
Now(what) == card' = [card EXCEPT !.doing = what]

\* What is recorded without a signal may never be seen.
Record(bits) ==
  /\ srs12' = srs12 \cup bits
  /\ mmc_lost' = mmc_lost \cup (IF bits \cap Signalled = {} THEN {"unsignalled"} ELSE {})

\* No answer to a command, or one that does not come through.
NoAnswer == {{"CMD_TIMEOUT"}, {"CRC_ERROR"}, {"CMD", "CRC_ERROR"}}

\* The answer to the command, with or without an error, or none.
Answer ==
  /\ CardIs("command")
  /\ \/ \E error \in BOOLEAN :
          /\ Record({"CMD"}) /\ response_error' = error
          /\ Now(IF error THEN "nothing" ELSE "data")
     \/ /\ \E bits \in NoAnswer : Record(bits)
        /\ Now("nothing") /\ UNCHANGED response_error
  /\ UNCHANGED <<mmcDriver, moved, bad_stop, cqrs04, cqrs11>>

\* A transfer ends with a data error alone, or one beside its completion.
DataErrors == {{"DATA_TIMEOUT"}, {"CRC_ERROR"}, {"XFER", "CRC_ERROR"}}

Data ==
  /\ CardIs("data")
  /\ \/ /\ card.boundary /\ Record({"DMA"})
        /\ card' = [card EXCEPT !.doing = "paused", !.boundary = FALSE] /\ UNCHANGED moved
     \/ ~card.boundary /\ Record({"XFER"}) /\ moved' = TRUE /\ Now("nothing")
     \/ \E bits \in DataErrors : Record(bits) /\ Now("nothing") /\ UNCHANGED moved
  /\ UNCHANGED <<mmcDriver, bad_stop, response_error, cqrs04, cqrs11>>

\* The answer to the stop command tells of errors in the data written.
StopAnswer ==
  /\ CardIs("stop") /\ Now("nothing")
  /\ \/ \E error \in BOOLEAN :
          /\ Record({"CMD"}) /\ response_error' = error
          /\ bad_stop' = (bad_stop \/ error) /\ moved' = ~error
     \/ /\ \E bits \in NoAnswer : Record(bits)
        /\ bad_stop' = TRUE /\ UNCHANGED <<response_error, moved>>
  /\ UNCHANGED <<mmcDriver, cqrs04, cqrs11>>

TaskDone ==
  /\ CardIs("tasks") /\ srs12' = srs12 \cup {"CQ"} /\ cqrs04' = cqrs04 \cup {"TASK_COMPLETE"}
  /\ \E t \in card.tasks :
       /\ cqrs11' = cqrs11 \cup {t} /\ card' = [card EXCEPT !.tasks = @ \ {t}]
       /\ moved' = (card.tasks = {t})
  /\ mmc_lost' = mmc_lost \cup (IF cqrs11 = {} THEN {} ELSE {"merged"})
  /\ UNCHANGED <<mmcDriver, bad_stop, response_error>>

\* A task fails; the engine halts.
TaskError ==
  /\ CardIs("tasks") /\ card.tasks # {} /\ card' = NoWork
  /\ \/ Record({"CQ"}) /\ cqrs04' = cqrs04 \cup {"RESP_ERR"}
     \/ \E error \in Errors : Record({error}) /\ UNCHANGED cqrs04
  /\ UNCHANGED <<mmcDriver, moved, bad_stop, response_error, cqrs11>>

MmcCard == Answer \/ Data \/ StopAnswer \/ TaskDone \/ TaskError

MmcNext == MmcClient \/ MarkInProgress \/ MmcIsr \/ MmcCard

\* The thread leaves a call, an enabled interrupt is taken, and the card or the
\* controller's data timer says something; the client need not call.
MmcFairness == WF_mmcVars(MarkInProgress) /\ WF_mmcVars(MmcIsr) /\ WF_mmcVars(MmcCard)
MmcSpec == MmcInit /\ [][MmcNext]_mmcVars /\ MmcFairness

------------------------------------------------------------------------------
\* Properties.

MmcTypeOK ==
  /\ mmc_state \in MmcStates /\ {mmc_ready, cq_ready, is_multi_blk, transfer_complete} \subseteq BOOLEAN
  /\ cq_task_id \in 0..CqTasks /\ srs12 \subseteq {"CMD", "XFER", "DMA", "CQ"} \cup Errors
  /\ srs14 \in {"off", "dma", "cq"} /\ cqrs04 \subseteq {"TASK_COMPLETE", "RESP_ERR"}
  /\ cqrs11 \subseteq 1..CqTasks /\ card \in CardTypes /\ mmc_pc \in {"client", "issued"}
  /\ transfers \in 0..MaxTransfers /\ {response_error, moved, bad_stop} \subseteq BOOLEAN
  /\ mmc_lost \subseteq {"overtaken", "merged", "unsignalled"}

\* As long as every stop command has been answered without an error,
\* TRANSFER_SUCCESS is reported only when the data of that transfer have been
\* moved, whatever failed in the transfers before it; and outside a transfer
\* every signal is off, so that the polled functions find the bits they wait
\* for (mss_mmc.c:2292-2330).
MmcSafety ==
  /\ mmc_state = "SUCCESS" /\ mmc_pc = "client" /\ ~bad_stop => moved
  /\ srs14 # "off" => mmc_pc = "issued" \/ mmc_state = "IN_PROGRESS"

\* Whoever waits for the status to change waits in vain only when the transfer
\* ended with an error the driver enables no signal for (mss_mmc.c:948-951,
\* 1081-1084, 2117-2118), the end of the transfer was handled before the status
\* was written, or several tasks were notified at once (994, 2373).
MmcEnds ==
  mmc_state = "IN_PROGRESS" ~> (mmc_state # "IN_PROGRESS" \/ mmc_lost # {})

------------------------------------------------------------------------------
\* What keeps MmcSafety true.

\* A task completion the handler has not counted yet.
Uncounted == IF "TASK_COMPLETE" \in cqrs04 THEN 1 ELSE 0

\* Only queued transfers have tasks, and no transfer sees the other kind's bits.
DmaUnderWay ==
  srs14 = "dma" => "CQ" \notin srs12 /\ card.doing # "tasks" /\ card.tasks = {}

\* The driver never counts more completions than there were.
QueueUnderWay ==
  srs14 = "cq" =>
    /\ srs12 \subseteq {"CQ"} \cup Errors /\ card.doing \in {"tasks", "nothing"}
    /\ cq_task_id >= Cardinality(card.tasks) + Uncounted
    /\ IF moved THEN card.tasks = {} ELSE cq_task_id >= 1 + Uncounted

\* As long as no stop command has failed, the controller's end of a transfer stands
\* for data moved, and a stop command is what transfer_complete waits for.
Stopping ==
  /\ transfer_complete =>
       /\ srs14 = "dma"
       /\ \/ card.doing = "stop" /\ srs12 = {}
          \/ card.doing = "nothing" /\ srs12 = {"CMD"} /\ moved
  /\ srs14 = "dma" =>
       /\ "XFER" \in srs12 /\ ~InError => moved
       /\ card.doing = "stop" => transfer_complete

\* After a success no task is left that could complete.
Succeeded == mmc_state = "SUCCESS" /\ mmc_pc = "client" => card.tasks = {}

MmcInv ==
  /\ MmcTypeOK /\ MmcSafety /\ DmaUnderWay /\ QueueUnderWay
  /\ ~bad_stop => Stopping /\ Succeeded
=============================================================================
