# Verification of the Mercury MP1 ST1 reference design's software

TLA+ models, model checks and proofs for the bare-metal software of the reference
design (`src/sw/ME-MP1-250-SI-D3EN/HelloWorld/src`): the start-up of the five
harts of a PolarFire SoC, their interrupt handling, the drivers they use, and the
HelloWorld application. Paths below are relative to that directory.

## 1. The system

The microcontroller subsystem (MSS) has five RISC-V harts: hart 0, an E51 monitor
core, and harts 1 to 4, U54 application cores. There is no operating system. Every
hart runs one application function and its interrupt handlers, and the harts share
memory, the PLIC, the CLINT and the peripherals. The FPGA side (`src/components`,
`src/scripts`, `src/constraints`, `src/src`) wires vendor cores to pins.

### 1.1 Components

| Component | State | Operations | What makes it correct |
|---|---|---|---|
| Multi-hart start-up: `mpfs_hal/startup_gcc`, `application/hart*` | an HLS record per hart at the top of its stack (`in_wfi_indicator`, `my_hart_id`), CLINT MSIP, `mie` | entry code, release loop of `main_first_hart()`, dispatch in `main_other_hart()`, `e51()`, `u54_n()` | each hart reaches its own application, the release comes when it can be seen, the console passes from hart 0 to hart 1 once |
| PLIC, CLINT, traps: `mpfs_hal/common/mss_plic.h`, `mss_mtrap.c`, `mss_clint.*` | PLIC pending, in service, priority, enables, threshold; MTIME, MTIMECMP, MSIP | claim, complete, enable, disable, `SysTick_Config()`, `disable_systick()`, the machine-mode handlers | every request is served once, no gateway is left closed, ticks go on at their distance, what is disabled stays disabled |
| MMUART driver: `drivers/mss/mss_mmuart` | `tx_buff_size`, `tx_idx`, `status`, handlers, IER; FIFOs | polled and interrupt transmission, reception, enable, disable, `uart_isr()` | no FIFO overrun, the client's buffer is released when it is no longer read, messages drain, no assertion fails |
| Application of hart 1: `application/hart1/u54_1.c` | `g_rx_size`, `g_rx_buff` | set-up, greeting, menu, command loop, `uart0_rx_handler()` | the greeting and menu are sent undisturbed, the loop is reached |
| I2C driver: `drivers/mss/mss_i2c` | `transaction`, `pending_transaction`, `is_transaction_pending`, statuses, buffers and indexes, `bus_status`; CTRL, STATUS | `MSS_I2C_write/_read/_write_read/_wait_complete`, slave functions, `MSS_I2C_system_tick()`, `mss_i2c_isr()` | reported outcomes are true, buffers are respected, transactions end, pended ones start, the slave answers |
| Peripheral clocks: `mss_peripherals.c` | SUBBLK_CLOCK_CR, SOFT_RESET_CR | `mss_config_clk_rst()` | two harts do not undo each other |
| DDR training: `common/nwc/mss_ddr.c`, `mss_nwc_init.c`, `mss_pll.c` | `ddr_training_state`, `ddr_error_count`, `retry_count` and the other statics; the PHY's and the controller's registers | `ddr_state_machine()`, `ddr_setup()` | success is true of the hardware; an attempt ends; what depends on a step that is repeated is repeated |
| MMC: `drivers/mss/mss_mmc` | `g_mmc_trs_status`, `g_mmc_is_multi_blk`, `transfer_complete`; SRS12, SRS14 | polled, DMA and queued reads and writes, `mmc_main_plic_IRQHandler()` | a transfer reported complete is complete, and one that is over is reported |
| SPI: `drivers/mss/mss_spi` | slave buffers and indexes, `cmd_done`, `resp_tx_buffer`; FIFOs | master frames and blocks, slave blocks, command response, `mss_spi_isr()` | what is handed to the client is what arrived |
| System services: `drivers/mss/mss_sys_services` | mailbox, response pointer and size, message counter | the services, `MSS_SYS_read_response()`, the message interrupt | the response and status of a request are its own |
| Ethernet MAC: `drivers/mss/mss_ethernet_mac` | descriptor rings and counts per queue; the shared TX status | receive, send, `generic_mac_irq_handler()` | a descriptor belongs to one side; every frame and packet is handed over once, in order |
| USB: `drivers/mss/mss_usb` | `gd_tx_ep[0]`, `cep_state`, `g_setup_pkt`, `g_usbd_dev_conf`; CSR0 | control transfers, bus events, data endpoints, classes, host mode | transfers move what they should; device and host agree on state and address |
| PDMA: `drivers/mss/mss_pdma` | per-channel registers | set-up, start, handlers | no lost RUN, done or claim |
| CAN, QSPI, RTC, GPIO, timer, watchdog, PCIe; fabric IP drivers | registers | | see 5 |

### 1.2 How they interact

* The main hart initialises memory and peripherals, publishes its start mark in its
  HLS, and releases the other harts one by one with a software interrupt (CLINT
  MSIP), looking at their HLS words. The harts share these words only.
* `e51()` initialises MMUART0, greets, and wakes hart 1 with a second software
  interrupt; hart 1 then owns MMUART0.
* Drivers consist of functions called by a thread and an interrupt handler on the
  same hart, reached through `handle_m_ext_interrupt()`. They share an instance
  record and the peripheral's registers. Handlers do not nest. Client callbacks run
  in the handler, some of them calling the driver again (`uart0_rx_handler()` echoes).
* A handler's return value may disable its source in the PLIC, which the thread also
  does: both read, modify and write the same enable word.
* `MSS_I2C_system_tick()` runs in the SysTick handler.
* The drivers of section 2's last six modules share nothing with each other or with the
  modules before: each owns its peripheral, its instance record and its PLIC sources.
  The main hart trains the DDR memory before any other hart is released.

### 1.3 What is hard

Interleavings of harts at start-up and over a reset with retained memory; the
interleaving of thread and handler at every register access; a lost wake-up; status
sampled before a mask and used after it; PLIC gateways; sticky control bits (AA, STA,
SI); time-outs that race an answer; arbitration and bus errors in the middle of a
transfer; retries over state that an earlier attempt left behind (DDR); state written
after the hardware was set going (MMC, system services); status registers shared by
handlers (Ethernet); a host that goes on while the handler runs (USB, SPI). `PROJECT.json` lists the hazards, each at its line, with the property that
covers it or the reason why none does.

## 2. Modules

| Module | Models | |
|---|---|---|
| `Startup` | what the start-up promises: harts are released in order, apart from hart 0 that releases them; the console is hart 0's, then hart 1's | abstract specification |
| `Boot` | entry code, `main_first_hart()`, `main_other_hart()`, `e51()`, `u54_n()`; resets | implements `Startup` |
| `Mmuart` | the MMUART driver, its handler, its client, transmitter and receiver | |
| `HelloUart` | `u54_1()` over `Mmuart` (EXTENDS it and replaces its arbitrary client) | composition |
| `Interrupts` | PLIC, CLINT, trap handlers and threads of several harts | |
| `I2c` | I2C driver, handler, tick, client, controller and bus | |
| `DdrTraining` | every case of `ddr_setup()`, the training IP, the PLL, the memory's answers | |
| `Mmc` | MMC driver, its handler, the host controller and the card | |
| `MacQueue` | transmit rings of every queue, receive ring of queue 0, the handlers, the GEM's DMA | |
| `SpiSlave` | SPI slave in block mode, its handler, the FIFOs and the master | |
| `SysServices` | system services in both modes, the message interrupt, the system controller | |
| `UsbControl` | USB device's control endpoint, the controller and a host | |
| `MCDrivers` | the six modules above in one specification: which driver is at work is chosen at the start | composition for TLC |
| `MCMmuart`, `MCI2c` | the drivers with one of two, or of three, clients, and what these may rely on: each client is an instance of the driver's proof module with constants of its own | composition |
| other `MC*` | constants of the TLC instances | |
| `BootProof`, `MmuartProof`, `InterruptsProof`, `I2cProof` | the theorems about each component | |
| `MmuartClientsProof`, `I2cClientsProof` | the theorems about the clients of `HelloUart` and `MCMmuart`, and of `MCI2c` | composition, for the proofs |
| `SpiUsbProof` | the theorems about `SpiSlave` and about `UsbControl` | |
| `DriversProof` | the theorems about `DdrTraining`, `Mmc`, `SysServices` and `MacQueue`, and about the six of `MCDrivers` together | composition, for the proofs |

Names follow the source. `PROJECT.json` maps each definition to its lines. A
definition whose comment begins with "Mutant:" is not part of the specification: it is
a faulty variant of the definition after it, kept to see that the properties notice.

### 2.1 Correspondence and granularity

**Boot.** One step is one access to a word or register another hart can see; `pc[h]`
names the next one. `mark[h]` and `my_hart_id[h]` are the HLS words, `sm` and
`hart_id` locals of the release loop. `ClearOwnHls`, `ClearLim`, `SeeMainStarted`,
`FlagInWfi`, `WakeFromWfi` and `FlagPassed` are `mss_entry.S`; `PublishStarted` to `EnableFabric` are
`main_first_hart()`; `Dispatch` is `main_other_hart()`; `E51*` and `U54*` are the
applications. `CheckWake` has no resend: the source declares `wait_count` inside the
loop, so its test for a resend is never true. `Reset` restarts the harts and the
CLINT and keeps the HLS words, which are in the LIM, until each hart has cleared its own
and, in an image that does not itself start in the LIM (`StartInLim = FALSE`, the eNVM
image), hart 0 all of them (`.clear_l2lim`); `InitMarks` is what they may
hold at power-up, `MidBootReset` whether a reset may come before the boot is over.

**Mmuart.** The thread takes one step per access to a register or a field the handler
also touches; a handler path is one step, or several where it waits for the
transmitter. A message is its length. LSR, IER and the PLIC enable are sets and flags
that are read, modified and written in separate steps as in the code. `overrun`,
`outstanding` and `unsent` are history variables. The client makes any call in
`Calls` at any time, but only those in `Overlap` while a message is outstanding.

**HelloUart.** `u54_1()` replaces the arbitrary client: `at` is its place. Keys
arrive at any time; the receive handler runs between any two steps once interrupts
reach the hart (`listening`).

**Interrupts.** `line`, `pending`, `inService` are the gateways; `ena[h]` is one
enable word of hart h, read into `word` and written back in two steps. A hart in
`Guarded` masks interrupts around its PLIC and SysTick calls, others do not. `trap[h]`
is the place in the trap handler. Time is the distance `left[h]` from MTIME to
MTIMECMP. `disabled`, `wanted` and `since` are history variables.

**I2c.** The controller stops while SI is set, so an interrupt's handler is one step,
chosen by STATUS, with CTRL as a set of bits. The functions that start a transaction
sample `slave_status` and then mask interrupts: two steps, `Sample` and `Begin`.
`Controller` is the other end: it acknowledges or not, wins or loses the arbitration,
addresses this controller as a slave, and may fail once (`Faults`). A message is its
size and index. `acked`, `got` and `fault` are history variables. `Begin` clears SI
when the bus is held, as the code does; `Finish` of a holding transaction disables the
source in the PLIC, whose completion is then ignored (`closed`).

**DdrTraining.** One step is one case of `ddr_setup()`, with its fall-throughs and the
functions it calls; the sub-machines (address training, LPDDR4, write calibration per
latency, offset and lane) are steps of their own, named in lower case in
`ddr_training_state`. `phy` keeps what a later case relies on: clock and phase, the
values of RPC and I/O registers, mode, DPC bits, segment map, write delays. The training IP
works through `Stages` when it likes, the PLL locks when it likes, a memory test answers
what it likes, except that a test that failed with a timeout repeats it. `proven` is the
history of delays that passed at the latency in use.

**Mmc.** A call is one step up to its command, since both the PLIC and SRS14 mask the
interrupt until then, and one that writes `IN_PROGRESS`. The handler's branches are
actions, in the order of its `else if`. `card` is what the controller does: a command,
data, a pause at a DMA boundary, the stop command, or queued tasks. SRS13 has every
error recorded, SRS14 raises the interrupt for few of them (`Signalled`): for a data
time-out, and an ADMA error, which is the same here; for a command time-out only of queued
tasks. CRC, end-bit and index errors are one kind (`CRC_ERROR`), recorded without a signal.

**MacQueue.** `rx_desc` and `tx_desc` are the rings with their ownership bits, whose buffer each
holds, and a number for what is in it. A call with the queue's interrupt disabled is one
step. The handler goes through its parts (`mac_isr.at`), since callbacks call the
driver and the DMA goes on between them. Both sending functions with all the
outcomes of a full ring are there, one queue's transmit completions beside another's.
The transmitter is always enabled: `MSS_MAC_init()` sets `GEM_ENABLE_TRANSMIT` and
nothing in the repository clears it, so the branches for a disabled one
(`mss_ethernet_mac.c:1904`, 2091, 2197) are never taken.

**SpiSlave.** One action per branch of `mss_spi_isr()`, frames between them. FIFOs are
sequences; a frame is the number of its packet, so that a frame in the wrong place shows.

**SysServices.** The services share `RequestSystemService` and differ in where their
response goes; `Service` is the request with its polling wait
(`AwaitTaken`, `AwaitDone`). A response is the number of its request. It goes to the
client's buffer, nowhere, or, for two services (`ThroughFrame`), to an array of the
driver's own that is copied to the client's buffer: by `AwaitDone` in polling mode, but in
interrupt mode at once, as `Zeros`, after which the function returns. `CopyToDeadFrame` is
the later write through the pointer to that array; it hits nothing in use, or the thread
is `lost` and not followed any further.

**UsbControl.** The handler is two steps, the bus events and the endpoint, with the host
going on between them. CSR0 is its set of bits. `Reply` gives what each request answers,
`host` is the host's transfer with what it has moved, `host_view` the address and
configuration it believes it has given.

History flags name the behaviours a property excepts, all of them hazards of
`PROJECT.json`: `mmc_lost` (why a transfer's end can go unseen), `bad_stop`, `mac_lost`,
`given_up`, `hurried`, `overlapped`, `usb_raced`, `usb_resumed`. Each is set by the step
that makes the behaviour one of those, and never constrains a step.

## 3. Runs

| Run | Instance | Shows |
|---|---|---|
| `boot_reboot` | 4 harts, eNVM image, every RAM content of a completed boot, 2 reboots | `BootCompletes`, `HandshakeInv`, `BootSafety` (own application, console handed over, main hart first), `ReleasedOnlyFromWfi`, `WaitingHartWakes`, typing, and the refinement `ImplementsStartup` |
| `boot_midreset` | 5 harts, eNVM image, one reset at any moment | **violated:** `BootCompletes` |
| `boot_lost_wakeup` | 2 harts, no reset | **violated:** `Hart1BroughtOutOfWfi` |
| `mmuart_driver` | FIFO 2, messages up to 3; one of two clients: one transmits in every way, polls the receiver and meets a receiver error, one echoes 3 bytes from its receive handler | `DriverInv`, `NoOverrun`, `CompleteReleasesBuffer`, `IrqTxDrains`, `CallsReturn` |
| `mmuart_early_complete` | FIFO 2, messages up to 3 | **violated:** `CompleteMeansSent` |
| `hello_start` | 2 keys of either kind | `GreetingUndisturbed`, `MenuSentFirst`, `ReachesLoop` |
| `interrupts_two_harts` | 2 harts (one masks), 2 shared sources, 3 calls, 2 requests, tick period 2 | typing, `GatewayInv`, `StaysDisabled`, `TickInv`, `TickSpacing`, `EventuallyServed` (sources, ticks and software interrupts) |
| `i2c_clients` | one of three clients: a master with time-outs and lost arbitration; two that are a slave too, with one interference and one fault, that read or write first | `ClientsInv` (typing, `TransferInv` and `MasterInv`, the inductive invariants of section 4), `ReadInBounds`, `SuccessMeansDone`, `MasterEnds`, `SlaveReachable`, `PendedStarts` |
| `i2c_hold` | write and read, holding the bus | **violated:** `HeldBusContinues` |
| `i2c_late_success` | write-read with a time-out | **violated:** `SuccessIsTrue` |
| `drivers` | DDR, MMC, Ethernet, SPI slave, system services, USB control, one at a time | `DriversInv` (typing, and the inductive invariants of section 4); `DdrReady`, `MmcSafety`, `MacSafety`, `SpiSafety`, `SysSafety`, `UsbSafety`; `DdrAttemptEnds`, `MmcEnds`, `MacServed`, `SpiReports`, `SysEnds`, `UsbEnds` |
| `usb_setup_overlap` | 2 control transfers, 1 bus event | **violated:** `UsbAssertionsHold` |

### 3.1 Disagreements found

* **Lost wake-up of hart 1** (`u54_1.c:80`). `u54_1()` begins by clearing its software
  interrupt; nothing makes `e51()` wait for that before it raises it. Hart 1 then sleeps.
* **Start mark of an earlier boot** (`mss_entry.S:174`, 231). After a reset in mid-boot a
  secondary hart that polls hart 0's start mark before hart 0 has cleared it takes the old
  one for the new, writes its in-wfi word, once, and waits. Hart 0 then clears the LIM with
  that word, publishes, and waits for the word for ever: no hart is released. An image
  that starts in the LIM does not clear it; with `StartInLim = TRUE` TLC finds
  `BootCompletes` true in the same instance (357,967 states), since hart 0 then goes ahead on
  stale words and yet every hart arrives.
* **Early transmit completion** (`mss_uart.c:391`). `MSS_UART_tx_complete()` reads LSR
  before `tx_buff_size`; the interrupt in between makes it answer yes with a block in
  the FIFO. The buffer is free (`CompleteReleasesBuffer`), the transmission is not over.
* **Held bus** (`mss_i2c.c:863`). The handler disables its own PLIC source; the
  completion that follows is ignored, the gateway stays closed, and the next
  transaction's interrupts never come.
* **Success after a time-out** (`mss_i2c.c:450`). The tick sets `NO_TRANSACTION` while
  the bus goes on; a write-read timed out in its write phase is later reported as
  `MSS_I2C_SUCCESS` with nothing read.
* **SETUP packet taken for data** (`mss_usb_device.c:935`). When the host gives up a
  control transfer and its next SETUP packet is already there, the handler reads that
  packet to the buffer of the transfer given up, with that transfer's packet length, and
  fails its own assertion (959), or, when the lengths agree, serves the old request again.

One more disagreement is stated by a property that holds. In interrupt mode
`MSS_SYS_query_security()` and `MSS_SYS_secure_nvm_read()` (`mss_sys_services.c:362`, 789)
have their response read to a local array, copy the zeros in it to the client's buffer, and
return. `MSS_SYS_read_response()` later writes the response through the pointer it kept (1937),
into whatever is on the stack then. `mss_sys_services.h:138-140` and 1116-1118 promise the
response in the client's buffer; `SysSafety` has zeros there for good.

The models have further behaviours that a client may not expect and that no run is
devoted to; each is a hazard in `PROJECT.json`. Some are excluded by a named constant: a
stale word after a reset in mid-boot (`MidBootReset = FALSE` in `boot_reboot`; in an image that
starts in the LIM, hart 0 may then raise an interrupt at a hart that is not in its wfi); the echo of the receive handler between a polled
transmission's look at LSR and its block (the echoing client of `mmuart_driver` makes no
polled transmission of its own; the echo comes in the command loop of `HelloUart`); a handler's disable undone by the thread's enable
(`Guarded`); an I2C start that samples a slave transfer about to end (`Masked`);
arbitration lost at a repeated START, and to a master that reads from this slave
(`Contention`); a bus error that leaves a transaction pending (`Faults`; reported a failure, it is started
later all the same, and its read can then meet the buffer of the client's next one); slave enable or
disable during a master read (`Overlap`); calls after a time-out while the old transfer
is on the bus (`Resumes`); fewer receive buffers than descriptors (`RxBuffers`).

The others are in the `drivers` run, and its properties except them by a history flag:
an MMC transfer whose end is served before the call writes `IN_PROGRESS` ("overtaken"), that
ends in an error without a signal ("unsignalled"), or several of whose tasks are notified at
once ("merged"), stays in progress (`mmc_lost`); one after a stop command that
failed may be reported a success untrue (`bad_stop`); a transmit completion cleared by
another queue's handler is lost (`mac_lost`); packets a busy queue gives up are never called back
(`given_up`); an SPI master that does not wait for the handler loses the start and the
end of its next packet (`hurried`); a system service requested before the last was taken
gets its response (`overlapped`); a response written to a dead frame may take its thread
with it (`sys_pc = "lost"`, excepted by `SysEnds`), and `SysSafety` says of the buffers of such
services that they hold zeros; a SETUP packet between the handler's two reads is
served by the wrong interrupt (`usb_raced`); after a resume the device is back in its
default state unknown to the host (`usb_resumed`).

### 3.2 Bounds, and why they are enough

* *Harts.* The release loop handles one hart at a time, in order: a hart not yet
  reached, the one being released, and one already released are three different
  situations, so hart 0 and three others show all of them together. `boot_midreset`
  uses the real five. `StartInLim` is `FALSE` in all runs, the image in the eNVM; the theorems
  hold for both. One reset shows a stale value of every kind, two a boot on
  values left by a boot on such values.
* *FIFO.* Size 2 with messages up to 3 has messages shorter than, equal to, and longer
  than the FIFO, with a remainder. The real size is 16; the theorems hold for every size.
* *Keys.* Two keys: one that is being served and one that arrives meanwhile.
* *Interrupts.* Two sources in one word make read-modify-write visible, two harts make
  a shared claim visible. Three calls are enough to enable, disable and enable again
  around two requests. `Calls` and `Requests` bound the number of calls and events; the
  theorems do not depend on them.
* *I2c.* The handler distinguishes the last byte, the one before it and the rest of a
  read: 0, 1 and 2 bytes; a slave buffer of 0 or 1; an offset of 1. `MaxDisturbed`
  bounds how often other masters interfere: two losses for the client without slave mode, where a second
  one hits a transaction already restarted, one with it. No transaction count
  bounds the runs: sequences of transactions are unlimited.

* *DDR.* Two lanes, so that one can pass and another fail; two latencies and two
  offsets, a first, a last and a retry of each; two values of the RPC retry; a training
  type of each way through the state machine (DDR3L and LPDDR3 take those of DDR3 and
  LPDDR4 or a part of them); one stage skipped. A time-out of 2 polls is reached and not reached. Attempts are
  not bounded.
* *MMC.* Three transfers: one that fails badly, one on what it left, one more. Two tasks
  can be notified one by one or together.
* *Ethernet.* Two queues share the status; a receive ring of 2 with 3 frames and a transmit
  ring of 3 with 2 packets wrap around. One call over the limit instead of three gives up.
* *SPI.* Packets of 0 to 3 frames with a buffer of 2, a command of 1, a FIFO of 3 and a threshold of
  2: shorter than a command, within the buffer, beyond it, at the threshold and past it.
* *System services.* Three requests: one overwritten, one overwriting, one after both.
* *USB.* Packets of 2, data stages of 1, 3 and 5 and replies of 3: one packet, two, three,
  shorter and longer than what the device has. Three transfers and three bus events: a transfer given
  up, one that meets what it left, one after it.

Deadlock is not checked in the runs of `Boot`, `HelloUart`, `Interrupts`, `I2c`,
`MCDrivers` and `UsbControl`: harts settle in their idle loops, threads use up their
calls, DDR training is done, and nothing obliges a client, a card or a host to go on.

### 3.3 Fairness

* `Boot`: each hart goes on executing (WF of its steps). Resets are not required.
* `Mmuart`, `HelloUart`: the thread goes on, the transmitter sends what it has, and an
  enabled interrupt is taken. Nothing obliges anyone to send to the receiver;
  `mmuart_driver` claims liveness for the client without an echo, since keys without end
  keep the thread of an echoing one waiting.
* `Interrupts`: handlers and threads go on, time passes, an interrupt that can be taken
  is taken. Requests are not required.
* `I2c`: the bus moves (its other end answers or stops), the interrupt is served, a call
  that was begun ends. The tick is not required, so `MasterEnds` does not rest on
  time-outs.

* `MCDrivers`: the driver at work goes on, its interrupt is served once it can be
  taken; the PLL locks, the card, the system controller and the transmit DMA answer;
  the USB host goes on with a transfer it has begun. The training IP need not finish a
  stage (the polls are bounded), the SPI master need not send, nothing need be received.

Only weak fairness on the steps of separate agents is used: each hart executes its own
instructions, and hardware and interrupts are not held up for ever.

## 4. Proofs

All theorems are checked by TLAPS, for every value of the constants that meets the
assumption named in the component's module. Each inductive invariant is in the component's
module, after the properties, and was checked by TLC before it was proved: `HandshakeInv`,
`DriverInv`, `GatewayInv`, `TickInv`, those of `ClientsInv` and those of `DriversInv` are
invariants of the runs. One action, or a few alike, is one step of a proof that an invariant is
kept, and one conjunct is one lemma where the invariant is large (`I2cProof`, the DDR
training). Every safety property of a run that passes is stated by a theorem.

**Boot** (`BootProof`). `Typing`. The safety theorems rest on `HandshakeInv`, which
says for each place of hart 0 how far every other hart can be and what its words and
MSIP bit then hold: below `hart_id` all have acknowledged, above it none has been
touched, and hart `hart_id` goes through untouched, in its wfi loop, being woken. The
properties themselves are not inductive: that a hart runs its own application follows
only because its id was recorded while it was in wfi, and that follows only because
its in-wfi word is of this boot. The theorems about it assume `NoStaleHandshake`: RAM
holds neither of the two words a hart acts on, at power-up or when a reset comes,
which is true of RAM left by a complete boot. From it: `Safety` (that is `BootSafety`),
`ReleaseFromWfi`, and `Refinement`, that every step is a step of `Startup` or leaves its view unchanged.

**Mmuart** (`MmuartProof`). `Driver` proves `DriverInv`: beside typing, that what is
left of a message is exactly what its index says, that the transmit interrupt is
enabled only while a message is in progress and no read-modify-write of IER is in
flight, that every enabled source has a handler, and that calls that go on have
something left. `AssertsHold` and `BufferReleased` follow. `FifoNeverOverrun` adds
`FifoInv` (a block promised by THRE still fits when it is written). All assume
`Disciplined`: while a message is outstanding the client makes no call that transmits
or changes IER; the last also `OneFills`: the receive handler does not transmit, or the
thread leaves transmission to the handlers. TLC has shown that each assumption is needed.

**The two clients of `MCMmuart`** (`MmuartClientsProof`). `ClientsKeepDriver`,
`ClientsNeverOverrun` and `ClientsBuffersReleased` state the run's three invariants for its
own specification. Each client is an instance of `MmuartProof`, so the lemmas about a step
of the driver are cited for the steps of each (`Sending!`, `Echoing!`), with the assumption
`OneFills` met by one through `Echo`, by the other through its calls. What is left to prove is
that the invariants of a client say the same with the constants of both. The assumption
`Overlap \subseteq SendCalls` says that what is allowed beside a message is a call of the
client's.

**Application** (`MmuartClientsProof` too, on the driver's lemmas). `GreetingAlone` and
`MenuFirst`. `StartInv` says that up to the menu the driver's invariant holds and that no
handler can run (`Silent`): the receive handler echoes, so the invariant of the driver
alone, whose client is `Disciplined`, does not hold in the command loop, and the
theorems follow `u54_1()` only as far as the loop, where what they claim has been decided.

**Interrupts** (`InterruptsProof`). `Typing`; `GatewayNeverStuck`: a claimed source is
in the hands of exactly one hart that has it enabled; `DisableSticks`: on a masking
hart what a handler turned off stays off; `TickEnable`; `TicksSpaced`: the ticks of a
masking hart are a period apart. The strengthenings say what the locals of a suspended
read-modify-write and of an interrupted `SysTick_Config()` still agree with.

**I2C** (`I2cProof`). `Transfers` proves `TransferInv`, for every buffer size, kind of
transaction, option and contention: the controller is a master, or is to become one, only
while the driver has a transaction of the client's (`Owned`); a STOP belongs to one that is
over (`Stopping`); a held bus gets no further than its next SI (`Held`); while a read goes
on, AA is set only when there is room for two bytes more (`Reading`); and whatever has
cleared the AA bit of an enabled slave is followed by a branch of the handler that sets it
(`Answering`). None of these is inductive alone: the handler stores a byte without a look at
the size, so that nothing but the history of AA bounds the index, and that history is only as
good as the ownership of the bus. From it `SlaveAnswers`, and, where there is no bus error,
`IndexesFit` and `ReadsFit`. `Typing` needs none of it: whatever the client does, every
variable keeps its type, and the read index, which the handler does not check, at least
stays a natural number. `SuccessMoves` adds `MasterInv`: the direction and the bytes that
went over the bus agree with the transaction and its indexes (`Directed`, `Counted`), so a
transaction in progress ends in success only when it is `Done`; `SuccessWithoutTimeouts`
concludes `SuccessIsTrue`, violated by `i2c_late_success`, for a client without time-outs. The
assumptions: `Disciplined` (interrupts masked around a start, no slave calls during a
transaction, none after a time-out), needed because each of the three lets a transaction run
that the driver does not know of; no bus error, which leaves one pending: TLC then finds
`ReadInBounds` violated with two disturbances; for the successes no loss at a repeated START,
after which the handler begins the read again without its write.

**The three clients of `MCI2c`** (`I2cClientsProof`). `ClientsKeep` (`ClientsInv`),
`ClientsAnswer` (`SlaveReachable`) and `ClientsSucceed` (`SuccessMeansDone`), for the
specification of the run. Each client is an instance of `I2cProof`; `OwnInv` is the
invariant of the client at hand with its own constants, kept because each of its steps is
one of that instance's, and it implies what the properties say with the constants of all
three. `MaxDisturbed >= 1` is assumed where they do: two clients have a bound of one
disturbance of their own, which the common bound has to cover.

**DDR training** (`DriversProof`). `TrainingIsTrue` (`DdrReady`) and `DdrTyping`.
`DdrInv` lists for each state what the cases before it have achieved and no later one may
undo (`Achieved`), with sets of states defined from the last backwards, since a retry goes
back to an earlier state and has to keep, or lose, exactly what that state supposes. It adds
that the IP's stages are completed in order, so the last one stands for all, and
that a time-out is positive where it is counted down.

**MMC** (`DriversProof`). `SuccessMeansMoved` (`MmcSafety`) and `MmcTyping`. `MmcSafety` is not
inductive: a success is reported from the controller's status bits and
`transfer_complete`, and they stand for data moved only because nothing else is under way.
`MmcInv` says for each kind of transfer which bits can be set and what the card does then
(`DmaUnderWay`, `QueueUnderWay`), and, as long as no stop command has failed, that
`transfer_complete` waits for a stop command of data already moved (`Stopping`).

**SPI slave** (`SpiUsbProof`). `PacketsHandedOver` (`SpiSafety`) and `SpiTyping`, the second
with no condition on the master: an index within a buffer follows from the transmit side
filling only what there is room for (`FifoFilled`), and the frames counted from the number of
packets so far (`Packets`). `SpiSafety` speaks only of what the client has been given;
`SpiInv` adds, for a master that waits, where the current packet is: its end is reported
before the next begins (`PacketEnds`), buffer and FIFO together hold it from its first frame
(`Received`), the command interrupt is enabled exactly until its command is answered
(`CommandTurn`), and what is left of a response in the driver or the FIFO is of this packet
(`Responding`).

**System services** (`DriversProof`). `ResponseIsItsOwn` (`SysSafety`) and `SysTyping`. For a
client that lets one service end before the next: a status returned is that of the request,
a buffer holds the response to its own request or nothing, and once the status
is returned it does hold the response where the driver delivers one (`Delivered`: to the
client's buffer at once, or, of a secure read, if it succeeded). Where the response goes to a
dead frame, the buffer holds zeros; what happens after a thread is lost is not claimed.
As long as no request overlapped another, `LatestOnly`: the mailbox, the controller and
the notice it gives are all of the latest request, at the stage the driver believes.

**USB control endpoint** (`SpiUsbProof`). `TransfersWhole` (`UsbSafety`) and `UsbTyping`. The
first part of `UsbSafety`, that only data is taken for data, holds whatever the host does:
a write the driver has stopped is stalled or cut short before another packet
(`StoppedIsStalled`), because buffer and request agree with the data stage the driver is in
(`BuffersFit`) and the end of one transfer does not meet the packet of another
(`EndsApart`). The rest holds for requests in time: `TransferInStep` lists the phases
of a transfer (`SetupPending` to `DataTaken`, or `Resting`) with the status bits, the
endpoint's counters and the host's in each; every step goes from one to the next or is one
that sets `usb_raced`, so where it does is exactly where the driver loses step.
`DeviceInStep` has the device one request ahead of the host until the status stage. A bus
reset begins again (`BusEventsServed`).

**Ethernet queues** (`DriversProof`). `FramesInOrder` (`MacSafety`) and `MacTyping`, for every
number of queues, ring sizes and buffers. `MacSafety` looks at what was delivered;
that the next frame is the right one depends on every descriptor of the ring. `RingInStep`
gives each its distance (`Ahead`) from the one given back next: it is used exactly when
less than the number of frames not yet passed up (`Filled`), its frame is that many after
the last, and the DMA writes where the used ones end. `HandlerInStep` has the driver's two
indexes together but for the callback, where they are one apart, and `Attaching` has the ring
untouched until the client's last buffer. `QueueInStep` does the same for a
transmit queue: its last packets are, in order, in the descriptors from `current_tx_desc`
on, and the others are called back or given up, none both. What `txpkt_handler()` finds done
is an initial part of them (`DoneFirst`), which takes the least-number principle
(`Least`). `MacInv` has the packet numbers among the naturals: `MaxPackets`, the
bound on what a run accepts, is a sum over the queues, and no theorem depends on it.

**The six drivers together** (`DriversProof`). `DriversKeepTheirInvariants` (`DriversInv`): in the
specification of the run `drivers`, whichever is at work; and from it
`DriversKeepTheirPromises`, the six safety properties of that run, with what `SysSafety` leaves
out. So the theorems say of
every value of the constants what the run says of its own.

**Only model-checked:** every liveness property (`BootCompletes`, `WaitingHartWakes`,
`IrqTxDrains`, `CallsReturn`, `ReachesLoop`, `EventuallyServed`, `MasterEnds`,
`PendedStarts`, `DdrAttemptEnds`, `MmcEnds`, `MacServed`, `SpiReports`, `SysEnds`,
`UsbEnds`), which TLAPS does not reach; and `ReadInBounds` once a bus error has occurred.
`i2c_clients` has it true after one disturbance, and TLC finds it false after two, so
`ReadsFit` is stated for a bus without such errors.

## 5. Plan

Done: start-up with its abstract specification and refinement, MMUART and the
application, interrupts, I2C; DDR training, MMC, Ethernet queues, SPI slave, system
services, USB control endpoint. Left, in order of importance:

1. `Pdma`: one channel's control register between the thread and its handlers
   (`mss_pdma.c:397`). `Peripherals`: two harts in `mss_config_clk_rst()`, which read,
   modify and write the shared clock and reset registers (`mss_peripherals.c:120`).
2. An abstract specification of buffer ownership (client, driver, hardware) implemented
   by `MacQueue`, and one of a transfer with a single outcome by `Mmc`.
3. `Can`; the RTC's time read and the watchdog's trigger; the data endpoints and DMA of
   the USB device; SPI master mode.
4. Of the fabric IP drivers, CoreI2C (by difference from `I2c`) and the KR PHY's state
   machine.

Smaller points met while reading, to be taken up with their modules: `load_virtual_rom()`
copies the size of one element (`system_startup.c:473`); the LIN interrupt cannot be
enabled (`mss_uart.c:470`) and `MSS_UART_enable_local_irq()` enables hart 0's interrupt
for every instance (1320); the sticky receiver status is updated by the thread without
masking (896), so errors are lost, which `Mmuart` shows and no property forbids; keys are lost between use and reset of `g_rx_size`
(`u54_1.c:170`); `PLIC_init_on_reset()` claims after it has cleared all enables
(`mss_plic.h:857`); `verify_context_enable()` uses the hart number as a mask
(`mss_peripherals.c:81`); uninitialised return values in `mss_ddr.c:408`; write offset 15
is never tried (`mss_ddr.c:3329`); `next_config` sizes only OR-ed (`mss_pdma.c:127`) and
RUN set without a look (186); `MSS_SPI_init()` disables interrupt 0 (`mss_spi.c:151`),
and the command response may be set by the thread while the handler uses it (960); an
eight-bit offset (`mss_sys_services.c:2018`).

## 6. Not modelled, and why

* Memory, cache, MPU and PMP set-up, I/O and SGMII calibration: sequential code of the
  main hart before any other hart runs; one step of `Boot`.
* Data: message bytes, formatting, addresses, baud-rate arithmetic. The properties are
  about lengths, ownership and order.
* In the modelled drivers: LIN, IrDA, smart-card, loopback and modem functions of the
  MMUART, custom transmit handlers and local interrupts; SMBus functions, the transfer
  completion handler and instance selection of the I2C; debug printing of the DDR
  training; identification of the card inside `MSS_MMC_init()`; receive queues other than
  0, error and pause interrupts, filters and time stamps of the Ethernet MAC, and the
  PHYs; SPI master and frame modes; `MSS_SYS_otp_generate()`; USB data endpoints, classes,
  endpoint halt, remote wake-up, test modes and host mode.
* Each driver is used by one hart, and its interrupts do not nest: the code has no locks
  and supposes both.
* Supervisor-mode contexts, exceptions and the bus-error unit: the application uses none.
* The FPGA side: scripts and netlists, no behaviour of their own.
* Register headers (most of the lines of the HAL): layouts, no behaviour.
* The remaining drivers as in section 5.
