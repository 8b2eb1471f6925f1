------------------------------ MODULE MCDrivers ------------------------------
(***************************************************************************)
(* The drivers that share nothing with each other, in one run: which of     *)
(* them is at work is chosen at the start, and the others stay as they are. *)
(***************************************************************************)
EXTENDS DdrTraining, Mmc, MacQueue, SpiSlave, SysServices, UsbControl

VARIABLE working

DriversInit ==
  /\ working \in {"ddr", "mmc", "mac", "spi", "sys", "usb"}
  /\ DdrInit /\ MmcInit /\ MacInit /\ SpiInit /\ SysInit /\ UsbInit
  /\ working = "ddr" \/ ddr_type = "OFF"

DdrStep == working = "ddr" /\ DdrNext /\ UNCHANGED <<mmcVars, macVars, spiVars, sysVars, usbVars>>
MmcStep == working = "mmc" /\ MmcNext /\ UNCHANGED <<ddrVars, macVars, spiVars, sysVars, usbVars>>
MacStep == working = "mac" /\ MacNext /\ UNCHANGED <<ddrVars, mmcVars, spiVars, sysVars, usbVars>>
SpiStep == working = "spi" /\ SpiNext /\ UNCHANGED <<ddrVars, mmcVars, macVars, sysVars, usbVars>>
SysStep == working = "sys" /\ SysNext /\ UNCHANGED <<ddrVars, mmcVars, macVars, spiVars, usbVars>>
UsbStep == working = "usb" /\ UsbNext /\ UNCHANGED <<ddrVars, mmcVars, macVars, spiVars, sysVars>>

DriversNext ==
  /\ DdrStep \/ MmcStep \/ MacStep \/ SpiStep \/ SysStep \/ UsbStep
  /\ UNCHANGED working

drivers == <<working, ddrVars, mmcVars, macVars, spiVars, sysVars, usbVars>>

\* Each driver's own fairness, for the one at work.
DriversFairness ==
  /\ WF_ddrVars(working = "ddr" /\ DdrDriver) /\ WF_ddrVars(working = "ddr" /\ PllLocks)
  /\ WF_mmcVars(working = "mmc" /\ MarkInProgress) /\ WF_mmcVars(working = "mmc" /\ MmcIsr)
  /\ WF_mmcVars(working = "mmc" /\ MmcCard)
  /\ WF_macVars(working = "mac" /\ ReceivePkt) /\ WF_macVars(working = "mac" /\ MacIsr)
  /\ WF_macVars(working = "mac" /\ TxFrame)
  /\ WF_spiVars(working = "spi" /\ SpiIsr)
  /\ WF_sysVars(working = "sys" /\ Controller) /\ WF_sysVars(working = "sys" /\ MessageIsr)
  /\ WF_sysVars(working = "sys" /\ SysThread)
  /\ WF_usbVars(working = "usb" /\ UsbIsr) /\ WF_usbVars(working = "usb" /\ HostMoves)

DriversSpec == DriversInit /\ [][DriversNext]_drivers /\ DriversFairness

\* Every variable of every driver stays in its type, and the invariants hold that
\* each driver's promises rest on.
DriversInv == DdrInv /\ MmcInv /\ MacInv /\ SpiInv /\ SysInv /\ UsbInv
=============================================================================
