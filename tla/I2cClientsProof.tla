--------------------------- MODULE I2cClientsProof ---------------------------
(***************************************************************************)
(* Proofs about the three clients of MCI2c together.  Each is an instance   *)
(* of I2cProof with constants of its own, so what I2cProof says of a step   *)
(* is said of the steps of each; what is left is that its invariants say    *)
(* the same with the constants of all three.                               *)
(***************************************************************************)
EXTENDS MCI2c, TLAPS

\* The invariants of the client at hand, with its own constants.
OwnInv ==
  /\ client \in {"reading", "writing", "master only"}
  /\ client = "reading" => Reader!Types /\ Reader!TransferInv
  /\ client = "writing" => Writer!Types /\ Writer!TransferInv
  /\ client = "master only" => MasterOnly!Types /\ MasterOnly!TransferInv /\ MasterOnly!MasterInv

\* The constants of each client are such as I2c is about.
LEMMA OwnConstants ==
  Reader!I2cAssumption /\ Writer!I2cAssumption /\ MasterOnly!I2cAssumption
BY I2cAssumption DEF I2cAssumption, Reader!I2cAssumption, Writer!I2cAssumption,
   MasterOnly!I2cAssumption, Reader!MasterKinds, Writer!MasterKinds, MasterOnly!MasterKinds,
   MasterKinds

LEMMA OwnDiscipline ==
  ASSUME Disciplined
  PROVE  Reader!Disciplined /\ Writer!Disciplined /\ MasterOnly!Disciplined
BY DEF Disciplined, Reader!Disciplined, Writer!Disciplined, MasterOnly!Disciplined

\* All start alike.
LEMMA OwnInit ==
  ASSUME Init
  PROVE  Reader!Init /\ Writer!Init /\ MasterOnly!Init
BY DEF Init, Reader!Init, Writer!Init, MasterOnly!Init, NoTransaction, Reader!NoTransaction,
   Writer!NoTransaction, MasterOnly!NoTransaction

\* They have the variables in common.
LEMMA OwnVars ==
  /\ UNCHANGED vars => UNCHANGED Reader!vars
  /\ UNCHANGED vars => UNCHANGED Writer!vars
  /\ UNCHANGED vars => UNCHANGED MasterOnly!vars
BY DEF vars, hw, plic, trans, how, master, slave, thread, hist,
   Reader!vars, Reader!hw, Reader!plic, Reader!trans, Reader!how, Reader!master, Reader!slave,
   Reader!thread, Reader!hist,
   Writer!vars, Writer!hw, Writer!plic, Writer!trans, Writer!how, Writer!master, Writer!slave,
   Writer!thread, Writer!hist,
   MasterOnly!vars, MasterOnly!hw, MasterOnly!plic, MasterOnly!trans, MasterOnly!how,
   MasterOnly!master, MasterOnly!slave, MasterOnly!thread, MasterOnly!hist

LEMMA OwnStart ==
  ASSUME ClientsInit
  PROVE  OwnInv
<1>1. Reader!Types /\ Reader!TransferInv
  BY OwnInit, OwnConstants, Reader!TypesInit, Reader!TransferInit DEF ClientsInit
<1>2. Writer!Types /\ Writer!TransferInv
  BY OwnInit, OwnConstants, Writer!TypesInit, Writer!TransferInit DEF ClientsInit
<1>3. MasterOnly!Types /\ MasterOnly!TransferInv
  BY OwnInit, OwnConstants, MasterOnly!TypesInit, MasterOnly!TransferInit DEF ClientsInit
<1>4. MasterOnly!MasterInv
  BY DEF ClientsInit, Init, MasterOnly!MasterInv, MasterOnly!Busy
<1>5. QED
  BY <1>1, <1>2, <1>3, <1>4 DEF OwnInv, ClientsInit

LEMMA OwnStep ==
  ASSUME Disciplined, OwnInv, [ClientsNext]_<<vars, client>>
  PROVE  OwnInv'
<1>1. client' = client
  BY DEF ClientsNext
<1>2. CASE client = "reading"
  <2>1. [Reader!Next]_(Reader!vars)
    BY <1>2, OwnVars DEF ClientsNext
  <2>2. Reader!Types /\ Reader!TransferInv
    BY <1>2 DEF OwnInv
  <2>3. Reader!Types' /\ Reader!TransferInv'
    BY <2>1, <2>2, OwnDiscipline, OwnConstants, Reader!TypesStep, Reader!TransferStep
  <2>4. QED
    BY <1>1, <1>2, <2>3 DEF OwnInv
<1>3. CASE client = "writing"
  <2>1. [Writer!Next]_(Writer!vars)
    BY <1>3, OwnVars DEF ClientsNext
  <2>2. Writer!Types /\ Writer!TransferInv
    BY <1>3 DEF OwnInv
  <2>3. Writer!Types' /\ Writer!TransferInv'
    BY <2>1, <2>2, OwnDiscipline, OwnConstants, Writer!TypesStep, Writer!TransferStep
  <2>4. QED
    BY <1>1, <1>3, <2>3 DEF OwnInv
<1>4. CASE client = "master only"
  <2>1. [MasterOnly!Next]_(MasterOnly!vars)
    BY <1>4, OwnVars DEF ClientsNext
  <2>2. MasterOnly!Types /\ MasterOnly!TransferInv /\ MasterOnly!MasterInv
    BY <1>4 DEF OwnInv
  <2>3. MasterOnly!Types' /\ MasterOnly!TransferInv'
    BY <2>1, <2>2, OwnDiscipline, OwnConstants, MasterOnly!TypesStep, MasterOnly!TransferStep
  <2>4. fault' # "BUS_ERROR"
    BY <2>3 DEF MasterOnly!Types, MasterOnly!HistoryTypes
  <2>5. MasterOnly!MasterInv'
    BY <2>1, <2>2, <2>4, OwnDiscipline, OwnConstants, MasterOnly!MasterStep
  <2>6. QED
    BY <1>1, <1>4, <2>3, <2>5 DEF OwnInv
<1>5. QED
  BY <1>2, <1>3, <1>4 DEF OwnInv

-----------------------------------------------------------------------------
(* The invariants of each client imply those with the constants of all: the *)
(* two differ in the bounds of the types only.                              *)

LEMMA ReaderTypes ==
  ASSUME MaxDisturbed >= 1, Reader!Types
  PROVE  Types
<1>1. ControllerTypes
  BY DEF Types, ControllerTypes, Reader!Types, Reader!ControllerTypes, States, MasterStates,
     SlaveRxStates, SlaveTxStates, OffBus, Reader!States, Reader!MasterStates,
     Reader!SlaveRxStates, Reader!SlaveTxStates, Reader!OffBus
<1>2. StateTypes
  BY DEF Reader!Types, StateTypes, Reader!StateTypes, MasterKinds, Reader!MasterKinds,
     NoTransaction, Reader!NoTransaction, Statuses, Reader!Statuses
<1>3. BufferTypes
  BY DEF Reader!Types, BufferTypes, Reader!BufferTypes, TxSizes, RxSizes, SlaveSizes,
     Reader!TxSizes, Reader!RxSizes, Reader!SlaveSizes
<1>4. HistoryTypes
  BY I2cAssumption DEF I2cAssumption, Reader!Types, HistoryTypes, Reader!HistoryTypes
<1>5. QED
  BY <1>1, <1>2, <1>3, <1>4 DEF Types

LEMMA WriterTypes ==
  ASSUME MaxDisturbed >= 1, Writer!Types
  PROVE  Types
<1>1. ControllerTypes
  BY DEF Types, ControllerTypes, Writer!Types, Writer!ControllerTypes, States, MasterStates,
     SlaveRxStates, SlaveTxStates, OffBus, Writer!States, Writer!MasterStates,
     Writer!SlaveRxStates, Writer!SlaveTxStates, Writer!OffBus
<1>2. StateTypes
  BY DEF Writer!Types, StateTypes, Writer!StateTypes, MasterKinds, Writer!MasterKinds,
     NoTransaction, Writer!NoTransaction, Statuses, Writer!Statuses
<1>3. BufferTypes
  BY I2cAssumption DEF I2cAssumption, Writer!Types, BufferTypes, Writer!BufferTypes, TxSizes,
     RxSizes, SlaveSizes, Writer!TxSizes, Writer!RxSizes, Writer!SlaveSizes
<1>4. HistoryTypes
  BY I2cAssumption DEF I2cAssumption, Writer!Types, HistoryTypes, Writer!HistoryTypes
<1>5. QED
  BY <1>1, <1>2, <1>3, <1>4 DEF Types

LEMMA MasterOnlyTypes ==
  ASSUME MasterOnly!Types
  PROVE  Types
<1>1. ControllerTypes
  BY DEF Types, ControllerTypes, MasterOnly!Types, MasterOnly!ControllerTypes, States,
     MasterStates, SlaveRxStates, SlaveTxStates, OffBus, MasterOnly!States,
     MasterOnly!MasterStates, MasterOnly!SlaveRxStates, MasterOnly!SlaveTxStates,
     MasterOnly!OffBus
<1>2. StateTypes
  BY DEF MasterOnly!Types, StateTypes, MasterOnly!StateTypes, MasterKinds,
     MasterOnly!MasterKinds, NoTransaction, MasterOnly!NoTransaction, Statuses,
     MasterOnly!Statuses
<1>3. BufferTypes
  BY DEF MasterOnly!Types, BufferTypes, MasterOnly!BufferTypes, TxSizes, RxSizes, SlaveSizes,
     MasterOnly!TxSizes, MasterOnly!RxSizes, MasterOnly!SlaveSizes
<1>4. HistoryTypes
  BY DEF MasterOnly!Types, HistoryTypes, MasterOnly!HistoryTypes
<1>5. QED
  BY <1>1, <1>2, <1>3, <1>4 DEF Types

LEMMA ReaderTransfers ==
  ASSUME Reader!TransferInv, Types
  PROVE  TransferInv
<1> SUFFICES ASSUME fault # "BUS_ERROR"
             PROVE  TypeOK /\ Owned /\ Stopping /\ Held /\ Reading /\ Answering
  BY DEF TransferInv
<1> USE DEF Reader!TransferInv, OnBus, Begun, Runs, MasterStates, OffBus, Reader!OnBus,
        Reader!Begun, Reader!Runs, Reader!MasterStates, Reader!OffBus
<1>1. TypeOK
  BY DEF TypeOK, Reader!TypeOK
<1>2. Owned
  BY DEF Owned, Owner, Reader!Owned, Reader!Owner
<1>3. Stopping
  BY DEF Stopping, Reader!Stopping
<1>4. Held
  BY DEF Held, Owner, Reader!Held, Reader!Owner
<1>5. Reading
  BY DEF Reading, ReadInBounds, Reader!Reading, Reader!ReadInBounds
<1>6. Answering
  BY DEF Answering, Reader!Answering
<1>7. QED
  BY <1>1, <1>2, <1>3, <1>4, <1>5, <1>6

LEMMA WriterTransfers ==
  ASSUME Writer!TransferInv, Types
  PROVE  TransferInv
<1> SUFFICES ASSUME fault # "BUS_ERROR"
             PROVE  TypeOK /\ Owned /\ Stopping /\ Held /\ Reading /\ Answering
  BY DEF TransferInv
<1> USE DEF Writer!TransferInv, OnBus, Begun, Runs, MasterStates, OffBus, Writer!OnBus,
        Writer!Begun, Writer!Runs, Writer!MasterStates, Writer!OffBus
<1>1. TypeOK
  BY DEF TypeOK, Writer!TypeOK
<1>2. Owned
  BY DEF Owned, Owner, Writer!Owned, Writer!Owner
<1>3. Stopping
  BY DEF Stopping, Writer!Stopping
<1>4. Held
  BY DEF Held, Owner, Writer!Held, Writer!Owner
<1>5. Reading
  BY DEF Reading, ReadInBounds, Writer!Reading, Writer!ReadInBounds
<1>6. Answering
  BY DEF Answering, Writer!Answering
<1>7. QED
  BY <1>1, <1>2, <1>3, <1>4, <1>5, <1>6

LEMMA MasterOnlyTransfers ==
  ASSUME MasterOnly!TransferInv, Types
  PROVE  TransferInv
<1> SUFFICES ASSUME fault # "BUS_ERROR"
             PROVE  TypeOK /\ Owned /\ Stopping /\ Held /\ Reading /\ Answering
  BY DEF TransferInv
<1> USE DEF MasterOnly!TransferInv, OnBus, Begun, Runs, MasterStates, OffBus,
        MasterOnly!OnBus, MasterOnly!Begun, MasterOnly!Runs, MasterOnly!MasterStates,
        MasterOnly!OffBus
<1>1. TypeOK
  BY DEF TypeOK, MasterOnly!TypeOK
<1>2. Owned
  BY DEF Owned, Owner, MasterOnly!Owned, MasterOnly!Owner
<1>3. Stopping
  BY DEF Stopping, MasterOnly!Stopping
<1>4. Held
  BY DEF Held, Owner, MasterOnly!Held, MasterOnly!Owner
<1>5. Reading
  BY DEF Reading, ReadInBounds, MasterOnly!Reading, MasterOnly!ReadInBounds
<1>6. Answering
  BY DEF Answering, MasterOnly!Answering
<1>7. QED
  BY <1>1, <1>2, <1>3, <1>4, <1>5, <1>6

LEMMA MasterOnlyMasters ==
  ASSUME MasterOnly!MasterInv
  PROVE  MasterInv
BY DEF MasterInv, Busy, Directed, Counted, OnBus, Begun, Runs, MasterStates, MasterKinds,
   MasterOnly!MasterInv, MasterOnly!Busy, MasterOnly!Directed, MasterOnly!Counted,
   MasterOnly!OnBus, MasterOnly!Begun, MasterOnly!Runs, MasterOnly!MasterStates,
   MasterOnly!MasterKinds

LEMMA OwnImplies ==
  ASSUME MaxDisturbed >= 1, OwnInv
  PROVE  ClientsInv
<1>1. CASE client = "reading"
  BY <1>1, ReaderTypes, ReaderTransfers DEF OwnInv, ClientsInv
<1>2. CASE client = "writing"
  BY <1>2, WriterTypes, WriterTransfers DEF OwnInv, ClientsInv
<1>3. CASE client = "master only"
  BY <1>3, MasterOnlyTypes, MasterOnlyTransfers, MasterOnlyMasters DEF OwnInv, ClientsInv
<1>4. QED
  BY <1>1, <1>2, <1>3 DEF OwnInv

LEMMA Owning ==
  ASSUME Disciplined
  PROVE  ClientsSpec => []OwnInv
<1>1. ClientsInit => OwnInv
  BY OwnStart
<1>2. OwnInv /\ [ClientsNext]_<<vars, client>> => OwnInv'
  BY OwnStep
<1>3. QED
  BY <1>1, <1>2, PTL DEF ClientsSpec

-----------------------------------------------------------------------------
\* Whichever client it is, and whatever disturbs it: until a bus error the controller is
\* a master for its transaction only, its indexes are in their buffers, AA is as the
\* read or the slave needs it, and the bytes of a master's transaction are counted.
THEOREM ClientsKeep ==
  ASSUME Disciplined, MaxDisturbed >= 1
  PROVE  ClientsSpec => []ClientsInv
<1>1. OwnInv => ClientsInv
  BY OwnImplies
<1>2. QED
  BY <1>1, Owning, PTL

\* After its transactions and all that interrupts them, a slave that may be addressed
\* acknowledges its address.
THEOREM ClientsAnswer ==
  ASSUME Disciplined, MaxDisturbed >= 1
  PROVE  ClientsSpec => []SlaveReachable
<1>1. ClientsInv => SlaveReachable
  BY DEF ClientsInv, TransferInv, Answering, SlaveReachable
<1>2. QED
  BY <1>1, ClientsKeep, PTL

\* The client that is only a master is told MSS_I2C_SUCCESS of a transaction in progress
\* only when, in one tenure of the bus, the whole transaction was carried out, however
\* often it lost the arbitration at its address or its data (mss_i2c_isr(), ST_LOST_ARB).
THEOREM ClientsSucceed ==
  ASSUME Disciplined
  PROVE  ClientsSpec => SuccessMeansDone
<1>1. OwnInv /\ OwnInv' /\ [ClientsNext]_<<vars, client>>
        => [client = "master only" => SuccessStep]_vars
  <2> SUFFICES ASSUME OwnInv, ClientsNext, client = "master only", Busy, master_status' = "SUCCESS"
               PROVE  Done
    BY DEF SuccessStep
  <2>1. MasterOnly!Next
    BY DEF ClientsNext
  <2>2. MasterOnly!TransferInv /\ MasterOnly!MasterInv /\ fault # "BUS_ERROR"
    BY DEF OwnInv, MasterOnly!Types, MasterOnly!HistoryTypes
  <2>3. MasterOnly!TypeOK /\ MasterOnly!Owned /\ MasterOnly!Stopping /\ MasterOnly!Held
    BY <2>2 DEF MasterOnly!TransferInv
  <2>4. MasterOnly!Busy
    BY DEF Busy, MasterOnly!Busy
  <2>5. MasterOnly!Done
    BY <2>1, <2>2, <2>3, <2>4, OwnConstants, MasterOnly!SuccessIsDone
  <2>6. QED
    BY <2>5 DEF Done, MasterOnly!Done
<1>2. QED
  BY <1>1, Owning, PTL DEF ClientsSpec, SuccessMeansDone
=============================================================================
