------------------------------- MODULE MCI2c -------------------------------
(***************************************************************************)
(* Three clients of the driver, one at a time: two that use the slave       *)
(* functions as well, on a bus where something fails, one reading and the   *)
(* other writing first; and one that is only a master, holds the bus or     *)
(* releases it, gives up after a time-out, and loses the arbitration more   *)
(* often.  The configuration's constants allow what any of them does.       *)
(***************************************************************************)
EXTENDS I2c

VARIABLE client

Reader == INSTANCE I2cProof WITH
  Kinds <- {"read"}, Options <- {"release"}, Timeouts <- {0}, MaxDisturbed <- 1

Writer == INSTANCE I2cProof WITH
  Kinds <- {"write", "write_read"}, MaxRx <- 1,
  Options <- {"release"}, Timeouts <- {0}, MaxDisturbed <- 1

MasterOnly == INSTANCE I2cProof WITH
  Slave <- FALSE, Contention <- {"address", "data"}, Faults <- {}

ClientsInit == Init /\ client \in {"reading", "writing", "master only"}

ClientsNext ==
  /\ \/ client = "reading" /\ Reader!Next
     \/ client = "writing" /\ Writer!Next
     \/ client = "master only" /\ MasterOnly!Next
  /\ UNCHANGED client

\* FairSpec of whichever client it is.
Either(a, b, c) ==
  \/ client = "reading" /\ a
  \/ client = "writing" /\ b
  \/ client = "master only" /\ c

ClientsSpec ==
  /\ ClientsInit /\ [][ClientsNext]_<<vars, client>>
  /\ WF_vars(Either(Reader!Controller, Writer!Controller, MasterOnly!Controller))
  /\ WF_vars(Either(Reader!Handler, Writer!Handler, MasterOnly!Handler))
  /\ WF_vars(Either(Reader!Begin, Writer!Begin, MasterOnly!Begin))
  /\ WF_vars(Either(Reader!EnablePlic, Writer!EnablePlic, MasterOnly!EnablePlic))

-----------------------------------------------------------------------------
\* Properties.

\* A transaction in progress of the client that is only a master ends with
\* MSS_I2C_SUCCESS only when, in one tenure of the bus, every byte of the write
\* buffer was acknowledged and the read buffer is full, however often the
\* arbitration was lost on the way.
SuccessMeansDone ==
  [][client = "master only" => SuccessStep]_vars

\* The inductive invariants of I2cProof, each for the clients it is about.
ClientsInv == Types /\ TransferInv /\ (client = "master only" => MasterInv)

\* A transaction that this client has started ends, with whatever status,
\* unless the interrupt has been lost with a held bus.
MasterEnds == (client = "master only" /\ Busy /\ ~closed) ~> ~Busy
=============================================================================
