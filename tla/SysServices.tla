---------------------------- MODULE SysServices ----------------------------
(***************************************************************************)
(* The system services driver (drivers/mss/mss_sys_services/               *)
(* mss_sys_services.c): one thread that requests services, the message     *)
(* interrupt, and the system controller with its mailbox.                  *)
(*                                                                         *)
(* The contents of commands and responses are the number of the request    *)
(* they belong to; what is left of a service is where its response goes.   *)
(* Calls refused for their parameters or with MSS_SYS_BUSY request nothing. *)
(* overlapped remembers that a request was accepted while the one before   *)
(* was not finished.                                                       *)
(*                                                                         *)
(* Two services have their response read to a local array and copy that to *)
(* the client's buffer.  In interrupt mode they do so before there is a    *)
(* response, return, and leave the driver a pointer to the array: a frame  *)
(* that is dead when MSS_SYS_read_response() writes to it.                 *)
(***************************************************************************)
EXTENDS Naturals

CONSTANTS MaxRequests   \* bound on the requests accepted

ASSUME SysAssumption == MaxRequests \in Nat

VARIABLES
  g_service_mode,
  gp_int_service_response,      \* whose response is read next, and to where
  g_message_interrupt_counter,
  services_cr,                  \* the request that waits, 0 for none, and its notify bit
  services_sr,                  \* the request in execution, 0 for none, and the last one done
  mailbox,                      \* the request whose response is in the mailbox
  message_int,                  \* MSS_SCBMESSAGE_INT
  sys_pc,                       \* where the thread is
  requests,                     \* requests accepted
  destination,                  \* history: where the response to each request is to go
  buffer,                       \* the response in the buffer given with each request
  status,                       \* the request whose status was returned for each, 0 before
  failed,                       \* the requests whose status is an error
  overlapped

sysVars == <<g_service_mode, gp_int_service_response, g_message_interrupt_counter, services_cr,
             services_sr, mailbox, message_int, sys_pc, requests, destination, buffer, status,
             failed, overlapped>>

Requests == 1..MaxRequests
Destinations == {"buffer", "on_success", "dead_frame", "none"}
Zeros == MaxRequests + 1   \* what a local array holds before there is a response

SysInit ==
  /\ g_service_mode = "polling" /\ gp_int_service_response = [of |-> 0, to |-> "none"]
  /\ g_message_interrupt_counter = 0 /\ services_cr = [request |-> 0, notify |-> FALSE]
  /\ services_sr = [busy |-> 0, notify |-> FALSE, done |-> 0]
  /\ mailbox = 0 /\ message_int = FALSE /\ sys_pc = "client" /\ requests = 0
  /\ destination = [k \in Requests |-> "none"] /\ buffer = [k \in Requests |-> 0]
  /\ status = [k \in Requests |-> 0] /\ failed = {} /\ overlapped = FALSE

------------------------------------------------------------------------------
\* The thread.

SelectServiceMode ==
  /\ sys_pc = "client" /\ g_service_mode' \in {"polling", "interrupt"}
  /\ UNCHANGED <<gp_int_service_response, g_message_interrupt_counter, services_cr, services_sr,
                 mailbox, message_int, sys_pc, requests, destination, buffer, status,
                 failed, overlapped>>

\* Mutant: the completion is never notified.
RequestUnnotified(to) ==
  /\ services_sr.busy = 0 /\ requests < MaxRequests
  /\ requests' = requests + 1
  /\ message_int' = FALSE
  /\ gp_int_service_response' = IF g_service_mode = "interrupt" THEN [of |-> requests', to |-> to]
                                ELSE gp_int_service_response
  /\ services_cr' = [request |-> requests', notify |-> FALSE]
  /\ destination' = [destination EXCEPT ![requests'] = to]
  /\ overlapped' = (overlapped \/ (requests > 0 /\ status[requests] = 0))

\* Only the busy bit is looked at, not a request the controller has not taken yet.
RequestSystemService(to) ==
  /\ services_sr.busy = 0 /\ requests < MaxRequests
  /\ requests' = requests + 1
  /\ message_int' = FALSE
  /\ gp_int_service_response' = IF g_service_mode = "interrupt" THEN [of |-> requests', to |-> to]
                                ELSE gp_int_service_response
  /\ services_cr' = [request |-> requests', notify |-> g_service_mode = "interrupt"]
  /\ destination' = [destination EXCEPT ![requests'] = to]
  /\ overlapped' = (overlapped \/ (requests > 0 /\ status[requests] = 0))

\* In interrupt mode the call returns, two services with the zeros of their local
\* array copied to the client's buffer; in polling mode it waits.
Service(to) ==
  /\ sys_pc = "client"
  /\ RequestSystemService(to)
  /\ sys_pc' = IF g_service_mode = "interrupt" THEN "client" ELSE "await_taken"
  /\ buffer' = IF to = "dead_frame" THEN [buffer EXCEPT ![requests'] = Zeros] ELSE buffer
  /\ UNCHANGED <<g_service_mode, g_message_interrupt_counter, services_sr, mailbox, status, failed>>

ThroughFrame(polled) == Service(IF g_service_mode = "interrupt" THEN "dead_frame" ELSE polled)

GetSerialNumber == Service("buffer")
GetUserCode == Service("buffer")
GetDesignInfo == Service("buffer")
GetDeviceCertificate == Service("buffer")
ReadDigest == Service("buffer")
QuerySecurity == ThroughFrame("buffer")
ReadDebugInfo == Service("buffer")
ReadEnvmParameter == Service("buffer")
PufEmulationService == Service("buffer")
DigitalSignatureService == Service("buffer")
SecureNvmWrite == Service("none")
SecureNvmRead == ThroughFrame("on_success")
NonceService == Service("buffer")
AuthenticateBitstream == Service("none")
AuthenticateIapImage == Service("none")
DigestCheck == Service("buffer")
ExecuteIap == Service("none")
SpiCopy == Service("none")
DebugReadProbe == Service("buffer")
DebugWriteProbe == Service("none")
DebugLiveProbe == Service("none")
DebugSelectMem == Service("none")
DebugReadMem == Service("none")
DebugWriteMem == Service("none")
DebugReadApb == Service("none")
DebugWriteApb == Service("none")
DebugFabricSnapshot == Service("none")
OtpMatch == Service("none")
UnlockDebugPasscode == Service("none")
OneWayPasscode == Service("none")
DebugTerminate == Service("none")

Services ==
  \/ GetSerialNumber \/ GetUserCode \/ GetDesignInfo \/ GetDeviceCertificate \/ ReadDigest
  \/ QuerySecurity \/ ReadDebugInfo \/ ReadEnvmParameter \/ PufEmulationService
  \/ DigitalSignatureService \/ SecureNvmWrite \/ SecureNvmRead \/ NonceService
  \/ AuthenticateBitstream \/ AuthenticateIapImage \/ DigestCheck \/ ExecuteIap \/ SpiCopy
  \/ DebugReadProbe \/ DebugWriteProbe \/ DebugLiveProbe \/ DebugSelectMem \/ DebugReadMem
  \/ DebugWriteMem \/ DebugReadApb \/ DebugWriteApb \/ DebugFabricSnapshot \/ OtpMatch
  \/ UnlockDebugPasscode \/ OneWayPasscode \/ DebugTerminate

\* Mutant: REQ is not waited for.
AwaitTakenBlind ==
  /\ sys_pc = "await_taken"
  /\ sys_pc' = "await_done"
  /\ UNCHANGED <<g_service_mode, gp_int_service_response, g_message_interrupt_counter, services_cr,
                 services_sr, mailbox, message_int, requests, destination, buffer, status,
                 failed, overlapped>>

AwaitTaken ==
  /\ sys_pc = "await_taken" /\ services_cr.request = 0
  /\ sys_pc' = "await_done"
  /\ UNCHANGED <<g_service_mode, gp_int_service_response, g_message_interrupt_counter, services_cr,
                 services_sr, mailbox, message_int, requests, destination, buffer, status,
                 failed, overlapped>>

\* The response is copied, by way of a local array or not, and the status returned.
AwaitDone ==
  /\ sys_pc = "await_done" /\ services_sr.busy = 0
  /\ sys_pc' = "client"
  /\ buffer' = IF \/ destination[requests] = "buffer"
                  \/ destination[requests] = "on_success" /\ services_sr.done \notin failed
               THEN [buffer EXCEPT ![requests] = mailbox]
               ELSE buffer
  /\ status' = [status EXCEPT ![requests] = services_sr.done]
  /\ UNCHANGED <<g_service_mode, gp_int_service_response, g_message_interrupt_counter, services_cr,
                 services_sr, mailbox, message_int, requests, destination,
                 failed, overlapped>>

\* MSS_SYS_read_response() tests the counter, which the handler may then count on ...
ReadResponse ==
  /\ sys_pc = "client" /\ g_message_interrupt_counter > 0
  /\ sys_pc' = "read"
  /\ UNCHANGED <<g_service_mode, gp_int_service_response, g_message_interrupt_counter, services_cr,
                 services_sr, mailbox, message_int, requests, destination, buffer, status,
                 failed, overlapped>>

\* ... and clears it.
CopyResponse ==
  /\ sys_pc = "read" /\ gp_int_service_response.to # "dead_frame"
  /\ sys_pc' = "client"
  /\ g_message_interrupt_counter' = 0
  /\ LET response == gp_int_service_response IN
       /\ buffer' = IF response.to = "buffer" THEN [buffer EXCEPT ![response.of] = mailbox] ELSE buffer
       /\ status' = [status EXCEPT ![response.of] = services_sr.done]
  /\ UNCHANGED <<g_service_mode, gp_int_service_response, services_cr, services_sr, mailbox,
                 message_int, requests, destination, failed, overlapped>>

\* The same with a pointer into a frame that is dead: the response overwrites
\* whatever is on the stack there now.  The call returns if that was nothing in
\* use; otherwise (a local, a return address) the thread is "lost", and what it
\* does from there on is not followed.
CopyToDeadFrame ==
  /\ sys_pc = "read" /\ gp_int_service_response.to = "dead_frame"
  /\ sys_pc' \in {"client", "lost"}
  /\ g_message_interrupt_counter' = 0
  /\ status' = IF sys_pc' = "lost" THEN status
               ELSE [status EXCEPT ![gp_int_service_response.of] = services_sr.done]
  /\ UNCHANGED <<g_service_mode, gp_int_service_response, services_cr, services_sr, mailbox,
                 message_int, requests, destination, buffer, failed, overlapped>>

MessageIsr ==
  /\ message_int /\ message_int' = FALSE
  /\ g_message_interrupt_counter' = (g_message_interrupt_counter + 1) % 256
  /\ UNCHANGED <<g_service_mode, gp_int_service_response, services_cr, services_sr, mailbox, sys_pc,
                 requests, destination, buffer, status,
                 failed, overlapped>>

------------------------------------------------------------------------------
\* The system controller.

TakeRequest ==
  /\ services_cr.request # 0 /\ services_sr.busy = 0
  /\ services_sr' = [services_sr EXCEPT !.busy = services_cr.request, !.notify = services_cr.notify]
  /\ services_cr' = [services_cr EXCEPT !.request = 0]
  /\ UNCHANGED <<g_service_mode, gp_int_service_response, g_message_interrupt_counter, mailbox,
                 message_int, sys_pc, requests, destination, buffer, status,
                 failed, overlapped>>

\* A service that fails has a response too, and its status is an error.
CompleteRequest ==
  /\ services_sr.busy # 0
  /\ failed' \in {failed, failed \cup {services_sr.busy}}
  /\ mailbox' = IF destination[services_sr.busy] = "none" THEN mailbox ELSE services_sr.busy
  /\ services_sr' = [services_sr EXCEPT !.busy = 0, !.done = services_sr.busy]
  /\ message_int' = (message_int \/ services_sr.notify)
  /\ UNCHANGED <<g_service_mode, gp_int_service_response, g_message_interrupt_counter, services_cr,
                 sys_pc, requests, destination, buffer, status, overlapped>>

Controller == TakeRequest \/ CompleteRequest
SysThread == AwaitTaken \/ AwaitDone \/ CopyResponse \/ CopyToDeadFrame

SysNext == SelectServiceMode \/ Services \/ ReadResponse \/ SysThread \/ MessageIsr \/ Controller

\* The controller works, the interrupt is taken, and a call runs on; the client
\* need not call.
SysFairness == WF_sysVars(Controller) /\ WF_sysVars(MessageIsr) /\ WF_sysVars(SysThread)
SysSpec == SysInit /\ [][SysNext]_sysVars /\ SysFairness

------------------------------------------------------------------------------
\* Properties.

SysTypeOK ==
  /\ g_service_mode \in {"polling", "interrupt"} /\ {message_int, overlapped} \subseteq BOOLEAN
  /\ gp_int_service_response \in [of : 0..MaxRequests, to : {"buffer", "dead_frame", "none"}]
  /\ g_message_interrupt_counter \in 0..255
  /\ services_cr \in [request : 0..MaxRequests, notify : BOOLEAN]
  /\ services_sr \in [busy : 0..MaxRequests, notify : BOOLEAN, done : 0..MaxRequests]
  /\ mailbox \in 0..MaxRequests
  /\ sys_pc \in {"client", "await_taken", "await_done", "read", "lost"}
  /\ requests \in 0..MaxRequests /\ destination \in [Requests -> Destinations]
  /\ buffer \in [Requests -> 0..Zeros] /\ status \in [Requests -> 0..MaxRequests]
  /\ failed \subseteq Requests

\* The response of request k is one the code delivers: to the buffer, or to it if
\* the service succeeded.
Delivered(k) ==
  \/ destination[k] = "buffer"
  \/ destination[k] = "on_success" /\ k \notin failed

\* A client that lets each service end before it requests the next gets the status
\* of the service it requested, in either mode and whenever it changes the mode,
\* and in the buffer it gave the response to that service and to no other
\* (mss_sys_services.c:1926-1945, 2119-2146).  MSS_SYS_query_security() and
\* MSS_SYS_secure_nvm_read() in interrupt mode are not among them: their buffers
\* hold zeros, before and after the response is read, although
\* mss_sys_services.h:138-140 tells the client to get it so.
SysSafety ==
  ~overlapped => \A k \in Requests :
    /\ status[k] \in {0, k}
    /\ destination[k] = "dead_frame" => buffer[k] = Zeros
    /\ destination[k] # "dead_frame" => buffer[k] \in {0, k}
    /\ status[k] = k /\ Delivered(k) => buffer[k] = k

\* The same client is not left without the end of a service: the status has been
\* returned, or MSS_SYS_read_response() would return it, unless that call has
\* overwritten the stack of its own thread.
SysEnds ==
  \A k \in Requests :
    requests >= k ~> \/ status[k] # 0 \/ g_message_interrupt_counter > 0
                     \/ overlapped \/ sys_pc = "lost"

------------------------------------------------------------------------------
\* What keeps SysSafety true: with no overlap, the controller and the notices of
\* the message interrupt are about the latest request.

Waiting == services_cr.request # 0
Executing == services_sr.busy # 0

RequestStages ==
  /\ {services_cr.request, services_sr.busy} \subseteq {0, requests} /\ ~(Waiting /\ Executing)
  /\ ~Waiting /\ ~Executing =>
       /\ services_sr.done = requests
       /\ requests > 0 /\ destination[requests] # "none" => mailbox = requests

Outcomes ==
  /\ \A k \in Requests : k < requests => status[k] = k
  /\ \A k \in Requests : k > requests => status[k] = 0 /\ buffer[k] = 0
  /\ requests > 0 /\ status[requests] # 0 => ~Waiting /\ ~Executing

Polling ==
  sys_pc \in {"await_taken", "await_done"} =>
    /\ requests > 0 /\ status[requests] = 0
    /\ sys_pc = "await_done" => ~Waiting

Notified == message_int \/ g_message_interrupt_counter > 0 \/ sys_pc = "read"
WillNotify == (Waiting /\ services_cr.notify) \/ (Executing /\ services_sr.notify)

Notices ==
  /\ Notified \/ WillNotify =>
       /\ requests > 0 /\ status[requests] = 0 /\ sys_pc \in {"client", "read"}
       /\ gp_int_service_response = [of |-> requests, to |-> destination[requests]]
  /\ Notified => ~Waiting /\ ~Executing
  /\ message_int => g_message_interrupt_counter = 0 /\ sys_pc = "client"

LatestOnly == RequestStages /\ Outcomes /\ Polling /\ Notices

SysInv == SysTypeOK /\ SysSafety /\ (~overlapped => LatestOnly)
=============================================================================
