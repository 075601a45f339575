--------------------------- MODULE VirtioBlkUnit ---------------------------
(***************************************************************************)
(* One unit of virtio_blk.device (src/src/dev.virtio_blk): the list of     *)
(* queued requests, client tasks that begin and abort requests, the worker *)
(* task that serves the head of the list, and the interrupt server that    *)
(* wakes it.                                                               *)
(*                                                                         *)
(* Clients and the worker exclude each other with Forbid(), which a task   *)
(* that blocks in Wait() gives up: clients run when the worker is outside  *)
(* its Forbid/Permit section or waits in it for the device. Forbid() does  *)
(* not keep the interrupt server out: it runs between any two steps.       *)
(*                                                                         *)
(* What the cache holds is left to module Cache, with which UnitCache      *)
(* composes this one. Here a command may end at once or be queued, and     *)
(* serving one takes any number of transfers.                              *)
(***************************************************************************)
EXTENDS Integers, SequencesExt

CONSTANTS Requests,     \* the clients' IOStdReqs
          Commands,     \* the io_Commands they use
          MaxChains,    \* bound: executions the device may be behind
          OneInterrupt  \* the device interrupts once for all it was notified of

Transferring == {"CMD_READ", "CMD_WRITE", "VB_FORMAT"}   \* VirtioBlkRead, VirtioBlkWrite
Queueable    == Transferring \cup {"CMD_UPDATE"}
Immediate    == {"CMD_CLEAR", "CMD_INVALID"}  \* and START, STOP, GETDEVICEINFO, EJECT, ...

\* VirtioBlk_transfer adds one chain and advances avail->idx by this much.
\* The ring holds 0 everywhere, so the device executes chain 0 that often.
IdxStep == 3

ASSUME CommandsAssumption == Commands \subseteq Queueable \cup Immediate

ASSUME BoundsAssumption == MaxChains \in Nat /\ MaxChains >= IdxStep

ASSUME InterruptAssumption == OneInterrupt \in BOOLEAN

VARIABLES
  io_Command, io_Flags, io_Error,
  io_Actual,     \* 0, or 1 for the length of the request
  client,        \* "idle", the call its client waits in ("DoIO", "SendIO"), or "replied"
  served,        \* history: the cache was called for the request
  MsgList,       \* unit_MsgPort.mp_MsgList
  pc,            \* where the worker is
  curr_req,      \* local of VirtioBlk_CheckPort
  chains,        \* chain executions the device has not completed
  isr,           \* the device's ISR status
  wakeup         \* taskWakeupSignal is pending

request == <<io_Command, io_Flags, io_Error, io_Actual, served>>
device  == <<chains, isr>>
worker  == <<pc, curr_req>>
vars    == <<request, client, MsgList, worker, device, wakeup>>

None == [none |-> TRUE]

Queued(r) == \E i \in 1 .. Len(MsgList) : MsgList[i] = r

\* A message is NT_REPLYMSG from ReplyMsg until its client collects it.
NT_REPLYMSG(r) == client[r] = "replied"

\* Where client tasks can run.
ClientRuns == pc \in {"check", "wait", "reply"}

Init ==
  /\ io_Command \in [Requests -> Commands]
  /\ io_Flags = [r \in Requests |-> {}]
  /\ io_Error = [r \in Requests |-> "0"]
  /\ io_Actual = [r \in Requests |-> 0]
  /\ client = [r \in Requests |-> "idle"]
  /\ served = [r \in Requests |-> FALSE]
  /\ MsgList = << >>
  /\ pc = "check" /\ curr_req = None
  /\ chains = 0 /\ isr = FALSE /\ wakeup = FALSE

-----------------------------------------------------------------------------
(* Client tasks.                                                           *)

\* What a command that is not queued may end with. (The disk is always
\* present and never write protected.)
Results(c) ==
  CASE c \in Transferring -> {"0", "BLK_ERR_NotEnoughSectors"}
    [] c = "CMD_INVALID"  -> {"IOERR_NOCMD"}
    [] OTHER              -> {"0"}

\* Mutant: quick service clears IOF_QUICK too.
MutEndCommand(r, call, c, error) ==
  /\ io_Flags' = [io_Flags EXCEPT ![r] = {}]
  /\ io_Error' = [io_Error EXCEPT ![r] = error]
  /\ io_Actual' = [io_Actual EXCEPT ![r] = IF c \in Transferring /\ error = "0" THEN 1 ELSE 0]
  /\ client' = [client EXCEPT ![r] = call]
  /\ UNCHANGED MsgList

\* Quick service: the command ends inside BeginIO and leaves IOF_QUICK
\* alone. DoIO then returns; SendIO had cleared it and its client waits.
EndCommand(r, call, c, error) ==
  /\ io_Flags' = [io_Flags EXCEPT ![r] = IF call = "DoIO" THEN {"QUICK"} ELSE {}]
  /\ io_Error' = [io_Error EXCEPT ![r] = error]
  /\ io_Actual' = [io_Actual EXCEPT ![r] = IF c \in Transferring /\ error = "0" THEN 1 ELSE 0]
  /\ client' = [client EXCEPT ![r] = IF "QUICK" \in io_Flags'[r] THEN "idle" ELSE call]
  /\ UNCHANGED MsgList

\* Mutant: the request is added at the head of the list.
MutQueueCommand(r, call) ==
  /\ io_Flags' = [io_Flags EXCEPT ![r] = {"QUEUED"}]
  /\ io_Error' = [io_Error EXCEPT ![r] = "0"]
  /\ io_Actual' = [io_Actual EXCEPT ![r] = 0]
  /\ client' = [client EXCEPT ![r] = call]
  /\ MsgList' = <<r>> \o MsgList

\* Late service: VirtioBlk_queue_command, then IOF_QUICK is cleared.
QueueCommand(r, call) ==
  /\ io_Flags' = [io_Flags EXCEPT ![r] = {"QUEUED"}]
  /\ io_Error' = [io_Error EXCEPT ![r] = "0"]
  /\ io_Actual' = [io_Actual EXCEPT ![r] = 0]
  /\ client' = [client EXCEPT ![r] = call]
  /\ MsgList' = Append(MsgList, r)

\* DoIO or SendIO: whether the cache can serve the command at once is left open.
BeginIO(r, call, c) ==
  /\ ClientRuns
  /\ client[r] = "idle"
  /\ io_Command' = [io_Command EXCEPT ![r] = c]
  /\ served' = [served EXCEPT ![r] = FALSE]
  /\ \/ \E error \in Results(c) : EndCommand(r, call, c, error)
     \/ c \in Queueable /\ QueueCommand(r, call)
  /\ UNCHANGED <<worker, device, wakeup>>

\* Mutant: the aborted request is not marked done.
MutAbortIO(r) ==
  /\ ClientRuns
  /\ ~NT_REPLYMSG(r)
  /\ "QUEUED" \in io_Flags[r]
  /\ io_Flags' = [io_Flags EXCEPT ![r] = @ \ {"QUEUED"}]
  /\ io_Error' = [io_Error EXCEPT ![r] = "IOERR_ABORTED"]
  /\ UNCHANGED <<io_Command, io_Actual, served, client, MsgList, worker, device, wakeup>>

AbortIO(r) ==
  /\ ClientRuns
  /\ ~NT_REPLYMSG(r)
  /\ "QUEUED" \in io_Flags[r]
  /\ io_Flags' = [io_Flags EXCEPT ![r] = (@ \ {"QUEUED"}) \cup {"DONE"}]
  /\ io_Error' = [io_Error EXCEPT ![r] = "IOERR_ABORTED"]
  /\ UNCHANGED <<io_Command, io_Actual, served, client, MsgList, worker, device, wakeup>>

\* WaitIO returns: the client may free the request or use it again.
WaitIO(r) ==
  /\ ClientRuns
  /\ NT_REPLYMSG(r)
  /\ client' = [client EXCEPT ![r] = "idle"]
  /\ UNCHANGED <<request, MsgList, worker, device, wakeup>>

Client ==
  \E r \in Requests :
    \/ \E call \in {"DoIO", "SendIO"} : \E c \in Commands : BeginIO(r, call, c)
    \/ AbortIO(r)
    \/ WaitIO(r)

-----------------------------------------------------------------------------
(* The worker: VirtioBlk_CheckPort and what it calls. It blocks in         *)
(* WaitPort while the list is empty.                                       *)

\* Mutant: whatever is at the head is taken.
MutTakeHead ==
  /\ pc = "check"
  /\ MsgList # << >>
  /\ io_Flags' = [io_Flags EXCEPT ![Head(MsgList)] = (@ \ {"QUEUED"}) \cup {"CURRENT"}]
  /\ curr_req' = Head(MsgList)
  /\ pc' = "process"
  /\ UNCHANGED <<io_Command, io_Error, io_Actual, served, client, MsgList, device, wakeup>>

\* Forbid(), and the head is queued.
TakeHead ==
  /\ pc = "check"
  /\ MsgList # << >>
  /\ "QUEUED" \in io_Flags[Head(MsgList)]
  /\ io_Flags' = [io_Flags EXCEPT ![Head(MsgList)] = (@ \ {"QUEUED"}) \cup {"CURRENT"}]
  /\ curr_req' = Head(MsgList)
  /\ pc' = "process"
  /\ UNCHANGED <<io_Command, io_Error, io_Actual, served, client, MsgList, device, wakeup>>

\* Mutant: the branch for CMD_UPDATE is missing.
MutServes(r) ==
  /\ "CURRENT" \in io_Flags[r]
  /\ io_Command[r] \in {"CMD_READ", "CMD_WRITE"}

\* VirtioBlk_process_request looks at the head again. It serves a current
\* read, write or update; it returns at once from everything else.
Serves(r) ==
  /\ "CURRENT" \in io_Flags[r]
  /\ io_Command[r] \in {"CMD_READ", "CMD_WRITE", "CMD_UPDATE"}

ProcessRequest ==
  /\ pc = "process"
  /\ pc' = IF Serves(Head(MsgList)) THEN "service" ELSE "finish"
  /\ UNCHANGED <<request, client, MsgList, curr_req, device, wakeup>>

\* A source callback: VirtioBlk_transfer, then Wait(taskWakeupSignal).
StartTransfer ==
  /\ pc = "service"
  /\ chains + IdxStep <= MaxChains
  /\ chains' = chains + IdxStep
  /\ pc' = "wait"
  /\ UNCHANGED <<request, client, MsgList, curr_req, isr, wakeup>>

\* Mutant: the callback does not wait for the signal.
MutCallbackReturns ==
  /\ pc = "wait"
  /\ wakeup' = FALSE
  /\ pc' = "service"
  /\ UNCHANGED <<request, client, MsgList, curr_req, device>>

CallbackReturns ==
  /\ pc = "wait"
  /\ wakeup
  /\ wakeup' = FALSE
  /\ pc' = "service"
  /\ UNCHANGED <<request, client, MsgList, curr_req, device>>

\* CacheRead, CacheWrite or CacheSync returns; the result is not looked at.
CacheReturns ==
  /\ pc = "service"
  /\ served' = [served EXCEPT ![Head(MsgList)] = TRUE]
  /\ pc' = "finish"
  /\ UNCHANGED <<io_Command, io_Flags, io_Error, io_Actual, client, MsgList, curr_req, device, wakeup>>

\* Remove(): the node is unlinked wherever it is.
RemoveRequest(r) ==
  \E i \in 1 .. Len(MsgList) : MsgList[i] = r /\ MsgList' = RemoveAt(MsgList, i)

\* Back in VirtioBlk_CheckPort, up to Permit().
FinishRequest ==
  /\ pc = "finish"
  /\ RemoveRequest(curr_req)
  /\ io_Flags' = [io_Flags EXCEPT ![curr_req] = (@ \ {"CURRENT"}) \cup {"DONE"}]
  /\ io_Error' = [io_Error EXCEPT ![curr_req] = "0"]
  /\ pc' = "reply"
  /\ UNCHANGED <<io_Command, io_Actual, served, client, curr_req, device, wakeup>>

\* Mutant: curr_req is not the head that is removed.
MutDropAbortedOther ==
  /\ pc = "check"
  /\ MsgList # << >>
  /\ "QUEUED" \notin io_Flags[Head(MsgList)]
  /\ "DONE" \in io_Flags[Head(MsgList)]
  /\ RemoveRequest(Head(MsgList))
  /\ pc' = "reply"
  /\ UNCHANGED <<request, client, curr_req, device, wakeup>>

\* Mutant: an aborted request is removed and not replied to.
MutDropAborted ==
  /\ pc = "check"
  /\ MsgList # << >>
  /\ "QUEUED" \notin io_Flags[Head(MsgList)]
  /\ "DONE" \in io_Flags[Head(MsgList)]
  /\ RemoveRequest(Head(MsgList))
  /\ UNCHANGED <<request, client, worker, device, wakeup>>

\* The head was aborted while it was queued.
DropAborted ==
  /\ pc = "check"
  /\ MsgList # << >>
  /\ "QUEUED" \notin io_Flags[Head(MsgList)]
  /\ "DONE" \in io_Flags[Head(MsgList)]
  /\ curr_req' = Head(MsgList)
  /\ RemoveRequest(Head(MsgList))
  /\ pc' = "reply"
  /\ UNCHANGED <<request, client, device, wakeup>>

ReplyMsg ==
  /\ pc = "reply"
  /\ client' = [client EXCEPT ![curr_req] = "replied"]
  /\ curr_req' = None
  /\ pc' = "check"
  /\ UNCHANGED <<request, MsgList, device, wakeup>>

Worker ==
  \/ TakeHead \/ ProcessRequest \/ StartTransfer \/ CallbackReturns
  \/ CacheReturns \/ FinishRequest \/ DropAborted \/ ReplyMsg

-----------------------------------------------------------------------------
(* The device, and the interrupt server.                                   *)

DeviceCompletes ==
  /\ chains > 0
  /\ chains' = chains - 1
  /\ isr' = (isr \/ ~OneInterrupt \/ chains = 1)
  /\ UNCHANGED <<request, client, MsgList, worker, wakeup>>

\* Mutant: the signal is sent for a current head only.
MutIRQServer ==
  /\ isr
  /\ isr' = FALSE
  /\ IF MsgList # << >> /\ "CURRENT" \in io_Flags[Head(MsgList)]
     THEN /\ io_Flags' = [io_Flags EXCEPT ![Head(MsgList)] = (@ \ {"CURRENT"}) \cup {"SERVICING"}]
          /\ wakeup' = TRUE
     ELSE UNCHANGED <<io_Flags, wakeup>>
  /\ UNCHANGED <<io_Command, io_Error, io_Actual, served, client, MsgList, worker, chains>>

\* VirtioBlkIRQServer: reading ISR clears it. With an empty list the server
\* reads the flags of address 0, which are nobody's.
IRQServer ==
  /\ isr
  /\ isr' = FALSE
  /\ io_Flags' = IF MsgList # << >> /\ "CURRENT" \in io_Flags[Head(MsgList)]
                 THEN [io_Flags EXCEPT ![Head(MsgList)] = (@ \ {"CURRENT"}) \cup {"SERVICING"}]
                 ELSE io_Flags
  /\ wakeup' = TRUE
  /\ UNCHANGED <<io_Command, io_Error, io_Actual, served, client, MsgList, worker, chains>>

Next == Client \/ Worker \/ DeviceCompletes \/ IRQServer

Spec == Init /\ [][Next]_vars

\* The worker (priority 20) outranks the clients; the device completes what
\* it was notified of, and its interrupts are delivered.
Fairness == WF_vars(Worker) /\ WF_vars(DeviceCompletes) /\ WF_vars(IRQServer)

FairSpec == Spec /\ Fairness

-----------------------------------------------------------------------------
Flags == {"QUICK", "QUEUED", "CURRENT", "SERVICING", "DONE"}

TypeOK ==
  /\ io_Command \in [Requests -> Commands]
  /\ io_Flags \in [Requests -> SUBSET Flags]
  /\ io_Error \in [Requests -> {"0", "BLK_ERR_NotEnoughSectors", "IOERR_NOCMD", "IOERR_ABORTED"}]
  /\ io_Actual \in [Requests -> {0, 1}]
  /\ client \in [Requests -> {"idle", "DoIO", "SendIO", "replied"}]
  /\ served \in [Requests -> BOOLEAN]
  /\ MsgList \in Seq(Requests)
  /\ pc \in {"check", "process", "service", "wait", "finish", "reply"}
  /\ curr_req \in (IF pc = "check" THEN Requests \cup {None} ELSE Requests)
  /\ chains \in Nat
  /\ isr \in BOOLEAN /\ wakeup \in BOOLEAN

Serving == pc \in {"process", "service", "wait", "finish"}

\* A request that is in the list, or was just taken off it to be replied.
Held(r) == Queued(r) \/ (pc = "reply" /\ curr_req = r)

(* VirtioBlk_process_request and the interrupt server find the request at  *)
(* the head of the list for themselves. While the worker serves curr_req,  *)
(* across the Wait() that lets clients queue and abort requests, the head  *)
(* they find is curr_req, and no abort has touched it.                     *)
HeadIsCurrent ==
  Serving => /\ MsgList # << >>
             /\ Head(MsgList) = curr_req
             /\ io_Flags[curr_req] \in {{"CURRENT"}, {"SERVICING"}}

(* Every request in the list that is not being served is either queued or  *)
(* done (aborted), and so is the head when the worker looks at it. With    *)
(* neither flag VirtioBlk_CheckPort would permit, forbid and look again    *)
(* for ever, at a priority that starves every client.                      *)
HeadReady ==
  \A i \in 1 .. Len(MsgList) :
    (Serving /\ i = 1) \/ io_Flags[MsgList[i]] \in {{"QUEUED"}, {"DONE"}}

(* The device owes a reply for exactly the requests it holds: each is in   *)
(* the list once, its client waits for it, and IOF_QUICK is clear though   *)
(* it is cleared only after PutMsg; a client that waits in DoIO waits for  *)
(* a request the device holds.                                             *)
ReplyOwed ==
  /\ \A i, j \in 1 .. Len(MsgList) : MsgList[i] = MsgList[j] => i = j
  /\ pc = "reply" => ~Queued(curr_req)
  /\ \A r \in Requests :
       /\ Held(r) => client[r] \in {"DoIO", "SendIO"} /\ "QUICK" \notin io_Flags[r]
       /\ client[r] = "DoIO" => Held(r)

(* Once AbortIO has hit a queued request, it is not served any more, and   *)
(* IOERR_ABORTED is what its client finds when the reply arrives.          *)
AbortHonoured ==
  [][\A r \in Requests :
       io_Error[r] = "IOERR_ABORTED" /\ client[r] # "idle" =>
         io_Error'[r] = "IOERR_ABORTED" /\ served'[r] = served[r]]_vars

(* A worker that waits in a source callback is not forgotten: the device   *)
(* still has work, or its interrupt or the signal is on the way. (One      *)
(* request may need several transfers, after the first of which it is      *)
(* SERVICING and no longer CURRENT.)                                       *)
NoLostWakeup == pc = "wait" => chains > 0 \/ isr \/ wakeup

\* An aborted request that is still in the list is done.
AbortedIsDone ==
  \A r \in Requests :
    io_Error[r] = "IOERR_ABORTED" /\ client[r] # "idle" /\ Queued(r) => io_Flags[r] = {"DONE"}

\* What the worker replies to has been served or aborted.
WorkerTurn == pc = "reply" => io_Flags[curr_req] \subseteq {"DONE", "SERVICING"}

(* The inductive invariant of the proofs: what each flag says about the    *)
(* place of a request in the list and in the worker's hands.               *)
UnitInvariant ==
  TypeOK /\ HeadIsCurrent /\ HeadReady /\ ReplyOwed /\ NoLostWakeup /\ AbortedIsDone /\ WorkerTurn

\* No cache call asks for one transfer after the other for ever. The code
\* does not ensure it: Cache!SyncEnds shows it of a sync, Cache!RequestEnds of
\* a read or write only if clients stop dirtying the track in the cache.
CallsEnd == []<>(pc = "service") => []<>(pc = "finish")

(* As long as no cache call starves, every request that was queued is      *)
(* replied to, aborted or not, whatever the other clients do: nothing but  *)
(* the cache can keep the worker from it, neither an abort nor a wakeup    *)
(* that comes late.                                                        *)
Answered == CallsEnd => \A r \in Requests : Queued(r) ~> NT_REPLYMSG(r)

(* A source callback starts a transfer and returns when it is done: while  *)
(* the worker is not inside one, the device works on nothing.              *)
CallbackWaits == pc # "wait" => chains = 0

(* An interrupt is for the transfer the worker waits for. In particular    *)
(* the server finds a request at the head of the list.                     *)
InterruptExpected == isr => pc = "wait" /\ MsgList # << >> /\ ~wakeup

\* A command process_request has a branch for.
HasBranch(r) == io_Command[r] \in {"CMD_READ", "CMD_WRITE", "CMD_UPDATE"}

(* A queued read, write or update that is replied to without an error was  *)
(* given to the cache.                                                     *)
ServedBeforeReply ==
  \A r \in Requests : NT_REPLYMSG(r) /\ io_Error[r] = "0" /\ HasBranch(r) => served[r]

\* One transfer is with the device, in its interrupt, or in the signal; none
\* is when the worker does not wait.
OneTransfer ==
  IF pc = "wait"
  THEN \/ chains > 0 /\ ~isr /\ ~wakeup
       \/ chains = 0 /\ isr /\ ~wakeup
       \/ chains = 0 /\ ~isr /\ wakeup
  ELSE chains = 0 /\ ~isr /\ ~wakeup

\* How far the worker has come with its request.
ServiceProgress ==
  /\ pc = "process" => io_Flags[curr_req] = {"CURRENT"}
  /\ pc = "finish" /\ HasBranch(curr_req) => served[curr_req]
  /\ pc = "reply" /\ HasBranch(curr_req) /\ io_Error[curr_req] = "0" => served[curr_req]
  /\ \A i \in 1 .. Len(MsgList) :
       io_Flags[MsgList[i]] = {"DONE"} => io_Error[MsgList[i]] = "IOERR_ABORTED"

(* The inductive invariant behind the three properties above, which need a *)
(* device that interrupts once for all the executions of a transfer.       *)
OneInterruptInvariant == UnitInvariant /\ OneTransfer /\ ServiceProgress /\ ServedBeforeReply

(* VB_FORMAT is a write ("there is no difference between WRITE and         *)
(* FORMAT"): one that is replied to without an error was given to the      *)
(* cache.                                                                  *)
FormatIsWrite ==
  \A r \in Requests :
    NT_REPLYMSG(r) /\ io_Error[r] = "0" /\ io_Command[r] = "VB_FORMAT" => served[r]

-----------------------------------------------------------------------------
(* What the unit is for. A request is in the queue of RequestQueue from    *)
(* PutMsg to ReplyMsg, though it leaves the list before that.              *)

HeldQueue == IF pc = "reply" THEN <<curr_req>> \o MsgList ELSE MsgList

HeadState == CASE pc = "check" -> "queued" [] pc = "reply" -> "done" [] OTHER -> "serving"

\* A late interrupt may make process_request return at once, see Serves.
MustServe == IF OneInterrupt THEN {"CMD_READ", "CMD_WRITE", "CMD_UPDATE"} ELSE {}

Queue == INSTANCE RequestQueue WITH queue <- HeldQueue, front <- HeadState

(* The unit serves what it holds in the order it came, each request once   *)
(* at most and alone, replies to each once, and passes over the aborted    *)
(* ones, though the worker gives up Forbid() in the middle of a request    *)
(* and finds its request again by looking at the head of the list.         *)
ImplementsQueue == Queue!Spec

Signals == INSTANCE Handshake WITH waiting <- pc = "wait"

(* Its callbacks, its device and its interrupt server keep to the          *)
(* handshake that Transfer implements in memory and with an index, though  *)
(* clients and the list change around them.                                *)
ImplementsHandshake == Signals!Spec

(* What the refinement needs besides UnitInvariant: a request is flagged   *)
(* as queued only in the list; its flags tell whether it was aborted; it   *)
(* has not been served before its turn.                                    *)
QueueInvariant ==
  \A r \in Requests :
    /\ "QUEUED" \in io_Flags[r] => Queued(r)
    /\ Queued(r) => io_Error[r] = IF io_Flags[r] = {"DONE"} THEN "IOERR_ABORTED" ELSE "0"
    /\ Queued(r) /\ served[r] => pc = "finish" /\ r = curr_req
=============================================================================
