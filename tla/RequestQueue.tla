---------------------------- MODULE RequestQueue ----------------------------
(***************************************************************************)
(* What a unit of virtio_blk.device promises the owners of its requests,   *)
(* without flags, the worker's place, transfers and their interrupts: the  *)
(* requests it does not serve at once stand in a queue. The one in front   *)
(* is served, or passed over if it was aborted, and replied to before the  *)
(* next one is looked at.                                                  *)
(***************************************************************************)
EXTENDS Integers, Sequences

CONSTANTS Requests,
          Commands,
          Queueable,   \* the commands that may be served late
          MustServe    \* those that do not end late and unserved

VARIABLES
  io_Command, io_Error,
  client,   \* "idle", the call its owner waits in ("DoIO", "SendIO"), or "replied"
  served,   \* the cache was called for the request
  queue,    \* the requests the unit holds, in the order they came
  front     \* the one in front: "queued", "serving", or "done"

vars == <<io_Command, io_Error, client, served, queue, front>>

Init ==
  /\ io_Command \in [Requests -> Commands]
  /\ io_Error = [r \in Requests |-> "0"]
  /\ client = [r \in Requests |-> "idle"]
  /\ served = [r \in Requests |-> FALSE]
  /\ queue = << >> /\ front = "queued"

\* The request is new to the unit.
Sends(r, c) ==
  /\ client[r] = "idle"
  /\ io_Command' = [io_Command EXCEPT ![r] = c]
  /\ served' = [served EXCEPT ![r] = FALSE]

\* Quick service. It is never reported as aborted; nothing replies to it.
EndAtOnce(r, call, c) ==
  /\ Sends(r, c)
  /\ \E error \in {"0", "BLK_ERR_NotEnoughSectors", "IOERR_NOCMD"} :
       io_Error' = [io_Error EXCEPT ![r] = error]
  /\ client' = [client EXCEPT ![r] = IF call = "DoIO" THEN "idle" ELSE call]
  /\ UNCHANGED <<queue, front>>

\* Late service: it goes behind the others.
Enqueue(r, call, c) ==
  /\ Sends(r, c)
  /\ c \in Queueable
  /\ io_Error' = [io_Error EXCEPT ![r] = "0"]
  /\ client' = [client EXCEPT ![r] = call]
  /\ queue' = Append(queue, r)
  /\ UNCHANGED front

\* Only a request that waits for its turn can be aborted. It keeps its place.
Abort(r) ==
  /\ \E i \in 1 .. Len(queue) : queue[i] = r /\ (i = 1 => front = "queued")
  /\ io_Error' = [io_Error EXCEPT ![r] = "IOERR_ABORTED"]
  /\ UNCHANGED <<io_Command, client, served, queue, front>>

Collect(r) ==
  /\ client[r] = "replied"
  /\ client' = [client EXCEPT ![r] = "idle"]
  /\ UNCHANGED <<io_Command, io_Error, served, queue, front>>

Take ==
  /\ front = "queued"
  /\ queue # << >>
  /\ io_Error[Head(queue)] # "IOERR_ABORTED"
  /\ front' = "serving"
  /\ UNCHANGED <<io_Command, io_Error, client, served, queue>>

\* Once at most.
Serve ==
  /\ front = "serving"
  /\ ~served[Head(queue)]
  /\ served' = [served EXCEPT ![Head(queue)] = TRUE]
  /\ UNCHANGED <<io_Command, io_Error, client, queue, front>>

Finish ==
  /\ front = "serving"
  /\ io_Command[Head(queue)] \in MustServe => served[Head(queue)]
  /\ front' = "done"
  /\ UNCHANGED <<io_Command, io_Error, client, served, queue>>

\* The request in front was aborted: it is not served.
PassOver ==
  /\ front = "queued"
  /\ queue # << >>
  /\ io_Error[Head(queue)] = "IOERR_ABORTED"
  /\ front' = "done"
  /\ UNCHANGED <<io_Command, io_Error, client, served, queue>>

\* Exactly one reply, to an owner who waits for it.
Reply ==
  /\ front = "done"
  /\ client[Head(queue)] \in {"DoIO", "SendIO"}
  /\ client' = [client EXCEPT ![Head(queue)] = "replied"]
  /\ queue' = Tail(queue)
  /\ front' = "queued"
  /\ UNCHANGED <<io_Command, io_Error, served>>

Next ==
  \/ \E r \in Requests :
       \/ \E call \in {"DoIO", "SendIO"} : \E c \in Commands : EndAtOnce(r, call, c) \/ Enqueue(r, call, c)
       \/ Abort(r)
       \/ Collect(r)
  \/ Take \/ Serve \/ Finish \/ PassOver \/ Reply

Spec == Init /\ [][Next]_vars
=============================================================================
