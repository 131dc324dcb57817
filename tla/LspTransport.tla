---------------------------- MODULE LspTransport ----------------------------
(***************************************************************************)
(* One server process of LocalTransport (crates/lsp/src/client/            *)
(* local_transport): callers queue requests and notifications, the I/O     *)
(* task run_server_io writes them to stdin one at a time and reads the     *)
(* server's messages from stdout, and answers find their request through   *)
(* the map of pending requests.                                            *)
(*                                                                         *)
(* A message of the server is two units on the pipe, its header and its    *)
(* body: read_message may have consumed the first when the select takes    *)
(* the other branch and drops it.  What is left of the message is then     *)
(* read as the header of the next one, without a Content-Length.           *)
(***************************************************************************)
EXTENDS Naturals, Sequences, FiniteSets

CONSTANTS
  Requests,        \* requests, by id; each is sent at most once
  Notifications    \* notifications with a barrier

VARIABLES
  outbound,        \* the unbounded channel to the I/O task
  io,              \* the I/O task: "select", "write" or "ended"
  writing,         \* the item it is writing
  pending,         \* ids with an entry in the pending map
  partial,         \* ids whose header the current read_message has consumed
  status,          \* the status event it has sent, or "none"
  call,            \* per request: its caller
  barrier,         \* per notification: its write barrier
  order,           \* the items in the order they were queued
  running, inbox,  \* the server; what it was sent
  stdout, reply    \* the units on its stdout; how far its answers are

transportVars == <<outbound, io, writing, pending, partial, status, call, barrier, order, running, inbox, stdout, reply>>
ioTask == <<io, writing, pending, partial, status>>
serverProcess == <<running, inbox, stdout, reply>>

Items == Requests \cup Notifications
Queued(i) == \E k \in DOMAIN order : order[k] = i

TransportInit ==
  /\ outbound = <<>> /\ io = "select" /\ writing = <<>> /\ pending = {} /\ partial = {}
  /\ status = "none" /\ order = <<>>
  /\ call = [r \in Requests |-> "idle"] /\ barrier = [n \in Notifications |-> "idle"]
  /\ running = TRUE /\ inbox = <<>> /\ stdout = <<>> /\ reply = [r \in Requests |-> "none"]
-----------------------------------------------------------------------------
(* LocalTransport::request and notify_with_barrier                         *)
Enqueue(i) ==
  /\ ~Queued(i) /\ io # "ended"
  /\ outbound' = Append(outbound, i) /\ order' = Append(order, i)
  /\ UNCHANGED <<ioTask, serverProcess>>

Request(r) ==
  /\ Enqueue(r) /\ call' = [call EXCEPT ![r] = "waiting"] /\ UNCHANGED barrier

Notify(n) ==
  /\ Enqueue(n) /\ barrier' = [barrier EXCEPT ![n] = "waiting"] /\ UNCHANGED call

RequestTimeout(r) ==
  /\ call[r] = "waiting" /\ call' = [call EXCEPT ![r] = "RequestTimeout"]
  /\ UNCHANGED <<outbound, ioTask, barrier, order, serverProcess>>

Refused ==
  /\ io = "ended"
  /\ \/ \E r \in Requests : call[r] = "idle" /\ call' = [call EXCEPT ![r] = "ServiceStopped"] /\ UNCHANGED barrier
     \/ \E n \in Notifications : /\ barrier[n] = "idle" /\ barrier' = [barrier EXCEPT ![n] = "error"]
                                 /\ UNCHANGED call
  /\ UNCHANGED <<outbound, ioTask, order, serverProcess>>
-----------------------------------------------------------------------------
(* run_server_io: the loop ends; every sender it held is answered with     *)
(* ServiceStopped.                                                         *)
IoEnd(s) ==
  /\ io' = "ended" /\ status' = s
  /\ writing' = <<>> /\ outbound' = <<>> /\ pending' = {} /\ partial' = {}
  /\ call' = [r \in Requests |-> IF call[r] = "waiting" THEN "ServiceStopped" ELSE call[r]]
  /\ barrier' = [n \in Notifications |-> IF barrier[n] = "waiting" THEN "error" ELSE barrier[n]]
  /\ UNCHANGED <<order, serverProcess>>

\* Mutant of IoTake: requests overtake notifications.
IoTakeRequestsFirst ==
  /\ io = "select" /\ outbound # <<>> /\ io' = "write" /\ partial' = {}
  /\ LET rs == {k \in DOMAIN outbound : outbound[k] \in Requests}
         k == IF rs = {} THEN 1 ELSE CHOOSE j \in rs : \A i \in rs : j <= i
     IN  /\ writing' = <<outbound[k]>>
         /\ outbound' = SubSeq(outbound, 1, k - 1) \o SubSeq(outbound, k + 1, Len(outbound))
  /\ UNCHANGED <<pending, status, call, barrier, order, serverProcess>>

\* Mutant of IoTake: a message that has begun is read to its end first.
IoTakeBetweenMessages ==
  /\ io = "select" /\ outbound # <<>> /\ io' = "write" /\ partial = {}
  /\ writing' = <<Head(outbound)>> /\ outbound' = Tail(outbound)
  /\ UNCHANGED <<pending, partial, status, call, barrier, order, serverProcess>>

(* The outbound branch of the select; read_message is dropped.             *)
IoTake ==
  /\ io = "select" /\ outbound # <<>> /\ io' = "write" /\ partial' = {}
  /\ writing' = <<Head(outbound)>> /\ outbound' = Tail(outbound)
  /\ UNCHANGED <<pending, status, call, barrier, order, serverProcess>>

\* Mutant of IoWritten: the response channel of a request is dropped.
IoWrittenForgets ==
  /\ io = "write" /\ running /\ io' = "select"
  /\ inbox' = inbox \o writing /\ writing' = <<>>
  /\ barrier' = [n \in Notifications |-> IF n = writing[1] THEN "written" ELSE barrier[n]]
  /\ UNCHANGED <<outbound, pending, partial, status, call, order, running, stdout, reply>>

IoWritten ==
  /\ io = "write" /\ running /\ io' = "select"
  /\ inbox' = inbox \o writing /\ writing' = <<>>
  /\ pending' = pending \cup ({writing[1]} \cap Requests)
  /\ barrier' = [n \in Notifications |-> IF n = writing[1] THEN "written" ELSE barrier[n]]
  /\ UNCHANGED <<outbound, partial, status, call, order, running, stdout, reply>>

IoWriteFails == io = "write" /\ ~running /\ IoEnd("Crashed")

(* The read branch: read_message and handle_inbound_message.               *)
Reading == io = "select" /\ stdout # <<>>

IoReadHeader ==
  /\ Reading /\ partial = {} /\ stdout[1].unit = "header"
  /\ partial' = {stdout[1].id} /\ stdout' = Tail(stdout)
  /\ UNCHANGED <<outbound, io, writing, pending, status, call, barrier, order, running, inbox, reply>>

IoReadBody ==
  /\ Reading /\ partial # {} /\ stdout' = Tail(stdout) /\ partial' = {}
  /\ pending' = pending \ {stdout[1].id}
  /\ call' = [r \in Requests |-> IF r = stdout[1].id /\ r \in pending /\ call[r] = "waiting" THEN "answered" ELSE call[r]]
  /\ UNCHANGED <<outbound, io, writing, status, barrier, order, running, inbox, reply>>

(* A body whose header is gone: its line ends with the next header, and    *)
(* there is no Content-Length.                                             *)
IoReadBad ==
  /\ Reading /\ partial = {} /\ stdout[1].unit = "body" /\ Len(stdout) > 1
  /\ IoEnd("Crashed")

(* End of file, between two messages or inside one (read_exact fails).     *)
IoEof ==
  /\ io = "select" /\ ~running
  /\ \/ stdout = <<>> /\ partial = {} /\ IoEnd("Stopped")
     \/ stdout = <<>> /\ partial # {} /\ IoEnd("Crashed")
     \/ partial = {} /\ Len(stdout) = 1 /\ stdout[1].unit = "body" /\ IoEnd("Stopped")
-----------------------------------------------------------------------------
(* The server: it answers requests in any order, writes a message in two   *)
(* pieces, and may exit or stall at any point.                             *)
ServerBegins(r) ==
  /\ running /\ reply[r] = "none" /\ \A q \in Requests : reply[q] # "begun"
  /\ \E k \in DOMAIN inbox : inbox[k] = r
  /\ reply' = [reply EXCEPT ![r] = "begun"]
  /\ stdout' = Append(stdout, [id |-> r, unit |-> "header"])
  /\ UNCHANGED <<outbound, ioTask, call, barrier, order, running, inbox>>

ServerEnds(r) ==
  /\ running /\ reply[r] = "begun" /\ reply' = [reply EXCEPT ![r] = "sent"]
  /\ stdout' = Append(stdout, [id |-> r, unit |-> "body"])
  /\ UNCHANGED <<outbound, ioTask, call, barrier, order, running, inbox>>

ServerExits ==
  /\ running /\ running' = FALSE
  /\ UNCHANGED <<outbound, ioTask, call, barrier, order, inbox, stdout, reply>>

IoStep == \/ IoTake \/ IoWritten \/ IoWriteFails
          \/ IoReadHeader \/ IoReadBody \/ IoReadBad \/ IoEof

TransportNext ==
  \/ \E r \in Requests : Request(r) \/ RequestTimeout(r) \/ ServerBegins(r) \/ ServerEnds(r)
  \/ \E n \in Notifications : Notify(n)
  \/ Refused \/ IoStep \/ ServerExits

TransportSpec == TransportInit /\ [][TransportNext]_transportVars

(* The I/O task is polled, and its select, which picks a ready branch at   *)
(* random, does not neglect the outbound one for ever.  A write need not   *)
(* complete: it has no timeout, and the server may stop reading its stdin. *)
TransportFairSpec ==
  /\ TransportSpec /\ SF_transportVars(IoTake)
  /\ WF_transportVars(IoTake \/ IoWriteFails \/ IoReadHeader \/ IoReadBody \/ IoReadBad \/ IoEof)
-----------------------------------------------------------------------------
(* "Handle all outbound messages sequentially for total ordering": what    *)
(* the server has got, what is being written and what is queued is what    *)
(* was sent, in that order, requests and notifications alike.              *)
TotalOrder == io # "ended" => inbox \o writing \o outbound = order

(* A caller waits only as long as its response channel is held: by the     *)
(* queue, the write in progress or the pending map.                        *)
NoAbandonedRequest ==
  \A r \in Requests : call[r] = "waiting" =>
    r \in pending \/ \E k \in DOMAIN (writing \o outbound) : (writing \o outbound)[k] = r

(* A write barrier is resolved in the end, also when the server stalls in  *)
(* the middle of a message it sends; only a write that the server never    *)
(* takes off the pipe can hold it up.                                      *)
BarrierResolves ==
  \A n \in Notifications : barrier[n] = "waiting" ~> (barrier[n] # "waiting" \/ [](io = "write"))
=============================================================================
