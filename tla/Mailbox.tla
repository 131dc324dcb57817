------------------------------- MODULE Mailbox ------------------------------
(***************************************************************************)
(* The bounded actor mailbox of crates/worker/src/mailbox.rs: many         *)
(* senders, one receiver, callers of close() and of close_now().  The      *)
(* state mutex is never held across an await, but a thread that holds it   *)
(* makes try_lock fail, so taking it and the critical section are two      *)
(* steps.  What the code does after it has dropped the lock (wake-ups)     *)
(* is a step of its own.                                                   *)
(***************************************************************************)
EXTENDS Naturals, Sequences, Notify

CONSTANTS
  Senders,      \* tasks that call MailboxSender::send
  Receiver,     \* the task that calls MailboxReceiver::recv
  Closers,      \* tasks that call close().await
  NowClosers,   \* callers of the non-blocking close_now()
  Droppable,    \* senders whose send() future may be dropped (select!)
  Capacity,
  Policies,     \* TRUE: MailboxPolicy::CoalesceByEq, FALSE: Backpressure
  Keys, Key(_), \* what coalesce_eq compares
  MaxSends,     \* bound: messages per sender
  Free          \* the mutex is not held

Procs == Senders \cup {Receiver} \cup Closers \cup NowClosers

ASSUME MailboxAssumption ==
  /\ Capacity \in Nat \ {0}
  /\ MaxSends \in Nat
  /\ Policies \subseteq BOOLEAN
  /\ Droppable \subseteq Senders
  /\ Receiver \notin Senders \cup Closers \cup NowClosers
  /\ Senders \cap (Closers \cup NowClosers) = {}
  /\ Free \notin Procs
  /\ \A m \in Senders \X (1..MaxSends) : Key(m) \in Keys

VARIABLES
  coalesce,   \* the policy the mailbox was built with
  queue, closed, lock,
  notify_recv, notify_send,
  pc,
  next,       \* per sender: number of the message it sends next
  accepted,   \* history: messages for which send() returned Ok, in order
  received,   \* history: messages recv() returned, in order
  cancelled   \* history: some send() future was dropped before it finished

vars ==
  <<coalesce, queue, closed, lock, notify_recv, notify_send, pc, next, accepted, received, cancelled>>
notifies == <<notify_recv, notify_send>>
history == <<coalesce, next, accepted, received, cancelled>>

Msg(s) == <<s, next[s]>>

Goto(p, l) == pc' = [pc EXCEPT ![p] = l]
-----------------------------------------------------------------------------
Init ==
  /\ coalesce \in Policies
  /\ queue = <<>> /\ closed = FALSE /\ lock = Free
  /\ notify_recv = New(Procs) /\ notify_send = New(Procs)
  /\ pc = [p \in Procs |-> "idle"]
  /\ next = [s \in Senders |-> 1]
  /\ accepted = <<>> /\ received = <<>> /\ cancelled = FALSE

(* state.lock().await, for every caller. *)
Acquire(p) ==
  /\ pc[p] = "lock" /\ lock = Free
  /\ lock' = p /\ Goto(p, "crit")
  /\ UNCHANGED <<queue, closed, notifies, history>>
-----------------------------------------------------------------------------
(* send(): with backpressure the Notified future exists before the lock is *)
(* taken, so a pop between the check and the await is not missed.          *)
SendStart(s) ==
  /\ pc[s] = "idle" /\ next[s] <= MaxSends
  /\ Goto(s, "lock")
  /\ notify_send' = IF coalesce THEN notify_send ELSE Created(notify_send, s)
  /\ UNCHANGED <<queue, closed, lock, notify_recv, history>>

SendDone(s) ==
  /\ lock' = Free /\ Goto(s, "idle")
  /\ next' = [next EXCEPT ![s] = @ + 1]
  /\ notify_send' \in Dropped(notify_send, s)
  /\ UNCHANGED <<coalesce, closed, received, cancelled>>

SendClosed(s) ==
  /\ pc[s] = "crit" /\ closed
  /\ SendDone(s)
  /\ UNCHANGED <<queue, notify_recv, accepted>>

\* Mutants of SendPush: closed not checked; a wake-up that stores no permit.
SendPushIfClosed(s) ==
  /\ pc[s] = "crit"
  /\ ~coalesce /\ Len(queue) < Capacity
  /\ queue' = Append(queue, Msg(s))
  /\ accepted' = Append(accepted, Msg(s))
  /\ notify_recv' \in NotifyOne(notify_recv)
  /\ SendDone(s)

SendPushNoPermit(s) ==
  /\ pc[s] = "crit" /\ ~closed
  /\ ~coalesce /\ Len(queue) < Capacity
  /\ queue' = Append(queue, Msg(s))
  /\ accepted' = Append(accepted, Msg(s))
  /\ notify_recv' = NotifyWaiters(notify_recv)
  /\ SendDone(s)

SendPush(s) ==
  /\ pc[s] = "crit" /\ ~closed
  /\ ~coalesce /\ Len(queue) < Capacity
  /\ queue' = Append(queue, Msg(s))
  /\ accepted' = Append(accepted, Msg(s))
  /\ notify_recv' \in NotifyOne(notify_recv)
  /\ SendDone(s)

SendFull(s) ==
  /\ pc[s] = "crit" /\ ~closed
  /\ ~coalesce /\ Len(queue) >= Capacity
  /\ lock' = Free /\ Goto(s, "await")
  /\ UNCHANGED <<queue, closed, notifies, history>>

(* notified.await: go round the loop with a fresh future, or park. *)
SendRetry(s) ==
  /\ pc[s] = "await" /\ Ready(notify_send, s)
  /\ notify_send' = Created(Polled(notify_send, s), s)
  /\ Goto(s, "lock")
  /\ UNCHANGED <<queue, closed, lock, notify_recv, history>>

SendPark(s) ==
  /\ pc[s] = "await" /\ notify_send.fut[s] = "created" /\ ~notify_send.permit
  /\ notify_send' = Registered(notify_send, s)
  /\ UNCHANGED <<queue, closed, lock, notify_recv, pc, history>>

\* Mutant of Coalesced: the newcomer is discarded on a match.
CoalescedKeepsOld(q, m) ==
  IF \E i \in DOMAIN q : Key(q[i]) = Key(m) THEN q
  ELSE Append(IF Len(q) >= Capacity THEN Tail(q) ELSE q, m)

(* CoalesceByEq: replace the entry with the same key, else evict the       *)
(* oldest when full and append.                                            *)
Coalesced(q, m) ==
  IF \E i \in DOMAIN q : Key(q[i]) = Key(m)
  THEN LET i == CHOOSE j \in DOMAIN q :
                  Key(q[j]) = Key(m) /\ \A k \in 1..(j-1) : Key(q[k]) # Key(m)
       IN [q EXCEPT ![i] = m]
  ELSE Append(IF Len(q) >= Capacity THEN Tail(q) ELSE q, m)

SendCoalesce(s) ==
  /\ pc[s] = "crit" /\ ~closed /\ coalesce
  /\ queue' = Coalesced(queue, Msg(s))
  /\ accepted' = Append(accepted, Msg(s))
  /\ notify_recv' \in NotifyOne(notify_recv)
  /\ SendDone(s)

(* The caller's select! drops the send future at one of its awaits. *)
SendDrop(s) ==
  /\ s \in Droppable /\ pc[s] \in {"lock", "await"}
  /\ notify_send' \in Dropped(notify_send, s)
  /\ Goto(s, "idle")
  /\ next' = [next EXCEPT ![s] = @ + 1]
  /\ cancelled' = TRUE
  /\ UNCHANGED <<coalesce, queue, closed, lock, notify_recv, accepted, received>>

Sender(s) ==
  \/ SendStart(s) \/ SendClosed(s) \/ SendPush(s) \/ SendFull(s)
  \/ SendRetry(s) \/ SendPark(s) \/ SendCoalesce(s)
-----------------------------------------------------------------------------
(* recv() *)
RecvStart ==
  /\ pc[Receiver] = "idle" /\ Goto(Receiver, "lock")
  /\ UNCHANGED <<queue, closed, lock, notifies, history>>

RecvPop ==
  /\ pc[Receiver] = "crit" /\ queue # <<>>
  /\ queue' = Tail(queue)
  /\ received' = Append(received, Head(queue))
  /\ lock' = Free
  /\ Goto(Receiver, IF coalesce THEN "idle" ELSE "popped")
  /\ UNCHANGED <<coalesce, closed, notifies, next, accepted, cancelled>>

\* Mutant of RecvNotify: a pop wakes no sender.
RecvNotifyNobody ==
  /\ pc[Receiver] = "popped" /\ Goto(Receiver, "idle")
  /\ UNCHANGED <<queue, closed, lock, notifies, history>>

RecvNotify ==
  /\ pc[Receiver] = "popped"
  /\ notify_send' \in NotifyOne(notify_send)
  /\ Goto(Receiver, "idle")
  /\ UNCHANGED <<queue, closed, lock, notify_recv, history>>

RecvNone ==
  /\ pc[Receiver] = "crit" /\ queue = <<>> /\ closed
  /\ lock' = Free /\ Goto(Receiver, "ended")
  /\ UNCHANGED <<queue, closed, notifies, history>>

RecvEmpty ==
  /\ pc[Receiver] = "crit" /\ queue = <<>> /\ ~closed
  /\ lock' = Free /\ Goto(Receiver, "await")
  /\ UNCHANGED <<queue, closed, notifies, history>>

(* notify_recv.notified().await: the future is created only here, after    *)
(* the lock was dropped; its first poll takes a stored permit or parks.    *)
RecvTakePermit ==
  /\ pc[Receiver] = "await" /\ notify_recv.fut[Receiver] = "none" /\ notify_recv.permit
  /\ notify_recv' = Polled(Created(notify_recv, Receiver), Receiver)
  /\ Goto(Receiver, "lock")
  /\ UNCHANGED <<queue, closed, lock, notify_send, history>>

RecvPark ==
  /\ pc[Receiver] = "await" /\ notify_recv.fut[Receiver] = "none" /\ ~notify_recv.permit
  /\ notify_recv' = Registered(notify_recv, Receiver)
  /\ UNCHANGED <<queue, closed, lock, notify_send, pc, history>>

RecvWake ==
  /\ pc[Receiver] = "await" /\ Ready(notify_recv, Receiver)
  /\ notify_recv' = Polled(notify_recv, Receiver)
  /\ Goto(Receiver, "lock")
  /\ UNCHANGED <<queue, closed, lock, notify_send, history>>

Receive ==
  \/ RecvStart \/ RecvPop \/ RecvNotify \/ RecvNone \/ RecvEmpty
  \/ RecvTakePermit \/ RecvPark \/ RecvWake
-----------------------------------------------------------------------------
(* close() and close_now() *)
CloseStart(c) ==
  /\ c \in Closers /\ pc[c] = "idle" /\ Goto(c, "lock")
  /\ UNCHANGED <<queue, closed, lock, notifies, history>>

CloseBody(c) ==
  /\ pc[c] = "crit"
  /\ closed' = TRUE /\ lock' = Free /\ Goto(c, "notify_recv")
  /\ UNCHANGED <<queue, notifies, history>>

CloseNow(c) ==
  /\ c \in NowClosers /\ pc[c] = "idle" /\ lock = Free
  /\ closed' = TRUE /\ Goto(c, "notify_recv")
  /\ UNCHANGED <<queue, lock, notifies, history>>

\* try_lock fails: close_now returns without closing anything.
CloseNowContended(c) ==
  /\ c \in NowClosers /\ pc[c] = "idle" /\ lock # Free
  /\ Goto(c, "done")
  /\ UNCHANGED <<queue, closed, lock, notifies, history>>

CloseNotifyRecv(c) ==
  /\ pc[c] = "notify_recv"
  /\ notify_recv' = NotifyWaiters(notify_recv)
  /\ Goto(c, IF coalesce THEN "done" ELSE "notify_send")
  /\ UNCHANGED <<queue, closed, lock, notify_send, history>>

\* Mutant of CloseNotifySend: wakes one sender instead of all.
CloseNotifyOneSender(c) ==
  /\ pc[c] = "notify_send"
  /\ notify_send' \in NotifyOne(notify_send)
  /\ Goto(c, "done")
  /\ UNCHANGED <<queue, closed, lock, notify_recv, history>>

CloseNotifySend(c) ==
  /\ pc[c] = "notify_send"
  /\ notify_send' = NotifyWaiters(notify_send)
  /\ Goto(c, "done")
  /\ UNCHANGED <<queue, closed, lock, notify_recv, history>>

Closing(c) == CloseBody(c) \/ CloseNotifyRecv(c) \/ CloseNotifySend(c)
-----------------------------------------------------------------------------
Next ==
  \/ \E p \in Procs : Acquire(p)
  \/ \E s \in Senders : Sender(s) \/ SendDrop(s)
  \/ Receive
  \/ \E c \in Closers \cup NowClosers : CloseStart(c) \/ CloseNow(c) \/ CloseNowContended(c) \/ Closing(c)

Spec == Init /\ [][Next]_vars

(* Tasks that can run are run; Tokio's mutex serves its waiters in FIFO    *)
(* order (SF).  Nobody is obliged to send, to close or to drop a future,   *)
(* but the actor loop always calls recv() again.                           *)
Fairness ==
  /\ \A p \in Procs : SF_vars(Acquire(p))
  /\ \A s \in Senders :
        WF_vars(SendClosed(s) \/ SendPush(s) \/ SendFull(s) \/ SendRetry(s) \/ SendPark(s) \/ SendCoalesce(s))
  /\ WF_vars(Receive)
  /\ \A c \in Closers \cup NowClosers : WF_vars(Closing(c))

FairSpec == Spec /\ Fairness
-----------------------------------------------------------------------------
Location ==
  {"idle", "lock", "crit", "await", "popped", "ended", "notify_recv", "notify_send", "done"}

Message == Senders \X (1..MaxSends)

(* The type invariant: the queue never outgrows the capacity (send waits   *)
(* or evicts), the mutex is held by exactly the process in the critical    *)
(* section.                                                                *)
TypeOK ==
  /\ queue \in Seq(Message) /\ Len(queue) <= Capacity
  /\ coalesce \in BOOLEAN /\ closed \in BOOLEAN /\ cancelled \in BOOLEAN
  /\ lock \in Procs \cup {Free}
  /\ \A p \in Procs : pc[p] = "crit" <=> lock = p
  /\ notify_recv \in NotifyType(Procs) /\ notify_send \in NotifyType(Procs)
  /\ pc \in [Procs -> Location]
  /\ next \in [Senders -> 1..(MaxSends + 1)]
  /\ accepted \in Seq(Message) /\ received \in Seq(Message)

(* recv never sleeps on mail: a receiver at its await, with a message in   *)
(* the queue, has a wake-up stored or delivered (send's notify_one runs    *)
(* under the lock, and recv's check-then-await gap is covered by the       *)
(* stored permit).                                                         *)
ReceiverNotStranded ==
  pc[Receiver] = "await" /\ queue # <<>> =>
    notify_recv.permit \/ notify_recv.fut[Receiver] \in {"one", "all"}

(* A sender that is past its wake-up, or has one it will find.             *)
OnItsWay(s) ==
  \/ pc[s] \in {"lock", "crit"}
  \/ pc[s] = "await" /\ Ready(notify_send, s)

Parked(s) == pc[s] = "await" /\ notify_send.fut[s] = "waiting"

(* Backpressure loses no wake-up: while a sender is parked in an open      *)
(* mailbox and no dropped send() has taken a wake-up with it, there is     *)
(* still a message whose pop will notify, a notification about to be sent  *)
(* by recv, or another sender that was woken and will push or pass on.     *)
SenderNotStranded ==
  ~cancelled =>
    \A s \in Senders : Parked(s) =>
      \/ queue # <<>> \/ pc[Receiver] = "popped"
      \/ \E t \in Senders : OnItsWay(t)
      \/ closed

(* Closing leaves nobody behind: once every close has sent its wake-ups,   *)
(* no sender is parked or about to park (close's notify_waiters stores no  *)
(* permit, so this rests on send creating its future before the check).    *)
ClosedUnparks ==
  closed /\ (\A c \in Closers \cup NowClosers : pc[c] \notin {"notify_recv", "notify_send"}) =>
    \A s \in Senders : pc[s] = "await" => Ready(notify_send, s)

(* What send() promised with Ok reaches recv() once, in order (see         *)
(* Channel): the mailbox implements a bounded FIFO channel that ends only  *)
(* after close, when drained; with CoalesceByEq, one that may overwrite    *)
(* and evict but invents nothing.                                          *)
Channel == INSTANCE Channel WITH conflating <- coalesce, ended <- pc[Receiver] = "ended"
ImplementsChannel == Channel!Spec

(* Coalescing keeps one entry per key ("replace matching key in-place")    *)
(* and that entry is the newest message accepted for the key.              *)
CoalesceFresh ==
  coalesce => \A i \in DOMAIN queue :
    /\ \A j \in DOMAIN queue : Key(queue[i]) = Key(queue[j]) => i = j
    /\ \E k \in DOMAIN accepted :
         /\ accepted[k] = queue[i]
         /\ \A l \in (k+1)..Len(accepted) : Key(accepted[l]) # Key(queue[i])

(* Every send() returns: a blocked sender is eventually let in or refused, *)
(* as long as the receiver keeps receiving and no other send() was         *)
(* cancelled (one dropped between its wake-up and the lock loses it).      *)
SendReturns == \A s \in Senders : pc[s] # "idle" ~> (pc[s] = "idle" \/ cancelled)

(* "Requests mailbox closure. Receivers drain existing items then return   *)
(* `None`" (mailbox.rs:118): closing eventually ends the receiver.         *)
CloseEndsReceiver == closed ~> pc[Receiver] = "ended"
=============================================================================
