---------------------------- MODULE MailboxProofs ---------------------------
(***************************************************************************)
(* Proofs about the mailbox, for any number of senders and closers, any    *)
(* capacity and both policies.                                             *)
(***************************************************************************)
EXTENDS Mailbox, SequenceTheorems, TLAPS

(* Time limits; SMT has further tries. *)
USE SMTT(20), ZenonT(20), SMTT(30), SMTT(40)

-----------------------------------------------------------------------------
(* What the operations of Notify return. *)

(* A new future changes nothing but its owner's entry. *)
LEMMA CreatedFacts ==
  ASSUME NEW P, NEW n \in NotifyType(P), NEW p \in P
  PROVE  /\ Created(n, p) \in NotifyType(P)
         /\ Created(n, p).fut[p] = "created"
         /\ \A q \in P \ {p} : Created(n, p).fut[q] = n.fut[q]
         /\ Created(n, p).permit = n.permit
BY DEF NotifyType, FutureState, Created

(* notify_one stores the permit or wakes exactly one waiter. *)
LEMMA NotifyOneFacts ==
  ASSUME NEW P, NEW n \in NotifyType(P), NEW r \in NotifyOne(n)
  PROVE  /\ r \in NotifyType(P)
         /\ \A q \in P : r.fut[q] # n.fut[q] => n.fut[q] = "waiting" /\ r.fut[q] = "one"
         /\ n.permit => r.permit
         /\ \/ r.permit /\ \A q \in P : n.fut[q] # "waiting"
            \/ \E q \in P : n.fut[q] = "waiting" /\ r.fut[q] = "one"
<1>1. CASE Waiters(n) = {}
  <2>1. r = [n EXCEPT !.permit = TRUE]  BY <1>1 DEF NotifyOne
  <2>2. \A q \in P : n.fut[q] # "waiting"  BY <1>1 DEF Waiters, NotifyType
  <2>. QED  BY <2>1, <2>2, ZenonT(20) DEF NotifyType, FutureState
<1>2. CASE Waiters(n) # {}
  <2>1. PICK p \in Waiters(n) : r = [n EXCEPT !.fut[p] = "one"]  BY <1>2 DEF NotifyOne
  <2>2. p \in P /\ n.fut[p] = "waiting"  BY DEF Waiters, NotifyType
  <2>. QED  BY <2>1, <2>2 DEF NotifyType, FutureState
<1>. QED  BY <1>1, <1>2

(* notify_waiters leaves no future created or waiting and stores nothing. *)
LEMMA NotifyWaitersFacts ==
  ASSUME NEW P, NEW n \in NotifyType(P)
  PROVE  /\ NotifyWaiters(n) \in NotifyType(P)
         /\ NotifyWaiters(n).permit = n.permit
         /\ \A q \in P : NotifyWaiters(n).fut[q] =
               IF n.fut[q] = "waiting" THEN "all"
               ELSE IF n.fut[q] = "created" THEN "recalled" ELSE n.fut[q]
BY DEF NotifyType, FutureState, NotifyWaiters

(* Completing a poll removes the future; registering parks it. *)
LEMMA PolledFacts ==
  ASSUME NEW P, NEW n \in NotifyType(P), NEW p \in P
  PROVE  /\ Polled(n, p) \in NotifyType(P)
         /\ Polled(n, p).fut[p] = "none"
         /\ \A q \in P \ {p} : Polled(n, p).fut[q] = n.fut[q]
BY ZenonT(20) DEF NotifyType, FutureState, Polled

LEMMA RegisteredFacts ==
  ASSUME NEW P, NEW n \in NotifyType(P), NEW p \in P
  PROVE  /\ Registered(n, p) \in NotifyType(P)
         /\ Registered(n, p).fut[p] = "waiting"
         /\ \A q \in P \ {p} : Registered(n, p).fut[q] = n.fut[q]
         /\ Registered(n, p).permit = n.permit
BY DEF NotifyType, FutureState, Registered

(* Dropping a future disturbs the others only by passing a wake-up on. *)
LEMMA DroppedFacts ==
  ASSUME NEW P, NEW n \in NotifyType(P), NEW p \in P, NEW r \in Dropped(n, p)
  PROVE  /\ r \in NotifyType(P)
         /\ r.fut[p] = "none"
         /\ n.permit => r.permit
         /\ \A q \in P \ {p} : r.fut[q] # n.fut[q] => n.fut[q] = "waiting" /\ r.fut[q] = "one"
<1> DEFINE gone == [n EXCEPT !.fut[p] = "none"]
<1>1. gone \in NotifyType(P) /\ gone.fut[p] = "none" /\ gone.permit = n.permit
      /\ \A q \in P \ {p} : gone.fut[q] = n.fut[q]
  BY DEF NotifyType, FutureState
<1>2. r = gone \/ r \in NotifyOne(gone)  BY DEF Dropped
<1> HIDE DEF gone
<1>3. CASE r = gone  BY <1>1, <1>3
<1>4. CASE r \in NotifyOne(gone)  BY <1>1, <1>4, NotifyOneFacts
<1>. QED  BY <1>2, <1>3, <1>4
-----------------------------------------------------------------------------
(* Where each kind of process can be. *)
Places ==
  /\ \A s \in Senders : /\ pc[s] \in {"idle", "lock", "crit", "await"}
                        /\ pc[s] # "idle" => next[s] <= MaxSends
                        /\ coalesce => pc[s] # "await"
  /\ pc[Receiver] \in {"idle", "lock", "crit", "await", "popped", "ended"}
  /\ \A c \in Closers : pc[c] \in {"idle", "lock", "crit", "notify_recv", "notify_send", "done"}
  /\ \A c \in NowClosers \ Closers : pc[c] \in {"idle", "notify_recv", "notify_send", "done"}

(* Coalescing keeps the queue a queue of messages within the capacity. *)
LEMMA CoalescedType ==
  ASSUME NEW q \in Seq(Message), Len(q) <= Capacity, NEW m \in Message
  PROVE  Coalesced(q, m) \in Seq(Message) /\ Len(Coalesced(q, m)) <= Capacity
<1> USE MailboxAssumption
<1>1. CASE \E i \in DOMAIN q : Key(q[i]) = Key(m)
  <2> DEFINE i == CHOOSE j \in DOMAIN q :
                    Key(q[j]) = Key(m) /\ \A k \in 1..(j-1) : Key(q[k]) # Key(m)
  <2>1. Coalesced(q, m) = [q EXCEPT ![i] = m]  BY <1>1 DEF Coalesced
  <2> HIDE DEF i
  <2>2. CASE i \in 1..Len(q)  BY <2>1, <2>2, ExceptSeq
  <2>3. CASE i \notin 1..Len(q)
    <3>1. [q EXCEPT ![i] = m] = q  BY <2>3
    <3>. QED  BY <2>1, <3>1, ZenonT(20)
  <2>. QED  BY <2>2, <2>3
<1>2. CASE ~ \E i \in DOMAIN q : Key(q[i]) = Key(m)
  <2>1. Coalesced(q, m) = Append(IF Len(q) >= Capacity THEN Tail(q) ELSE q, m)
    BY <1>2 DEF Coalesced
  <2>2. CASE Len(q) >= Capacity
    <3>1. q # <<>>  BY <2>2
    <3>. QED  BY <2>1, <2>2, <3>1
  <2>3. CASE ~(Len(q) >= Capacity)  BY <2>1, <2>3
  <2>. QED  BY <2>2, <2>3
<1>. QED  BY <1>1, <1>2

(* Coalescing puts nothing in the queue but the newcomer and what was in it. *)
LEMMA CoalescedContents ==
  ASSUME NEW q \in Seq(Message), Len(q) <= Capacity, NEW m \in Message
  PROVE  \A i \in DOMAIN Coalesced(q, m) :
           Coalesced(q, m)[i] = m \/ \E j \in DOMAIN q : Coalesced(q, m)[i] = q[j]
<1> USE MailboxAssumption
<1>1. CASE \E i \in DOMAIN q : Key(q[i]) = Key(m)
  <2> DEFINE i == CHOOSE j \in DOMAIN q :
                    Key(q[j]) = Key(m) /\ \A k \in 1..(j-1) : Key(q[k]) # Key(m)
  <2>1. Coalesced(q, m) = [q EXCEPT ![i] = m]  BY <1>1 DEF Coalesced
  <2> HIDE DEF i
  <2>. QED  BY <2>1
<1>2. CASE ~ \E i \in DOMAIN q : Key(q[i]) = Key(m)
  <2> DEFINE r == IF Len(q) >= Capacity THEN Tail(q) ELSE q
  <2>1. Coalesced(q, m) = Append(r, m)  BY <1>2 DEF Coalesced
  <2>2. r \in Seq(Message) /\ \A i \in DOMAIN r : \E j \in DOMAIN q : r[i] = q[j]
    <3>1. CASE Len(q) >= Capacity
      <4>1. q # <<>>  BY <3>1
      <4>2. Tail(q) \in Seq(Message) /\ Len(Tail(q)) = Len(q) - 1
            /\ \A i \in 1..Len(Tail(q)) : Tail(q)[i] = q[i + 1] /\ i + 1 \in DOMAIN q
        BY <4>1
      <4>. QED  BY <3>1, <4>2
    <3>2. CASE ~(Len(q) >= Capacity)  BY <3>2
    <3>. QED  BY <3>1, <3>2
  <2> HIDE DEF r
  <2>. QED  BY <2>1, <2>2
<1>. QED  BY <1>1, <1>2

LEMMA InitTyped == Init => TypeOK /\ Places
<1> SUFFICES ASSUME Init PROVE TypeOK /\ Places  OBVIOUS
<1> USE MailboxAssumption DEF Init
<1>1. New(Procs) \in NotifyType(Procs)  BY DEF New, NotifyType, FutureState
<1>2. <<>> \in Seq(Message) /\ Len(<<>>) <= Capacity  OBVIOUS
<1>3. pc \in [Procs -> Location] /\ next \in [Senders -> 1..(MaxSends + 1)]  BY DEF Location
<1>4. \A p \in Procs : pc[p] = "idle" /\ p # Free  OBVIOUS
<1>5. TypeOK  BY <1>1, <1>2, <1>3, <1>4, ZenonT(20) DEF TypeOK
<1>6. Places  BY <1>4 DEF Places, Procs
<1>. QED  BY <1>5, <1>6

(* No step of any process leaves the type invariant. *)
LEMMA NextTyped == TypeOK /\ Places /\ [Next]_vars => (TypeOK /\ Places)'
<1> SUFFICES ASSUME TypeOK, Places, [Next]_vars PROVE (TypeOK /\ Places)'
  OBVIOUS
<1> USE MailboxAssumption DEF notifies, history, Goto
<1>1. ASSUME NEW p \in Procs, Acquire(p) PROVE (TypeOK /\ Places)'
  BY <1>1 DEF Acquire, TypeOK, Places, Procs, Location
<1>2. ASSUME NEW s \in Senders, Sender(s) \/ SendDrop(s) PROVE (TypeOK /\ Places)'
  <2>0. s \in Procs  BY DEF Procs
  <2>1. CASE SendStart(s)
    <3>1. notify_send' \in NotifyType(Procs)
      BY <2>0, <2>1, CreatedFacts DEF SendStart, TypeOK
    <3>. QED  BY <2>0, <2>1, <3>1 DEF SendStart, TypeOK, Places, Location, Procs
  <2>2. ASSUME SendDone(s), pc[s] = "crit"
        PROVE  /\ notify_send' \in NotifyType(Procs)
               /\ lock' = Free /\ next' \in [Senders -> 1..(MaxSends + 1)]
               /\ \A p \in Procs : pc'[p] = "crit" <=> lock' = p
               /\ pc' \in [Procs -> Location] /\ Places'
               /\ Msg(s) \in Message
    <3>1. notify_send' \in NotifyType(Procs)
      BY <2>0, <2>2, DroppedFacts DEF SendDone, TypeOK
    <3>. QED  BY <2>0, <2>2, <3>1 DEF SendDone, TypeOK, Places, Location, Procs, Msg, Message
  <2>3. CASE SendClosed(s)
    BY <2>2, <2>3 DEF SendClosed, SendDone, TypeOK
  <2>4. CASE SendPush(s)
    <3>1. notify_recv' \in NotifyType(Procs)  BY <2>4, NotifyOneFacts DEF SendPush, TypeOK
    <3>. QED  BY <2>2, <2>4, <3>1 DEF SendPush, SendDone, TypeOK
  <2>5. CASE SendFull(s)
    BY <2>0, <2>5 DEF SendFull, TypeOK, Places, Location, Procs
  <2>6. CASE SendRetry(s)
    <3>1. notify_send' \in NotifyType(Procs)
      BY <2>0, <2>6, PolledFacts, CreatedFacts DEF SendRetry, TypeOK
    <3>. QED  BY <2>0, <2>6, <3>1 DEF SendRetry, TypeOK, Places, Location, Procs
  <2>7. CASE SendPark(s)
    <3>1. notify_send' \in NotifyType(Procs)
      BY <2>0, <2>7, RegisteredFacts DEF SendPark, TypeOK
    <3>. QED  BY <2>0, <2>7, <3>1 DEF SendPark, TypeOK, Places
  <2>8. CASE SendCoalesce(s)
    <3>1. notify_recv' \in NotifyType(Procs)  BY <2>8, NotifyOneFacts DEF SendCoalesce, TypeOK
    <3>2. queue' \in Seq(Message) /\ Len(queue') <= Capacity
      BY <2>2, <2>8, CoalescedType DEF SendCoalesce, TypeOK
    <3>. QED  BY <2>2, <2>8, <3>1, <3>2 DEF SendCoalesce, SendDone, TypeOK
  <2>9. CASE SendDrop(s)
    <3>1. notify_send' \in NotifyType(Procs)
      BY <2>0, <2>9, DroppedFacts DEF SendDrop, TypeOK
    <3>. QED  BY <2>0, <2>9, <3>1 DEF SendDrop, TypeOK, Places, Location, Procs
  <2>. QED  BY <1>2, <2>1, <2>3, <2>4, <2>5, <2>6, <2>7, <2>8, <2>9 DEF Sender
<1>3. ASSUME Receive PROVE (TypeOK /\ Places)'
  <2>0. Receiver \in Procs  BY DEF Procs
  <2>1. CASE RecvStart  BY <2>0, <2>1 DEF RecvStart, TypeOK, Places, Location, Procs
  <2>2. CASE RecvPop
    <3>1. Head(queue) \in Message /\ Tail(queue) \in Seq(Message) /\ Len(Tail(queue)) <= Capacity
      BY <2>2 DEF RecvPop, TypeOK
    <3>. QED  BY <2>0, <2>2, <3>1 DEF RecvPop, TypeOK, Places, Location, Procs
  <2>3. CASE RecvNotify
    <3>1. notify_send' \in NotifyType(Procs)  BY <2>3, NotifyOneFacts DEF RecvNotify, TypeOK
    <3>. QED  BY <2>0, <2>3, <3>1 DEF RecvNotify, TypeOK, Places, Location, Procs
  <2>4. CASE RecvNone  BY <2>0, <2>4 DEF RecvNone, TypeOK, Places, Location, Procs
  <2>5. CASE RecvEmpty  BY <2>0, <2>5 DEF RecvEmpty, TypeOK, Places, Location, Procs
  <2>6. CASE RecvTakePermit
    <3>1. notify_recv' \in NotifyType(Procs)
      BY <2>0, <2>6, PolledFacts, CreatedFacts DEF RecvTakePermit, TypeOK
    <3>. QED  BY <2>0, <2>6, <3>1 DEF RecvTakePermit, TypeOK, Places, Location, Procs
  <2>8. CASE RecvPark
    <3>1. notify_recv' \in NotifyType(Procs)
      BY <2>0, <2>8, RegisteredFacts DEF RecvPark, TypeOK
    <3>. QED  BY <2>0, <2>8, <3>1 DEF RecvPark, TypeOK, Places
  <2>7. CASE RecvWake
    <3>1. notify_recv' \in NotifyType(Procs)
      BY <2>0, <2>7, PolledFacts DEF RecvWake, TypeOK
    <3>. QED  BY <2>0, <2>7, <3>1 DEF RecvWake, TypeOK, Places, Location, Procs
  <2>. QED  BY <1>3, <2>1, <2>2, <2>3, <2>4, <2>5, <2>6, <2>7, <2>8 DEF Receive
<1>4. ASSUME NEW c \in Closers \cup NowClosers, CloseStart(c) \/ CloseNow(c) \/ CloseNowContended(c) \/ Closing(c)
      PROVE  (TypeOK /\ Places)'
  <2>0. c \in Procs /\ c \notin Senders /\ c # Receiver  BY DEF Procs
  <2>1. CASE CloseStart(c)  BY <2>0, <2>1 DEF CloseStart, TypeOK, Places, Location, Procs
  <2>2. CASE CloseNow(c)  BY <2>0, <2>2 DEF CloseNow, TypeOK, Places, Location, Procs
  <2>6. CASE CloseNowContended(c)  BY <2>0, <2>6 DEF CloseNowContended, TypeOK, Places, Location, Procs
  <2>3. CASE CloseBody(c)  BY <2>0, <2>3 DEF CloseBody, TypeOK, Places, Location, Procs
  <2>4. CASE CloseNotifyRecv(c)
    <3>1. notify_recv' \in NotifyType(Procs)  BY <2>4, NotifyWaitersFacts DEF CloseNotifyRecv, TypeOK
    <3>. QED  BY <2>0, <2>4, <3>1 DEF CloseNotifyRecv, TypeOK, Places, Location, Procs
  <2>5. CASE CloseNotifySend(c)
    <3>1. notify_send' \in NotifyType(Procs)  BY <2>5, NotifyWaitersFacts DEF CloseNotifySend, TypeOK
    <3>. QED  BY <2>0, <2>5, <3>1 DEF CloseNotifySend, TypeOK, Places, Location, Procs
  <2>. QED  BY <1>4, <2>1, <2>2, <2>3, <2>4, <2>5, <2>6 DEF Closing
<1>5. CASE UNCHANGED vars
  BY <1>5 DEF vars, TypeOK, Places
<1>. QED  BY <1>1, <1>2, <1>3, <1>4, <1>5 DEF Next

(* The type invariant holds in every reachable state. *)
THEOREM TypeCorrect == Spec => [](TypeOK /\ Places)
BY InitTyped, NextTyped, PTL DEF Spec
-----------------------------------------------------------------------------
(* Who owns a Notified future, and when. *)
Futures ==
  /\ \A p \in Procs : notify_send.fut[p] # "none" => p \in Senders /\ pc[p] # "idle"
  /\ \A p \in Procs : notify_send.fut[p] \in {"waiting", "one", "all"} => pc[p] = "await"
  /\ \A s \in Senders : ~coalesce /\ pc[s] # "idle" => notify_send.fut[s] # "none"
  /\ \A p \in Procs : notify_recv.fut[p] # "none" => p = Receiver /\ pc[p] = "await"
  /\ notify_recv.fut[Receiver] \notin {"created", "recalled"}

LEMMA InitFutures == Init => Futures
BY MailboxAssumption DEF Init, Futures, New, Procs

LEMMA NextFutures == TypeOK /\ Places /\ Futures /\ [Next]_vars => Futures'
<1> SUFFICES ASSUME TypeOK, Places, Futures, [Next]_vars PROVE Futures'
  OBVIOUS
<1> USE DEF notifies, history, Goto
<1>0. /\ notify_send \in NotifyType(Procs) /\ notify_recv \in NotifyType(Procs)
      /\ pc \in [Procs -> Location] /\ Senders \subseteq Procs /\ Receiver \in Procs
      /\ Receiver \notin Senders
  BY MailboxAssumption DEF TypeOK, Procs
<1>1. ASSUME NEW p \in Procs, Acquire(p) PROVE Futures'
  BY <1>0, <1>1 DEF Acquire, Futures
<1>2. ASSUME NEW s \in Senders, Sender(s) \/ SendDrop(s) PROVE Futures'
  <2>1. CASE SendStart(s)
    <3>1. CASE coalesce  BY <1>0, <2>1, <3>1 DEF SendStart, Futures
    <3>2. CASE ~coalesce
      <4>1. /\ notify_send'.fut[s] = "created"
            /\ \A q \in Procs \ {s} : notify_send'.fut[q] = notify_send.fut[q]
        <5>1. notify_send' = Created(notify_send, s)  BY <2>1, <3>2 DEF SendStart
        <5>2. /\ Created(notify_send, s).fut[s] = "created"
              /\ \A q \in Procs \ {s} : Created(notify_send, s).fut[q] = notify_send.fut[q]
          BY <1>0, CreatedFacts
        <5>. QED  BY <5>1, <5>2
      <4>. QED  BY <1>0, <2>1, <3>2, <4>1 DEF SendStart, Futures
    <3>. QED  BY <3>1, <3>2
  <2>2. ASSUME pc[s] # "idle", pc' = [pc EXCEPT ![s] = "idle"], coalesce' = coalesce,
               notify_send' \in Dropped(notify_send, s),
               notify_recv' = notify_recv \/ notify_recv' \in NotifyOne(notify_recv)
        PROVE  Futures'
    <3>1. /\ notify_send'.fut[s] = "none"
          /\ \A q \in Procs \ {s} : notify_send'.fut[q] # notify_send.fut[q] =>
                notify_send.fut[q] = "waiting" /\ notify_send'.fut[q] = "one"
      BY <1>0, <2>2, DroppedFacts
    <3>2. \A q \in Procs : notify_recv'.fut[q] # notify_recv.fut[q] =>
                notify_recv.fut[q] = "waiting" /\ notify_recv'.fut[q] = "one"
      BY <1>0, <2>2, NotifyOneFacts
    <3>. QED  BY <1>0, <2>2, <3>1, <3>2 DEF Futures
  <2>3. CASE SendClosed(s)  BY <2>2, <2>3 DEF SendClosed, SendDone
  <2>4. CASE SendPush(s)  BY <2>2, <2>4 DEF SendPush, SendDone
  <2>5. CASE SendFull(s)  BY <1>0, <2>5 DEF SendFull, Futures
  <2>6. CASE SendRetry(s)
    <3>1. /\ notify_send'.fut[s] = "created"
          /\ \A q \in Procs \ {s} : notify_send'.fut[q] = notify_send.fut[q]
      <4> DEFINE n == Polled(notify_send, s)
      <4>1. n \in NotifyType(Procs) /\ \A q \in Procs \ {s} : n.fut[q] = notify_send.fut[q]
        BY <1>0, PolledFacts
      <4>2. notify_send' = Created(n, s)  BY <2>6 DEF SendRetry
      <4> HIDE DEF n
      <4>3. /\ Created(n, s).fut[s] = "created"
            /\ \A q \in Procs \ {s} : Created(n, s).fut[q] = n.fut[q]
        BY <1>0, <4>1, CreatedFacts
      <4>. QED  BY <4>1, <4>2, <4>3
    <3>. QED  BY <1>0, <2>6, <3>1 DEF SendRetry, Futures
  <2>7. CASE SendPark(s)
    <3>1. /\ notify_send'.fut[s] = "waiting"
          /\ \A q \in Procs \ {s} : notify_send'.fut[q] = notify_send.fut[q]
      <4>1. notify_send' = Registered(notify_send, s)  BY <2>7 DEF SendPark
      <4>2. /\ Registered(notify_send, s).fut[s] = "waiting"
            /\ \A q \in Procs \ {s} : Registered(notify_send, s).fut[q] = notify_send.fut[q]
        BY <1>0, RegisteredFacts
      <4>. QED  BY <4>1, <4>2
    <3>. QED  BY <1>0, <2>7, <3>1 DEF SendPark, Futures
  <2>8. CASE SendCoalesce(s)  BY <2>2, <2>8 DEF SendCoalesce, SendDone
  <2>9. CASE SendDrop(s)  BY <2>2, <2>9 DEF SendDrop
  <2>. QED  BY <1>2, <2>1, <2>3, <2>4, <2>5, <2>6, <2>7, <2>8, <2>9 DEF Sender
<1>3. ASSUME Receive PROVE Futures'
  <2>1. CASE RecvStart  BY <1>0, <2>1 DEF RecvStart, Futures
  <2>2. CASE RecvPop  BY <1>0, <2>2 DEF RecvPop, Futures
  <2>3. CASE RecvNotify
    BY <1>0, <2>3, NotifyOneFacts DEF RecvNotify, Futures
  <2>4. CASE RecvNone  BY <1>0, <2>4 DEF RecvNone, Futures
  <2>5. CASE RecvEmpty  BY <1>0, <2>5 DEF RecvEmpty, Futures
  <2>6. CASE RecvTakePermit
    <3>1. /\ notify_recv'.fut[Receiver] = "none"
          /\ \A q \in Procs \ {Receiver} : notify_recv'.fut[q] = notify_recv.fut[q]
      <4> DEFINE n == Created(notify_recv, Receiver)
      <4>1. n \in NotifyType(Procs) /\ \A q \in Procs \ {Receiver} : n.fut[q] = notify_recv.fut[q]
        BY <1>0, CreatedFacts
      <4>2. notify_recv' = Polled(n, Receiver)  BY <2>6 DEF RecvTakePermit
      <4> HIDE DEF n
      <4>. QED  BY <1>0, <4>1, <4>2, PolledFacts
    <3>. QED  BY <1>0, <2>6, <3>1 DEF RecvTakePermit, Futures
  <2>7. CASE RecvPark
    <3>1. /\ notify_recv'.fut[Receiver] = "waiting"
          /\ \A q \in Procs \ {Receiver} : notify_recv'.fut[q] = notify_recv.fut[q]
      BY <1>0, <2>7, RegisteredFacts DEF RecvPark
    <3>. QED  BY <1>0, <2>7, <3>1 DEF RecvPark, Futures
  <2>8. CASE RecvWake
    <3>1. /\ notify_recv'.fut[Receiver] = "none"
          /\ \A q \in Procs \ {Receiver} : notify_recv'.fut[q] = notify_recv.fut[q]
      BY <1>0, <2>8, PolledFacts DEF RecvWake
    <3>. QED  BY <1>0, <2>8, <3>1 DEF RecvWake, Futures
  <2>. QED  BY <1>3, <2>1, <2>2, <2>3, <2>4, <2>5, <2>6, <2>7, <2>8 DEF Receive
<1>4. ASSUME NEW c \in Closers \cup NowClosers,
             CloseStart(c) \/ CloseNow(c) \/ CloseNowContended(c) \/ Closing(c)
      PROVE  Futures'
  <2>0. c \in Procs /\ c \notin Senders /\ c # Receiver  BY MailboxAssumption DEF Procs
  <2>1. CASE CloseStart(c)  BY <1>0, <2>0, <2>1 DEF CloseStart, Futures
  <2>2. CASE CloseNow(c)  BY <1>0, <2>0, <2>2 DEF CloseNow, Futures
  <2>3. CASE CloseNowContended(c)  BY <1>0, <2>0, <2>3 DEF CloseNowContended, Futures
  <2>4. CASE CloseBody(c)  BY <1>0, <2>0, <2>4 DEF CloseBody, Futures
  <2>5. CASE CloseNotifyRecv(c)
    BY <1>0, <2>0, <2>5, NotifyWaitersFacts DEF CloseNotifyRecv, Futures
  <2>6. CASE CloseNotifySend(c)
    BY <1>0, <2>0, <2>6, NotifyWaitersFacts DEF CloseNotifySend, Futures
  <2>. QED  BY <1>4, <2>1, <2>2, <2>3, <2>4, <2>5, <2>6 DEF Closing
<1>5. CASE UNCHANGED vars
  <2>1. UNCHANGED <<coalesce, pc, notify_send, notify_recv>>  BY <1>5 DEF vars
  <2>. QED  BY <2>1 DEF Futures
<1>. QED  BY <1>1, <1>2, <1>3, <1>4, <1>5 DEF Next
-----------------------------------------------------------------------------
(* The wake-up invariant.  A sender that left the critical section because *)
(* the queue was full is owed a wake-up: by a message still queued, by the *)
(* receiver that just popped one, or by a sender already woken.            *)
Owed ==
  \A s \in Senders : pc[s] = "await" =>
    \/ closed \/ cancelled
    \/ queue # <<>> \/ pc[Receiver] = "popped"
    \/ \E t \in Senders : OnItsWay(t)

(* After the last close has notified, every awaiting sender was woken.     *)
Released ==
  closed /\ (\A c \in Closers \cup NowClosers : pc[c] \notin {"notify_recv", "notify_send"}) =>
    \A s \in Senders : pc[s] = "await" => notify_send.fut[s] \in {"one", "all", "recalled"}

LEMMA InitWakeups == Init => ReceiverNotStranded /\ Owed /\ Released
BY MailboxAssumption DEF Init, ReceiverNotStranded, Owed, Released, Procs

(* Only push adds mail, and it notifies under the lock; a receiver parks   *)
(* only when it finds no permit.                                           *)
LEMMA NextReceiver ==
  TypeOK /\ Places /\ Futures /\ ReceiverNotStranded /\ [Next]_vars => ReceiverNotStranded'
<1> SUFFICES ASSUME TypeOK, Places, Futures, ReceiverNotStranded, [Next]_vars
             PROVE  ReceiverNotStranded'
  OBVIOUS
<1> USE DEF notifies, history, Goto
<1>0. /\ notify_send \in NotifyType(Procs) /\ notify_recv \in NotifyType(Procs)
      /\ pc \in [Procs -> Location] /\ Senders \subseteq Procs /\ Receiver \in Procs
      /\ Receiver \notin Senders
  BY MailboxAssumption DEF TypeOK, Procs
<1>1. ASSUME NEW p \in Procs, Acquire(p) PROVE ReceiverNotStranded'
  BY <1>0, <1>1 DEF Acquire, ReceiverNotStranded
<1>2. ASSUME NEW s \in Senders, Sender(s) \/ SendDrop(s) PROVE ReceiverNotStranded'
  <2>1. ASSUME notify_recv' \in NotifyOne(notify_recv), pc' = [pc EXCEPT ![s] = "idle"]
        PROVE  ReceiverNotStranded'
    <3>1. notify_recv'.permit \/ notify_recv'.fut[Receiver] = "one"
      BY <1>0, <2>1, NotifyOneFacts DEF Futures
    <3>. QED  BY <3>1 DEF ReceiverNotStranded
  <2>2. ASSUME UNCHANGED <<notify_recv, queue>>, pc'[Receiver] = pc[Receiver]
        PROVE  ReceiverNotStranded'
    BY <2>2 DEF ReceiverNotStranded
  <2>3. CASE SendPush(s)  BY <2>1, <2>3 DEF SendPush, SendDone
  <2>4. CASE SendCoalesce(s)  BY <2>1, <2>4 DEF SendCoalesce, SendDone
  <2>5. CASE ~SendPush(s) /\ ~SendCoalesce(s)
    BY <1>0, <1>2, <2>2, <2>5
       DEF Sender, SendStart, SendClosed, SendDone, SendFull, SendRetry, SendPark, SendDrop
  <2>. QED  BY <2>3, <2>4, <2>5
<1>3. ASSUME Receive PROVE ReceiverNotStranded'
  <2>1. CASE RecvPark
    <3>1. queue = <<>>  BY <2>1 DEF RecvPark, ReceiverNotStranded
    <3>. QED  BY <2>1, <3>1 DEF RecvPark, ReceiverNotStranded
  <2>2. CASE ~RecvPark
    BY <1>0, <1>3, <2>2 DEF Receive, RecvStart, RecvPop, RecvNotify, RecvNone, RecvEmpty,
       RecvTakePermit, RecvWake, ReceiverNotStranded
  <2>. QED  BY <2>1, <2>2
<1>4. ASSUME NEW c \in Closers \cup NowClosers,
             CloseStart(c) \/ CloseNow(c) \/ CloseNowContended(c) \/ Closing(c)
      PROVE  ReceiverNotStranded'
  <2>0. c \in Procs /\ c # Receiver  BY MailboxAssumption DEF Procs
  <2>1. CASE CloseNotifyRecv(c)
    BY <1>0, <2>0, <2>1, NotifyWaitersFacts DEF CloseNotifyRecv, ReceiverNotStranded
  <2>2. CASE ~CloseNotifyRecv(c)
    BY <1>0, <1>4, <2>0, <2>2
       DEF Closing, CloseStart, CloseNow, CloseNowContended, CloseBody, CloseNotifySend, ReceiverNotStranded
  <2>. QED  BY <2>1, <2>2
<1>5. CASE UNCHANGED vars  BY <1>5 DEF vars, ReceiverNotStranded
<1>. QED  BY <1>1, <1>2, <1>3, <1>4, <1>5 DEF Next

(* A full queue is not empty; a pop is followed by notify_one, which finds *)
(* a waiter or leaves a permit for the senders that are about to park.     *)
LEMMA NextOwed == TypeOK /\ Places /\ Futures /\ Owed /\ [Next]_vars => Owed'
<1> SUFFICES ASSUME TypeOK, Places, Futures, Owed, [Next]_vars PROVE Owed'
  OBVIOUS
<1> USE DEF notifies, history, Goto
<1>0. /\ notify_send \in NotifyType(Procs) /\ notify_recv \in NotifyType(Procs)
      /\ pc \in [Procs -> Location] /\ Senders \subseteq Procs /\ Receiver \in Procs
      /\ Receiver \notin Senders
  BY MailboxAssumption DEF TypeOK, Procs
<1>a. ASSUME closed => closed', cancelled => cancelled', queue # <<>> => queue' # <<>>,
             pc[Receiver] = "popped" => pc'[Receiver] = "popped",
             \A t \in Senders : OnItsWay(t) => OnItsWay(t)',
             \A s \in Senders : pc'[s] = "await" => pc[s] = "await"
      PROVE  Owed'
  BY <1>a DEF Owed
<1>b. ASSUME NEW t \in Senders, pc'[t] \in {"lock", "crit"} PROVE Owed'
  BY <1>b DEF Owed, OnItsWay
<1>1. ASSUME NEW p \in Procs, Acquire(p) PROVE Owed'
  <2>1. CASE p \in Senders  BY <1>0, <1>1, <1>b, <2>1 DEF Acquire
  <2>2. CASE p \notin Senders  BY <1>0, <1>1, <1>a, <2>2 DEF Acquire, OnItsWay, Ready
  <2>. QED  BY <2>1, <2>2
<1>2. ASSUME NEW s \in Senders, Sender(s) \/ SendDrop(s) PROVE Owed'
  <2>1. CASE SendStart(s)  BY <1>0, <1>b, <2>1 DEF SendStart
  <2>2. CASE SendClosed(s)  BY <2>2 DEF SendClosed, SendDone, Owed
  <2>3. CASE SendPush(s)
    <3>1. Msg(s) \in Message  BY <2>3 DEF SendPush, TypeOK, Places, Msg, Message
    <3>2. Len(Append(queue, Msg(s))) = Len(queue) + 1  BY <3>1 DEF TypeOK
    <3>3. queue' = Append(queue, Msg(s)) /\ Len(queue) \in Nat  BY <2>3 DEF SendPush, TypeOK
    <3>4. queue' # <<>>  BY <3>2, <3>3
    <3>. QED  BY <3>4 DEF Owed
  <2>4. CASE SendFull(s)
    <3>1. queue' # <<>>  BY <2>4, MailboxAssumption DEF SendFull, TypeOK
    <3>. QED  BY <3>1 DEF Owed
  <2>5. CASE SendRetry(s)  BY <1>0, <1>b, <2>5 DEF SendRetry
  <2>6. CASE SendPark(s)
    <3>1. /\ notify_send'.permit = notify_send.permit
          /\ \A q \in Procs \ {s} : notify_send'.fut[q] = notify_send.fut[q]
      <4>1. notify_send' = Registered(notify_send, s)  BY <2>6 DEF SendPark
      <4>2. /\ Registered(notify_send, s).permit = notify_send.permit
            /\ \A q \in Procs \ {s} : Registered(notify_send, s).fut[q] = notify_send.fut[q]
        BY <1>0, RegisteredFacts
      <4>. QED  BY <4>1, <4>2
    <3>2. ~OnItsWay(s)  BY <2>6 DEF SendPark, OnItsWay, Ready
    <3>3. \A t \in Senders : OnItsWay(t) => OnItsWay(t)'
      BY <1>0, <2>6, <3>1, <3>2 DEF SendPark, OnItsWay, Ready
    <3>. QED  BY <1>a, <2>6, <3>3 DEF SendPark
  <2>7. CASE SendCoalesce(s)
    BY <1>0, <2>7 DEF SendCoalesce, SendDone, Owed, Places
  <2>8. CASE SendDrop(s)  BY <2>8 DEF SendDrop, Owed
  <2>. QED  BY <1>2, <2>1, <2>2, <2>3, <2>4, <2>5, <2>6, <2>7, <2>8 DEF Sender
<1>3. ASSUME Receive PROVE Owed'
  <2>1. CASE RecvPop
    <3>1. CASE coalesce  BY <1>0, <2>1, <3>1 DEF RecvPop, Owed, Places
    <3>2. CASE ~coalesce
      <4>1. pc'[Receiver] = "popped"  BY <1>0, <2>1, <3>2 DEF RecvPop
      <4>. QED  BY <4>1 DEF Owed
    <3>. QED  BY <3>1, <3>2
  <2>2. CASE RecvNotify
    <3>1. \A q \in Procs : notify_send'.fut[q] # notify_send.fut[q] =>
              notify_send.fut[q] = "waiting" /\ notify_send'.fut[q] = "one"
      BY <1>0, <2>2, NotifyOneFacts DEF RecvNotify
    <3>2. \/ notify_send'.permit /\ \A q \in Procs : notify_send.fut[q] # "waiting"
          \/ \E q \in Procs : notify_send.fut[q] = "waiting" /\ notify_send'.fut[q] = "one"
      BY <1>0, <2>2, NotifyOneFacts DEF RecvNotify
    <3>3. \A q \in Senders : pc'[q] = pc[q]  BY <1>0, <2>2 DEF RecvNotify
    <3>4. CASE \E q \in Procs : notify_send.fut[q] = "waiting" /\ notify_send'.fut[q] = "one"
      <4>1. PICK q \in Procs : notify_send.fut[q] = "waiting" /\ notify_send'.fut[q] = "one"
        BY <3>4
      <4>2. q \in Senders /\ pc[q] = "await"  BY <4>1 DEF Futures
      <4>3. OnItsWay(q)'  BY <3>3, <4>1, <4>2 DEF OnItsWay, Ready
      <4>. QED  BY <4>2, <4>3 DEF Owed
    <3>5. CASE notify_send'.permit /\ \A q \in Procs : notify_send.fut[q] # "waiting"
      <4>1. ASSUME NEW q \in Senders, pc[q] = "await" PROVE OnItsWay(q)'
        <5>1. notify_send.fut[q] \in {"created", "recalled", "one", "all"}
          BY <1>0, <3>5, <4>1 DEF Futures, Places, NotifyType, FutureState
        <5>2. notify_send'.fut[q] = notify_send.fut[q]  BY <1>0, <3>1, <3>5
        <5>. QED  BY <3>3, <3>5, <4>1, <5>1, <5>2 DEF OnItsWay, Ready
      <4>. QED  BY <3>3, <4>1 DEF Owed
    <3>. QED  BY <3>2, <3>4, <3>5
  <2>3. CASE RecvStart \/ RecvNone \/ RecvEmpty \/ RecvTakePermit \/ RecvPark \/ RecvWake
    <3>1. /\ UNCHANGED <<closed, cancelled, queue, notify_send>>
          /\ pc[Receiver] # "popped" /\ \A t \in Senders : pc'[t] = pc[t]
      <4>1. CASE RecvStart  BY <1>0, <4>1 DEF RecvStart
      <4>2. CASE RecvNone  BY <1>0, <4>2 DEF RecvNone
      <4>3. CASE RecvEmpty  BY <1>0, <4>3 DEF RecvEmpty
      <4>4. CASE RecvTakePermit  BY <1>0, <4>4 DEF RecvTakePermit
      <4>5. CASE RecvPark  BY <1>0, <4>5 DEF RecvPark
      <4>6. CASE RecvWake  BY <1>0, <4>6 DEF RecvWake
      <4>. QED  BY <2>3, <4>1, <4>2, <4>3, <4>4, <4>5, <4>6
    <3>. QED  BY <1>a, <3>1 DEF OnItsWay, Ready
  <2>. QED  BY <1>3, <2>1, <2>2, <2>3 DEF Receive
<1>4. ASSUME NEW c \in Closers \cup NowClosers,
             CloseStart(c) \/ CloseNow(c) \/ CloseNowContended(c) \/ Closing(c)
      PROVE  Owed'
  <2>0. c \in Procs /\ c \notin Senders /\ c # Receiver  BY MailboxAssumption DEF Procs
  <2>1. CASE CloseNotifySend(c)
    <3>1. \A t \in Senders : OnItsWay(t) => OnItsWay(t)'
      <4>1. \A t \in Senders : pc'[t] = pc[t]  BY <1>0, <2>0, <2>1 DEF CloseNotifySend
      <4>2. notify_send' = NotifyWaiters(notify_send)  BY <2>1 DEF CloseNotifySend
      <4>. QED  BY <1>0, <4>1, <4>2, NotifyWaitersFacts DEF OnItsWay, Ready
    <3>. QED  BY <1>0, <1>a, <2>0, <2>1, <3>1 DEF CloseNotifySend
  <2>2. CASE CloseStart(c) \/ CloseNow(c) \/ CloseNowContended(c) \/ CloseBody(c) \/ CloseNotifyRecv(c)
    <3>1. /\ (closed => closed') /\ UNCHANGED <<cancelled, queue, notify_send>>
          /\ \A p \in Procs \ {c} : pc'[p] = pc[p]
      <4>1. CASE CloseStart(c)  BY <1>0, <2>0, <4>1 DEF CloseStart
      <4>2. CASE CloseNow(c)  BY <1>0, <2>0, <4>2 DEF CloseNow
      <4>3. CASE CloseNowContended(c)  BY <1>0, <2>0, <4>3 DEF CloseNowContended
      <4>4. CASE CloseBody(c)  BY <1>0, <2>0, <4>4 DEF CloseBody
      <4>5. CASE CloseNotifyRecv(c)  BY <1>0, <2>0, <4>5 DEF CloseNotifyRecv
      <4>. QED  BY <2>2, <4>1, <4>2, <4>3, <4>4, <4>5
    <3>2. \A t \in Senders : t # c /\ t \in Procs  BY <1>0, <2>0
    <3>3. Receiver \in Procs \ {c}  BY <1>0, <2>0
    <3>. QED  BY <1>a, <3>1, <3>2, <3>3 DEF OnItsWay, Ready
  <2>. QED  BY <1>4, <2>1, <2>2 DEF Closing
<1>5. CASE UNCHANGED vars
  <2>1. UNCHANGED <<closed, cancelled, queue, pc, notify_send>>  BY <1>5 DEF vars
  <2>. QED  BY <1>a, <2>1 DEF OnItsWay, Ready
<1>. QED  BY <1>1, <1>2, <1>3, <1>4, <1>5 DEF Next

(* close's notify_waiters reaches every sender that saw the mailbox open;  *)
(* a sender that takes the lock later sees it closed.                      *)
LEMMA NextReleased == TypeOK /\ Places /\ Futures /\ Released /\ [Next]_vars => Released'
<1> SUFFICES ASSUME TypeOK, Places, Futures, Released, [Next]_vars PROVE Released'
  OBVIOUS
<1> USE DEF notifies, history, Goto
<1>0. /\ notify_send \in NotifyType(Procs) /\ notify_recv \in NotifyType(Procs)
      /\ pc \in [Procs -> Location] /\ Senders \subseteq Procs /\ Receiver \in Procs
      /\ Receiver \notin Senders /\ Closers \cup NowClosers \subseteq Procs
      /\ Receiver \notin Closers \cup NowClosers /\ Senders \cap (Closers \cup NowClosers) = {}
  BY MailboxAssumption DEF TypeOK, Procs
<1> DEFINE woken == {"one", "all", "recalled"}
<1>a. ASSUME closed' = closed,
             \A c \in Closers \cup NowClosers : pc'[c] \in {"notify_recv", "notify_send"}
                                              <=> pc[c] \in {"notify_recv", "notify_send"},
             \A t \in Senders : pc'[t] = "await" => pc[t] = "await",
             \A t \in Senders : pc'[t] = "await" /\ notify_send.fut[t] \in woken => notify_send'.fut[t] \in woken
      PROVE  Released'
  BY <1>a DEF Released
<1>1. ASSUME NEW p \in Procs, Acquire(p) PROVE Released'
  BY <1>0, <1>1, <1>a DEF Acquire
<1>2. ASSUME NEW s \in Senders, Sender(s) \/ SendDrop(s) PROVE Released'
  <2>1. CASE SendFull(s)  BY <2>1 DEF SendFull, Released
  <2>2. CASE SendPark(s)
    <3>1. /\ notify_send.fut[s] \notin woken
          /\ \A q \in Procs \ {s} : notify_send'.fut[q] = notify_send.fut[q]
      <4>1. notify_send' = Registered(notify_send, s)  BY <2>2 DEF SendPark
      <4>2. notify_send.fut[s] \notin woken  BY <2>2 DEF SendPark
      <4>3. \A q \in Procs \ {s} : Registered(notify_send, s).fut[q] = notify_send.fut[q]
        BY <1>0, RegisteredFacts
      <4>. QED  BY <4>1, <4>2, <4>3
    <3>. QED  BY <1>0, <1>a, <2>2, <3>1 DEF SendPark
  <2>3. ASSUME pc'[s] # "await", closed' = closed,
               \A q \in Procs \ {s} : pc'[q] = pc[q],
               \A q \in Procs \ {s} : notify_send.fut[q] \in woken => notify_send'.fut[q] \in woken
        PROVE  Released'
    BY <1>0, <1>a, <2>3
  <2>4. ASSUME notify_send' \in Dropped(notify_send, s)
        PROVE  \A q \in Procs \ {s} : notify_send.fut[q] \in woken => notify_send'.fut[q] \in woken
    BY <1>0, <2>4, DroppedFacts
  <2>5. CASE SendStart(s)
    <3>1. \A q \in Procs \ {s} : notify_send'.fut[q] = notify_send.fut[q]
      BY <1>0, <2>5, CreatedFacts DEF SendStart
    <3>. QED  BY <1>0, <2>3, <2>5, <3>1 DEF SendStart
  <2>6. CASE SendRetry(s)
    <3> DEFINE n == Polled(notify_send, s)
    <3>1. n \in NotifyType(Procs) /\ \A q \in Procs \ {s} : n.fut[q] = notify_send.fut[q]
      BY <1>0, PolledFacts
    <3>2. notify_send' = Created(n, s)  BY <2>6 DEF SendRetry
    <3> HIDE DEF n
    <3>3. \A q \in Procs \ {s} : Created(n, s).fut[q] = n.fut[q]
      BY <1>0, <3>1, CreatedFacts
    <3>4. \A q \in Procs \ {s} : notify_send'.fut[q] = notify_send.fut[q]
      BY <3>1, <3>2, <3>3
    <3>. QED  BY <1>0, <2>3, <2>6, <3>4 DEF SendRetry
  <2>7. CASE SendClosed(s)  BY <1>0, <2>3, <2>4, <2>7 DEF SendClosed, SendDone
  <2>8. CASE SendPush(s)  BY <1>0, <2>3, <2>4, <2>8 DEF SendPush, SendDone
  <2>9. CASE SendCoalesce(s)  BY <1>0, <2>3, <2>4, <2>9 DEF SendCoalesce, SendDone
  <2>10. CASE SendDrop(s)  BY <1>0, <2>3, <2>4, <2>10 DEF SendDrop
  <2>. QED  BY <1>2, <2>1, <2>2, <2>5, <2>6, <2>7, <2>8, <2>9, <2>10 DEF Sender
<1>3. ASSUME Receive PROVE Released'
  <2>1. CASE RecvNotify
    <3>1. \A q \in Procs : notify_send'.fut[q] # notify_send.fut[q] =>
              notify_send.fut[q] = "waiting" /\ notify_send'.fut[q] = "one"
      BY <1>0, <2>1, NotifyOneFacts DEF RecvNotify
    <3>. QED  BY <1>0, <1>a, <2>1, <3>1 DEF RecvNotify
  <2>2. CASE ~RecvNotify
    <3>1. /\ closed' = closed /\ notify_send' = notify_send
          /\ \A p \in Procs \ {Receiver} : pc'[p] = pc[p]
      <4>1. CASE RecvStart  BY <1>0, <4>1 DEF RecvStart
      <4>2. CASE RecvPop  BY <1>0, <4>2 DEF RecvPop
      <4>3. CASE RecvNone \/ RecvEmpty  BY <1>0, <4>3 DEF RecvNone, RecvEmpty
      <4>4. CASE RecvTakePermit  BY <1>0, <4>4 DEF RecvTakePermit
      <4>5. CASE RecvPark  BY <1>0, <4>5 DEF RecvPark
      <4>6. CASE RecvWake  BY <1>0, <4>6 DEF RecvWake
      <4>. QED  BY <1>3, <2>2, <4>1, <4>2, <4>3, <4>4, <4>5, <4>6 DEF Receive
    <3>. QED  BY <1>0, <1>a, <3>1
  <2>. QED  BY <2>1, <2>2
<1>4. ASSUME NEW c \in Closers \cup NowClosers,
             CloseStart(c) \/ CloseNow(c) \/ CloseNowContended(c) \/ Closing(c)
      PROVE  Released'
  <2>0. ASSUME pc[c] \notin {"notify_recv", "notify_send"},
               pc'[c] \notin {"notify_recv", "notify_send"},
               \A p \in Procs \ {c} : pc'[p] = pc[p],
               UNCHANGED <<closed, notify_send>>
        PROVE  Released'
    BY <1>0, <1>a, <2>0
  <2>1. CASE CloseStart(c)  BY <1>0, <2>0, <2>1 DEF CloseStart
  <2>2. CASE CloseNowContended(c)  BY <1>0, <2>0, <2>2 DEF CloseNowContended
  <2>3. CASE CloseBody(c) \/ CloseNow(c)
    <3>1. pc'[c] = "notify_recv"  BY <1>0, <2>3 DEF CloseBody, CloseNow
    <3>. QED  BY <3>1 DEF Released
  <2>4. CASE CloseNotifyRecv(c)
    <3>1. CASE coalesce
      <4>1. \A t \in Senders : pc'[t] # "await"
        BY <1>0, <2>4, <3>1 DEF CloseNotifyRecv, Places
      <4>. QED  BY <4>1 DEF Released
    <3>2. CASE ~coalesce
      <4>1. pc'[c] = "notify_send"  BY <1>0, <2>4, <3>2 DEF CloseNotifyRecv
      <4>. QED  BY <4>1 DEF Released
    <3>. QED  BY <3>1, <3>2
  <2>5. CASE CloseNotifySend(c)
    <3>1. ASSUME NEW t \in Senders, pc'[t] = "await" PROVE notify_send'.fut[t] \in woken
      <4>1. pc[t] = "await"  BY <1>0, <2>5, <3>1 DEF CloseNotifySend
      <4>2. notify_send.fut[t] \in FutureState \ {"none"}
        BY <1>0, <4>1 DEF Futures, Places, NotifyType
      <4>3. notify_send'.fut[t] = IF notify_send.fut[t] = "waiting" THEN "all"
               ELSE IF notify_send.fut[t] = "created" THEN "recalled" ELSE notify_send.fut[t]
        BY <1>0, <2>5, NotifyWaitersFacts DEF CloseNotifySend
      <4>. QED  BY <4>2, <4>3 DEF FutureState
    <3>. QED  BY <3>1 DEF Released
  <2>. QED  BY <1>4, <2>1, <2>2, <2>3, <2>4, <2>5 DEF Closing
<1>5. CASE UNCHANGED vars  BY <1>5, <1>a DEF vars
<1>. QED  BY <1>1, <1>2, <1>3, <1>4, <1>5 DEF Next

(* No wake-up is lost in any mailbox: mail never waits behind a sleeping   *)
(* receiver, a parked sender is always owed a wake-up, and close strands   *)
(* no sender.                                                              *)
THEOREM NoLostWakeup == Spec => [](ReceiverNotStranded /\ SenderNotStranded /\ ClosedUnparks)
<1> DEFINE IndInv == TypeOK /\ Places /\ Futures /\ ReceiverNotStranded /\ Owed /\ Released
<1>1. Init => IndInv  BY InitTyped, InitFutures, InitWakeups
<1>2. IndInv /\ [Next]_vars => IndInv'
  BY NextTyped, NextFutures, NextReceiver, NextOwed, NextReleased
<1>3. IndInv => ReceiverNotStranded /\ SenderNotStranded /\ ClosedUnparks
  <2>1. Owed => SenderNotStranded  BY DEF Owed, SenderNotStranded, Parked
  <2>2. Released => ClosedUnparks  BY DEF Released, ClosedUnparks, Ready
  <2>. QED  BY <2>1, <2>2
<1> HIDE DEF IndInv
<1>. QED  BY <1>1, <1>2, <1>3, PTL DEF Spec

(* recv in particular never sleeps on mail, in the gap between its check   *)
(* and its await either; this needs nothing of the senders' futures.       *)
THEOREM ReceiverIsWoken == Spec => []ReceiverNotStranded
<1> DEFINE IndInv == TypeOK /\ Places /\ Futures /\ ReceiverNotStranded
<1>1. Init => IndInv  BY InitTyped, InitFutures, InitWakeups
<1>2. IndInv /\ [Next]_vars => IndInv'  BY NextTyped, NextFutures, NextReceiver
<1>3. IndInv => ReceiverNotStranded  OBVIOUS
<1> HIDE DEF IndInv
<1>. QED  BY <1>1, <1>2, <1>3, PTL DEF Spec
-----------------------------------------------------------------------------
(* x is in a, and nothing of its key after it; q has one entry per key,    *)
(* and each is the last of its key in a.                                   *)
LastOf(x, a) == \E k \in DOMAIN a : a[k] = x /\ \A l \in (k+1)..Len(a) : Key(a[l]) # Key(x)

Fresh(q, a) ==
  \A i \in DOMAIN q : LastOf(q[i], a) /\ \A j \in DOMAIN q : Key(q[i]) = Key(q[j]) => i = j

(* An entry stays the last of its key when a message of another key is     *)
(* accepted, and the newest message is the last of its own.                *)
LEMMA StaysLast ==
  ASSUME NEW a \in Seq(Message), NEW m \in Message, NEW x, Key(x) # Key(m), LastOf(x, a)
  PROVE  LastOf(x, Append(a, m))
<1>1. PICK k \in DOMAIN a : a[k] = x /\ \A l \in (k+1)..Len(a) : Key(a[l]) # Key(x)
  BY DEF LastOf
<1>2. /\ Len(Append(a, m)) = Len(a) + 1 /\ DOMAIN Append(a, m) = 1..(Len(a) + 1) /\ DOMAIN a = 1..Len(a)
      /\ \A i \in 1..Len(a) : Append(a, m)[i] = a[i]
      /\ Append(a, m)[Len(a) + 1] = m /\ Len(a) \in Nat
  BY AppendProperties
<1>3. k \in DOMAIN Append(a, m) /\ Append(a, m)[k] = x  BY <1>1, <1>2
<1>4. ASSUME NEW l \in (k+1)..Len(Append(a, m)) PROVE Key(Append(a, m)[l]) # Key(x)
  <2>1. CASE l = Len(a) + 1  BY <1>2, <2>1
  <2>2. CASE l # Len(a) + 1
    <3>1. l \in (k+1)..Len(a) /\ l \in 1..Len(a)  BY <1>1, <1>2, <2>2
    <3>. QED  BY <1>1, <1>2, <3>1
  <2>. QED  BY <2>1, <2>2
<1>. QED  BY <1>3, <1>4 DEF LastOf

LEMMA NewestIsLast ==
  ASSUME NEW a \in Seq(Message), NEW m \in Message
  PROVE  LastOf(m, Append(a, m))
<1>1. /\ Len(Append(a, m)) = Len(a) + 1 /\ DOMAIN Append(a, m) = 1..(Len(a) + 1)
      /\ Append(a, m)[Len(a) + 1] = m /\ Len(a) \in Nat
  BY AppendProperties
<1>2. \A l \in ((Len(a) + 1) + 1)..Len(Append(a, m)) : FALSE  BY <1>1
<1>. QED  BY <1>1, <1>2 DEF LastOf

(* Coalescing keeps the queue fresh: the newcomer takes the place of the   *)
(* one entry with its key, or none has its key.                            *)
LEMMA CoalescedFresh ==
  ASSUME NEW q \in Seq(Message), Len(q) <= Capacity, NEW a \in Seq(Message), NEW m \in Message, Fresh(q, a)
  PROVE  Fresh(Coalesced(q, m), Append(a, m))
<1> DEFINE b == Append(a, m)
<1>1. LastOf(m, b)  BY NewestIsLast
<1>2. ASSUME NEW i \in DOMAIN q, Key(q[i]) # Key(m) PROVE LastOf(q[i], b)
  BY <1>2, StaysLast DEF Fresh
<1> HIDE DEF b
<1>3. SUFFICES ASSUME NEW i \in DOMAIN Coalesced(q, m)
               PROVE  /\ \A j \in DOMAIN Coalesced(q, m) : Key(Coalesced(q, m)[i]) = Key(Coalesced(q, m)[j]) => i = j
                      /\ LastOf(Coalesced(q, m)[i], b)
  BY DEF Fresh, b
<1>4. CASE \E k \in DOMAIN q : Key(q[k]) = Key(m)
  <2> DEFINE n == CHOOSE j \in DOMAIN q :
                    Key(q[j]) = Key(m) /\ \A k \in 1..(j-1) : Key(q[k]) # Key(m)
  <2>1. Coalesced(q, m) = [q EXCEPT ![n] = m]  BY <1>4 DEF Coalesced
  <2>2. n \in DOMAIN q /\ Key(q[n]) = Key(m)
    <3>1. PICK k \in DOMAIN q : Key(q[k]) = Key(m)  BY <1>4
    <3>2. \A j \in 1..(k-1) : Key(q[j]) # Key(m)
      <4>1. ASSUME NEW j \in 1..(k-1) PROVE Key(q[j]) # Key(m)
        <5>1. j \in DOMAIN q /\ j # k  OBVIOUS
        <5>. QED  BY <3>1, <5>1 DEF Fresh
      <4>. QED  BY <4>1
    <3>. QED  BY <3>1, <3>2
  <2> HIDE DEF n
  <2>3. DOMAIN Coalesced(q, m) = DOMAIN q
        /\ \A j \in DOMAIN q : Coalesced(q, m)[j] = IF j = n THEN m ELSE q[j]
    BY <2>1, <2>2
  <2>4. \A j \in DOMAIN q : Key(Coalesced(q, m)[j]) = Key(q[j])  BY <2>2, <2>3
  <2>5. \A j \in DOMAIN q : Key(q[i]) = Key(q[j]) => i = j  BY <2>3 DEF Fresh
  <2>6. LastOf(Coalesced(q, m)[i], b)
    <3>1. CASE i = n  BY <1>1, <2>2, <2>3, <3>1
    <3>2. CASE i # n
      <4>1. Key(q[i]) # Key(m)  BY <2>2, <2>3, <2>5, <3>2
      <4>. QED  BY <1>2, <2>3, <3>2, <4>1
    <3>. QED  BY <3>1, <3>2
  <2>. QED  BY <2>3, <2>4, <2>5, <2>6
<1>5. CASE ~ \E k \in DOMAIN q : Key(q[k]) = Key(m)
  <2> DEFINE r == IF Len(q) >= Capacity THEN Tail(q) ELSE q
  <2>1. Coalesced(q, m) = Append(r, m)  BY <1>5 DEF Coalesced
  <2>2. /\ r \in Seq(Message)
        /\ \E o \in {0, 1} : \A j \in DOMAIN r : j + o \in DOMAIN q /\ r[j] = q[j + o]
    <3>1. CASE Len(q) >= Capacity
      <4>1. q # <<>>  BY <3>1, MailboxAssumption
      <4>2. Tail(q) \in Seq(Message) /\ Len(Tail(q)) = Len(q) - 1
            /\ \A j \in 1..Len(Tail(q)) : Tail(q)[j] = q[j + 1] /\ j + 1 \in DOMAIN q
        BY <4>1
      <4>3. r = Tail(q) /\ DOMAIN Tail(q) = 1..Len(Tail(q))  BY <3>1, <4>2
      <4>. QED  BY <4>2, <4>3, ZenonT(20)
    <3>2. CASE ~(Len(q) >= Capacity)
      <4>1. \A j \in DOMAIN q : j + 0 = j  OBVIOUS
      <4>. QED  BY <3>2, <4>1
    <3>. QED  BY <3>1, <3>2
  <2> HIDE DEF r
  <2>3. PICK o \in {0, 1} : \A j \in DOMAIN r : j + o \in DOMAIN q /\ r[j] = q[j + o]  BY <2>2
  <2>4. /\ DOMAIN Append(r, m) = 1..(Len(r) + 1) /\ DOMAIN r = 1..Len(r) /\ Len(r) \in Nat
        /\ \A j \in DOMAIN r : Append(r, m)[j] = r[j]
        /\ Append(r, m)[Len(r) + 1] = m
    BY <2>2, AppendProperties
  <2>5. \A j \in DOMAIN r : Key(r[j]) # Key(m) /\ LastOf(r[j], b)  BY <1>2, <1>5, <2>3
  <2>6. \A j, k \in DOMAIN r : Key(r[j]) = Key(r[k]) => j = k
    <3>1. ASSUME NEW j \in DOMAIN r, NEW k \in DOMAIN r, Key(r[j]) = Key(r[k]) PROVE j = k
      <4>1. j + o \in DOMAIN q /\ k + o \in DOMAIN q /\ Key(q[j + o]) = Key(q[k + o])  BY <2>3, <3>1
      <4>2. j + o = k + o  BY <4>1 DEF Fresh
      <4>. QED  BY <2>4, <4>2
    <3>. QED  BY <3>1
  <2>7. \A j \in DOMAIN Append(r, m) : j = Len(r) + 1 \/ j \in DOMAIN r  BY <2>4
  <2>8. CASE i = Len(r) + 1  BY <1>1, <1>3, <2>1, <2>4, <2>5, <2>7, <2>8
  <2>9. CASE i \in DOMAIN r  BY <1>3, <2>1, <2>4, <2>5, <2>6, <2>7, <2>9
  <2>. QED  BY <1>3, <2>1, <2>7, <2>8, <2>9
<1>. QED  BY <1>4, <1>5

(* A pop keeps the queue fresh. *)
LEMMA TailFresh ==
  ASSUME NEW q \in Seq(Message), q # <<>>, NEW a, Fresh(q, a)
  PROVE  Fresh(Tail(q), a)
<1>1. DOMAIN Tail(q) = 1..(Len(q) - 1) /\ \A j \in 1..(Len(q) - 1) : Tail(q)[j] = q[j + 1] /\ j + 1 \in DOMAIN q
  OBVIOUS
<1>2. ASSUME NEW i \in DOMAIN Tail(q), NEW j \in DOMAIN Tail(q), Key(Tail(q)[i]) = Key(Tail(q)[j]) PROVE i = j
  <2>1. i + 1 = j + 1  BY <1>1, <1>2 DEF Fresh
  <2>. QED  BY <1>1, <2>1
<1>. QED  BY <1>1, <1>2 DEF Fresh

(* A coalescing mailbox holds one entry per key, the newest that send()    *)
(* accepted for it, whatever the keys, the capacity and the senders.       *)
THEOREM CoalescingIsFresh == Spec => []CoalesceFresh
<1> USE DEF notifies, history
<1>1. CoalesceFresh <=> (coalesce => Fresh(queue, accepted))  BY DEF CoalesceFresh, Fresh, LastOf
<1>2. Init => CoalesceFresh  BY DEF Init, CoalesceFresh
<1>3. TypeOK /\ Places /\ CoalesceFresh /\ [Next]_vars => CoalesceFresh'
  <2> SUFFICES ASSUME TypeOK, Places, CoalesceFresh, [Next]_vars PROVE CoalesceFresh'
    OBVIOUS
  <2>0. /\ queue \in Seq(Message) /\ Len(queue) <= Capacity /\ accepted \in Seq(Message)
        /\ coalesce => Fresh(queue, accepted)
    BY <1>1 DEF TypeOK
  <2>a. CoalesceFresh' <=> (coalesce' => Fresh(queue', accepted'))  BY DEF CoalesceFresh, Fresh, LastOf
  <2>1. ASSUME NEW s \in Senders, SendCoalesce(s) PROVE CoalesceFresh'
    <3>1. queue' = Coalesced(queue, Msg(s)) /\ accepted' = Append(accepted, Msg(s)) /\ coalesce
      BY <2>1 DEF SendCoalesce
    <3>2. Msg(s) \in Message
      <4>1. pc[s] = "crit"  BY <2>1 DEF SendCoalesce
      <4>2. next[s] \in 1..MaxSends  BY <4>1, MailboxAssumption DEF Places, TypeOK
      <4>. QED  BY <4>2 DEF Msg, Message
    <3>. QED  BY <2>0, <2>a, <3>1, <3>2, CoalescedFresh
  <2>2. CASE RecvPop
    <3>1. queue # <<>> /\ queue' = Tail(queue) /\ UNCHANGED <<accepted, coalesce>>  BY <2>2 DEF RecvPop
    <3>. QED  BY <2>0, <2>a, <3>1, TailFresh
  <2>3. ASSUME NEW s \in Senders, SendPush(s) PROVE CoalesceFresh'
    BY <2>3, <2>a DEF SendPush, SendDone
  <2>4. CASE UNCHANGED <<coalesce, queue, accepted>>
    BY <2>0, <2>4, <2>a
  <2>5. ASSUME NEW p \in Procs, Acquire(p) PROVE CoalesceFresh'
    BY <2>4, <2>5 DEF Acquire
  <2>6. ASSUME NEW s \in Senders, SendStart(s) \/ SendClosed(s) \/ SendFull(s) \/ SendRetry(s) \/ SendPark(s) \/ SendDrop(s)
        PROVE  CoalesceFresh'
    BY <2>4, <2>6, ZenonT(20) DEF SendStart, SendClosed, SendDone, SendFull, SendRetry, SendPark, SendDrop
  <2>7. CASE RecvStart \/ RecvNotify \/ RecvNone \/ RecvEmpty \/ RecvTakePermit \/ RecvPark \/ RecvWake
    BY <2>4, <2>7 DEF RecvStart, RecvNotify, RecvNone, RecvEmpty, RecvTakePermit, RecvPark, RecvWake
  <2>8. ASSUME NEW c \in Closers \cup NowClosers,
               CloseStart(c) \/ CloseNow(c) \/ CloseNowContended(c) \/ Closing(c)
        PROVE  CoalesceFresh'
    BY <2>4, <2>8 DEF CloseStart, CloseNow, CloseNowContended, Closing, CloseBody, CloseNotifyRecv, CloseNotifySend
  <2>9. CASE UNCHANGED vars  BY <2>4, <2>9 DEF vars
  <2>. QED  BY <2>1, <2>2, <2>3, <2>5, <2>6, <2>7, <2>8, <2>9 DEF Next, Sender, Receive
<1>. QED  BY <1>2, <1>3, TypeCorrect, PTL DEF Spec
-----------------------------------------------------------------------------
(* The mailbox implements the closable channel under either policy: send   *)
(* accepts nothing after close, recv returns everything accepted in order  *)
(* (with CoalesceByEq, only what was accepted), and the stream ends only   *)
(* when closed and drained.                                                *)
THEOREM MailboxImplementsChannel ==
  Spec => ImplementsChannel
<1> USE DEF notifies, history, Goto
<1>1. Init => Channel!ChannelInit
  BY MailboxAssumption DEF Init, Channel!ChannelInit, Procs
<1>2. TypeOK /\ Places /\ [Next]_vars => [Channel!ChannelNext]_(Channel!chan)
  <2> SUFFICES ASSUME TypeOK, Places, [Next]_vars
               PROVE  Channel!ChannelNext \/ UNCHANGED Channel!chan
    OBVIOUS
  <2>0. /\ pc \in [Procs -> Location] /\ Senders \subseteq Procs /\ Receiver \in Procs
        /\ Receiver \notin Senders /\ Closers \cup NowClosers \subseteq Procs
        /\ Receiver \notin Closers \cup NowClosers
    BY MailboxAssumption DEF TypeOK, Procs
  <2>a. ASSUME UNCHANGED <<coalesce, queue, closed, accepted, received>>,
               pc'[Receiver] = "ended" <=> pc[Receiver] = "ended"
        PROVE  UNCHANGED Channel!chan
    BY <2>a DEF Channel!chan
  <2>1. ASSUME NEW p \in Procs, Acquire(p) PROVE UNCHANGED Channel!chan
    BY <2>0, <2>1, <2>a DEF Acquire
  <2>2. ASSUME NEW s \in Senders, Sender(s) \/ SendDrop(s)
        PROVE  Channel!ChannelNext \/ UNCHANGED Channel!chan
    <3>1. CASE SendPush(s)
      <4>1. Msg(s) \in Senders \X (1..MaxSends)
        <5>1. pc[s] = "crit"  BY <3>1 DEF SendPush
        <5>2. next[s] \in 1..MaxSends  BY <5>1, MailboxAssumption DEF Places, TypeOK
        <5>. QED  BY <5>2 DEF Msg
      <4>2. pc'[Receiver] = pc[Receiver]  BY <2>0, <3>1 DEF SendPush, SendDone
      <4>3. Channel!Accept(Msg(s))  BY <3>1, <4>2 DEF SendPush, SendDone, Channel!Accept
      <4>. QED  BY <4>1, <4>3 DEF Channel!ChannelNext
    <3>2. CASE SendStart(s) \/ SendClosed(s) \/ SendFull(s) \/ SendRetry(s) \/ SendPark(s) \/ SendDrop(s)
      <4>1. CASE SendStart(s)  BY <2>0, <2>a, <4>1 DEF SendStart
      <4>2. CASE SendClosed(s)  BY <2>0, <2>a, <4>2 DEF SendClosed, SendDone
      <4>3. CASE SendFull(s)  BY <2>0, <2>a, <4>3 DEF SendFull
      <4>4. CASE SendRetry(s)  BY <2>0, <2>a, <4>4 DEF SendRetry
      <4>5. CASE SendPark(s)  BY <2>0, <2>a, <4>5 DEF SendPark
      <4>6. CASE SendDrop(s)  BY <2>0, <2>a, <4>6 DEF SendDrop
      <4>. QED  BY <3>2, <4>1, <4>2, <4>3, <4>4, <4>5, <4>6
    <3>3. CASE SendCoalesce(s)
      <4>1. Msg(s) \in Message
        <5>1. pc[s] = "crit"  BY <3>3 DEF SendCoalesce
        <5>2. next[s] \in 1..MaxSends  BY <5>1, MailboxAssumption DEF Places, TypeOK
        <5>. QED  BY <5>2 DEF Msg, Message
      <4>2. /\ Len(queue') <= Capacity
            /\ \A i \in DOMAIN queue' : queue'[i] = Msg(s) \/ \E j \in DOMAIN queue : queue'[i] = queue[j]
        <5>1. queue' = Coalesced(queue, Msg(s))  BY <3>3 DEF SendCoalesce
        <5>2. queue \in Seq(Message) /\ Len(queue) <= Capacity  BY DEF TypeOK
        <5>. QED  BY <4>1, <5>1, <5>2, CoalescedType, CoalescedContents
      <4>3. /\ coalesce /\ ~closed /\ accepted' = Append(accepted, Msg(s))
            /\ UNCHANGED <<coalesce, closed, received>>
        BY <3>3 DEF SendCoalesce, SendDone
      <4>4. pc'[Receiver] = pc[Receiver]  BY <2>0, <3>3 DEF SendCoalesce, SendDone
      <4>5. Channel!Conflate(Msg(s))  BY <4>2, <4>3, <4>4 DEF Channel!Conflate
      <4>. QED  BY <4>1, <4>5 DEF Channel!ChannelNext, Message
    <3>. QED  BY <2>2, <3>1, <3>2, <3>3 DEF Sender
  <2>3. ASSUME Receive PROVE Channel!ChannelNext \/ UNCHANGED Channel!chan
    <3>1. CASE RecvPop
      <4>1. Channel!Deliver  BY <2>0, <3>1 DEF RecvPop, Channel!Deliver
      <4>. QED  BY <4>1 DEF Channel!ChannelNext
    <3>2. CASE RecvNone
      <4>1. Channel!End  BY <2>0, <3>2 DEF RecvNone, Channel!End
      <4>. QED  BY <4>1 DEF Channel!ChannelNext
    <3>3. CASE RecvStart \/ RecvNotify \/ RecvEmpty \/ RecvTakePermit \/ RecvPark \/ RecvWake
      BY <2>0, <2>a, <3>3 DEF RecvStart, RecvNotify, RecvEmpty, RecvTakePermit, RecvPark, RecvWake
    <3>. QED  BY <2>3, <3>1, <3>2, <3>3 DEF Receive
  <2>4. ASSUME NEW c \in Closers \cup NowClosers,
               CloseStart(c) \/ CloseNow(c) \/ CloseNowContended(c) \/ Closing(c)
        PROVE  Channel!ChannelNext \/ UNCHANGED Channel!chan
    <3>1. CASE CloseNow(c) \/ CloseBody(c)
      <4>1. Channel!Close  BY <2>0, <3>1 DEF CloseNow, CloseBody, Channel!Close
      <4>. QED  BY <4>1 DEF Channel!ChannelNext
    <3>2. CASE CloseStart(c) \/ CloseNowContended(c) \/ CloseNotifyRecv(c) \/ CloseNotifySend(c)
      BY <2>0, <2>a, <3>2 DEF CloseStart, CloseNowContended, CloseNotifyRecv, CloseNotifySend
    <3>. QED  BY <2>4, <3>1, <3>2 DEF Closing
  <2>5. CASE UNCHANGED vars  BY <2>5, <2>a DEF vars
  <2>. QED  BY <2>1, <2>2, <2>3, <2>4, <2>5 DEF Next
<1>. QED  BY <1>1, <1>2, TypeCorrect, PTL DEF Spec, ImplementsChannel, Channel!Spec
=============================================================================
