------------------------------- MODULE Channel ------------------------------
(***************************************************************************)
(* What a mailbox promises its users: a bounded FIFO channel that can be   *)
(* closed.  Nothing is accepted after close, nothing accepted is lost,     *)
(* duplicated or reordered (unless the channel conflates, and then nothing *)
(* is delivered that was not accepted), and the receiver sees the end of   *)
(* the stream only when the channel is closed and drained.                 *)
(***************************************************************************)
EXTENDS Naturals, Sequences

CONSTANTS Senders, MaxSends, Capacity

VARIABLES conflating, queue, closed, accepted, received, ended

chan == <<conflating, queue, closed, accepted, received, ended>>

ChannelInit ==
  /\ queue = <<>> /\ accepted = <<>> /\ received = <<>>
  /\ conflating \in BOOLEAN /\ closed = FALSE /\ ended = FALSE

Accept(m) ==
  /\ ~conflating /\ ~closed /\ Len(queue) < Capacity
  /\ queue' = Append(queue, m) /\ accepted' = Append(accepted, m)
  /\ UNCHANGED <<conflating, closed, received, ended>>

(* The newcomer may replace or push out what is queued. *)
Conflate(m) ==
  /\ conflating /\ ~closed
  /\ Len(queue') <= Capacity /\ accepted' = Append(accepted, m)
  /\ \A i \in DOMAIN queue' : queue'[i] = m \/ \E j \in DOMAIN queue : queue'[i] = queue[j]
  /\ UNCHANGED <<conflating, closed, received, ended>>

Deliver ==
  /\ queue # <<>> /\ ~ended
  /\ queue' = Tail(queue) /\ received' = Append(received, Head(queue))
  /\ UNCHANGED <<conflating, closed, accepted, ended>>

Close ==
  /\ closed' = TRUE
  /\ UNCHANGED <<conflating, queue, accepted, received, ended>>

End ==
  /\ closed /\ queue = <<>> /\ ended' = TRUE
  /\ UNCHANGED <<conflating, queue, closed, accepted, received>>

ChannelNext ==
  \/ \E m \in Senders \X (1..MaxSends) : Accept(m) \/ Conflate(m)
  \/ Deliver \/ Close \/ End

Spec == ChannelInit /\ [][ChannelNext]_chan
=============================================================================
