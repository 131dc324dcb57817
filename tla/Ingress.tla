------------------------------ MODULE Ingress ------------------------------
(***************************************************************************)
(* ActorCommandIngress (crates/worker/src/actor/dispatch.rs): producers    *)
(* put commands into a bounded staging channel without waiting, a          *)
(* forwarding task moves them to the actor's mailbox one by one, and       *)
(* shutdown stops the task, joins it and then shuts the actor down.  The   *)
(* actor is what Actor.tla says of it: it takes commands in order, may     *)
(* stop by itself without closing its mailbox, and a shutdown closes the   *)
(* mailbox and returns.                                                    *)
(***************************************************************************)
EXTENDS Naturals, Sequences

CONSTANTS
  Callers,      \* tasks that call ActorCommandIngress::shutdown
  Staging,      \* capacity of the staging channel
  Capacity,     \* capacity of the mailbox
  MaxSends      \* bound on the commands offered

ASSUME IngressAssumption == Staging \in Nat \ {0} /\ Capacity \in Nat \ {0} /\ MaxSends \in Nat

VARIABLES
  offered, accepted, drops,        \* producers: commands tried, taken, refused as Full
  staged,                          \* the staging channel
  fwd, held,                       \* the forwarding task and the command it carries
  stop,                            \* its cancellation token
  mail, closed, alive, handled,    \* the actor
  ipc,                             \* per caller: progress of shutdown
  joinState, jpc, timed, noted     \* the ingress' JoinCtrl

J == INSTANCE JoinCtrl WITH finished <- (fwd = "done")

producers == <<offered, accepted, drops>>
actor == <<mail, closed, alive, handled>>
join == <<joinState, jpc, timed, noted>>
vars == <<producers, staged, fwd, held, stop, actor, ipc, join>>

Init ==
  /\ offered = 0 /\ accepted = <<>> /\ drops = 0 /\ staged = <<>>
  /\ fwd = "recv" /\ held = <<>> /\ stop = FALSE
  /\ mail = <<>> /\ closed = FALSE /\ alive = TRUE /\ handled = <<>>
  /\ ipc = [c \in Callers |-> "idle"] /\ J!JoinInit
-----------------------------------------------------------------------------
(* ActorCommandPort::send                                                  *)
Offer == offered < MaxSends /\ offered' = offered + 1

PortSend ==
  /\ Offer /\ fwd # "done" /\ Len(staged) < Staging
  /\ staged' = Append(staged, offered') /\ accepted' = Append(accepted, offered')
  /\ UNCHANGED <<drops, fwd, held, stop, actor, ipc, join>>

PortFull ==
  /\ Offer /\ fwd # "done" /\ Len(staged) = Staging
  /\ drops' = drops + 1
  /\ UNCHANGED <<accepted, staged, fwd, held, stop, actor, ipc, join>>

PortClosed ==
  /\ Offer /\ fwd = "done"
  /\ UNCHANGED <<accepted, drops, staged, fwd, held, stop, actor, ipc, join>>
-----------------------------------------------------------------------------
(* The forwarding task; both selects are biased towards the token.         *)
ForwardFetch ==
  /\ fwd = "recv" /\ ~stop /\ staged # <<>>
  /\ fwd' = "send" /\ held' = <<Head(staged)>> /\ staged' = Tail(staged)
  /\ UNCHANGED <<producers, stop, actor, ipc, join>>

ForwardPush ==
  /\ fwd = "send" /\ ~stop /\ ~closed /\ Len(mail) < Capacity
  /\ mail' = mail \o held /\ fwd' = "recv" /\ held' = <<>>
  /\ UNCHANGED <<producers, staged, stop, closed, alive, handled, ipc, join>>

(* The task ends, and with it the receiver of the staging channel and      *)
(* everything still in it.                                                 *)
ForwardEnd ==
  /\ fwd # "done"
  /\ fwd' = "done" /\ held' = <<>> /\ staged' = <<>>
  /\ UNCHANGED <<producers, stop, actor, ipc, join>>

\* Mutant of ForwardStop: the second select does not watch the token.
ForwardStopInRecv == fwd = "recv" /\ stop /\ ForwardEnd

ForwardStop == stop /\ ForwardEnd

ForwardRefused == fwd = "send" /\ ~stop /\ closed /\ ForwardEnd
-----------------------------------------------------------------------------
(* The actor.                                                              *)
ActorTake ==
  /\ alive /\ mail # <<>>
  /\ mail' = Tail(mail) /\ handled' = Append(handled, Head(mail))
  /\ UNCHANGED <<producers, staged, fwd, held, stop, closed, alive, ipc, join>>

ActorDie ==
  /\ alive /\ alive' = FALSE
  /\ UNCHANGED <<producers, staged, fwd, held, stop, mail, closed, handled, ipc, join>>

(* ingress.actor().cancel(): any holder of the handle may.                 *)
ActorCancel ==
  /\ alive' = FALSE /\ closed' = TRUE /\ ~closed
  /\ UNCHANGED <<producers, staged, fwd, held, stop, mail, handled, ipc, join>>
-----------------------------------------------------------------------------
(* stop_forwarding, then ActorHandle::shutdown.                            *)
StopForwarding(c) ==
  /\ ipc[c] = "idle" /\ ipc' = [ipc EXCEPT ![c] = "join"]
  /\ stop' = TRUE /\ J!Join(c, FALSE)
  /\ UNCHANGED <<producers, staged, fwd, held, actor>>

StopJoin(c) ==
  /\ ipc[c] = "join" /\ J!JoinProgress(c)
  /\ UNCHANGED <<producers, staged, fwd, held, stop, actor, ipc>>

\* Mutant of ShutdownActor: the actor is shut down without waiting for the join.
ShutdownActorEarly(c) ==
  /\ ipc[c] = "join" /\ ipc' = [ipc EXCEPT ![c] = "down"]
  /\ closed' = TRUE
  /\ UNCHANGED <<producers, staged, fwd, held, stop, mail, alive, handled, join>>

ShutdownActor(c) ==
  /\ ipc[c] = "join" /\ jpc[c] = "true" /\ ipc' = [ipc EXCEPT ![c] = "down"]
  /\ closed' = TRUE
  /\ UNCHANGED <<producers, staged, fwd, held, stop, mail, alive, handled, join>>

(* The actor ends drained, stopped or cancelled; see Actor.tla.            *)
ShutdownReturn(c) ==
  /\ ipc[c] = "down" /\ ipc' = [ipc EXCEPT ![c] = "returned"]
  /\ alive' = FALSE
  /\ UNCHANGED <<producers, staged, fwd, held, stop, mail, closed, handled, join>>

Forwarder == ForwardFetch \/ ForwardPush \/ ForwardStop \/ ForwardRefused
CallerStep(c) == StopJoin(c) \/ ShutdownActor(c) \/ ShutdownReturn(c)

Next ==
  \/ PortSend \/ PortFull \/ PortClosed \/ Forwarder \/ ActorTake \/ ActorDie \/ ActorCancel
  \/ \E c \in Callers : StopForwarding(c) \/ CallerStep(c)

Spec == Init /\ [][Next]_vars

(* The forwarder and the callers are polled; the actor may die or hang.    *)
FairSpec == Spec /\ WF_vars(Forwarder) /\ \A c \in Callers : WF_vars(CallerStep(c))
-----------------------------------------------------------------------------
(* While the forwarding task lives, every accepted command is in exactly   *)
(* one place and in the order it was accepted: "ingress_forwards_commands  *)
(* _to_actor".  And shutdown reaches the actor only when the forwarder is  *)
(* gone: it never closes the mailbox under one that carries a command.     *)
AcceptedInOrder ==
  /\ fwd # "done" => handled \o mail \o held \o staged = accepted
  /\ (\E c \in Callers : ipc[c] \in {"down", "returned"}) => fwd = "done"

(* Shutdown returns for every caller although the forwarder may be blocked *)
(* on the full mailbox of an actor that has died without closing it.       *)
IngressShutdownReturns == \A c \in Callers : ipc[c] = "join" ~> ipc[c] = "returned"
=============================================================================
