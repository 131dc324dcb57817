------------------------------- MODULE Actor -------------------------------
(***************************************************************************)
(* A supervised actor (crates/worker/src/supervisor/mod.rs): the           *)
(* supervisor task of spawn_supervised_actor, the instances it runs one    *)
(* after the other (run_actor_instance), the handle's send, cancel and     *)
(* shutdown, and the join controller that concurrent shutdowns share.      *)
(*                                                                         *)
(* The mailbox is the one of Mailbox.tla in short: the receiver looks      *)
(* ("check"), commits to waiting ("gap") and parks; a push leaves a permit *)
(* or wakes it, a close only wakes a receiver that is already parked.      *)
(* Commands are numbered by send.  The per-generation token is a child of  *)
(* `cancelled` and is otherwise cancelled only between two instances, so   *)
(* an instance cannot tell it from `cancelled`.  The exit reasons          *)
(* StartupFailed, HandlerFailed and Panicked, which restart_delay treats   *)
(* alike, are "Failed".                                                    *)
(***************************************************************************)
EXTENDS Naturals, Sequences, FiniteSets

CONSTANTS
  Callers,       \* tasks that call shutdown
  Modes,         \* the modes they use, a subset of {"Immediate", "Graceful", "Force"}
  CanCancel,     \* the handle is cancelled or dropped at some point
  Capacity,      \* of the mailbox
  MaxRestarts,   \* ActorRestartPolicy::OnFailure; Never behaves as 0
  Backoff,       \* the delay before a restart is not zero
  MaxCalls       \* bound on the sends, shutdowns and cancels together

ASSUME ActorAssumption ==
  /\ Modes \subseteq {"Immediate", "Graceful", "Force"}
  /\ CanCancel \in BOOLEAN /\ Backoff \in BOOLEAN
  /\ Capacity \in Nat \ {0} /\ MaxRestarts \in Nat /\ MaxCalls \in Nat

VARIABLES
  mail, closed, permit, sent,           \* the mailbox
  cancelled, handlePc,                  \* the token; the handle's cancel()
  sup, restarts, lastExit,              \* the supervisor task and ActorState
  inst, reason, taken,                  \* the current instance
  cpc, mode,                            \* the shutdown callers
  joinState, jpc, timed, noted          \* the join controller

J == INSTANCE JoinCtrl WITH finished <- (sup = "done")

mailbox == <<mail, closed, permit, sent>>
supervisor == <<sup, restarts, lastExit>>
instance == <<inst, reason, taken>>
callers == <<cpc, mode, joinState, jpc, timed, noted>>
vars == <<mailbox, cancelled, handlePc, supervisor, instance, callers>>

Init ==
  /\ mail = <<>> /\ closed = FALSE /\ permit = FALSE /\ sent = 0
  /\ cancelled = FALSE /\ handlePc = "idle"
  /\ sup = "loop" /\ restarts = 0 /\ lastExit = "none"
  /\ inst = "none" /\ reason = "none" /\ taken = <<>>
  /\ cpc = [c \in Callers |-> "idle"] /\ mode = [c \in Callers |-> "none"]
  /\ J!JoinInit
-----------------------------------------------------------------------------

(* The handle's users have calls left to make. *)
MayCall ==
  sent + Cardinality({c \in Callers : cpc[c] # "idle"}) + (IF handlePc = "idle" THEN 0 ELSE 1) < MaxCalls

(* ActorHandle::send on a mailbox with room; the permit is for a receiver  *)
(* that has not parked yet.                                                *)
Send ==
  /\ MayCall /\ ~closed /\ Len(mail) < Capacity
  /\ sent' = sent + 1 /\ mail' = Append(mail, sent')
  /\ \/ inst = "parked" /\ inst' = "check" /\ UNCHANGED permit
     \/ inst # "parked" /\ permit' = TRUE /\ UNCHANGED inst
  /\ UNCHANGED <<closed, cancelled, handlePc, supervisor, reason, taken, callers>>

CloseMailbox ==
  /\ closed' = TRUE
  /\ inst' = IF inst = "parked" THEN "check" ELSE inst

(* ActorHandle::cancel and Drop: the token, then close_now, which gives up *)
(* when the mailbox lock is contended.                                     *)
HandleCancel ==
  /\ MayCall /\ CanCancel /\ handlePc = "idle" /\ handlePc' = "close"
  /\ cancelled' = TRUE
  /\ UNCHANGED <<mailbox, supervisor, instance, callers>>

HandleCloseNow ==
  /\ handlePc = "close" /\ handlePc' = "cancelled"
  /\ CloseMailbox \/ UNCHANGED <<closed, inst>>
  /\ UNCHANGED <<mail, permit, sent, cancelled, supervisor, reason, taken, callers>>
-----------------------------------------------------------------------------
(* The supervisor task.                                                    *)
SupCancelled ==
  /\ sup = "loop" /\ cancelled
  /\ sup' = "done" /\ lastExit' = "Cancelled"
  /\ UNCHANGED <<mailbox, cancelled, handlePc, restarts, instance, callers>>

SupProceed ==
  /\ sup = "loop" /\ ~cancelled /\ sup' = "start"
  /\ UNCHANGED <<mailbox, cancelled, handlePc, restarts, lastExit, instance, callers>>

(* The token may be cancelled since the loop looked at it.                 *)
SupStart ==
  /\ sup = "start" /\ sup' = "running"
  /\ inst' = "starting"
  /\ UNCHANGED <<mailbox, cancelled, handlePc, restarts, lastExit, reason, taken, callers>>

SupReap ==
  /\ sup = "running" /\ inst = "exited"
  /\ sup' = "exited" /\ lastExit' = reason
  /\ UNCHANGED <<mailbox, cancelled, handlePc, restarts, instance, callers>>

MayRestart == lastExit = "Failed" /\ restarts < MaxRestarts

SupStop ==
  /\ sup = "exited" /\ (cancelled \/ ~MayRestart)
  /\ sup' = "done"
  /\ UNCHANGED <<mailbox, cancelled, handlePc, restarts, lastExit, instance, callers>>

SupRestart ==
  /\ sup = "exited" /\ ~cancelled /\ MayRestart
  /\ restarts' = restarts + 1
  /\ sup' = IF Backoff THEN "backoff" ELSE "loop"
  /\ UNCHANGED <<mailbox, cancelled, handlePc, lastExit, instance, callers>>

SupBackoff ==
  /\ sup = "backoff"
  /\ sup' = "loop" \/ (cancelled /\ sup' = "done")
  /\ UNCHANGED <<mailbox, cancelled, handlePc, restarts, lastExit, instance, callers>>

SupStep == SupCancelled \/ SupProceed \/ SupStart \/ SupReap \/ SupStop \/ SupRestart \/ SupBackoff
-----------------------------------------------------------------------------
(* run_actor_instance.  Every select is biased towards cancellation: a     *)
(* poll takes the other branch only when the token is not cancelled.       *)
InstGoto(l) ==
  /\ inst' = l
  /\ UNCHANGED <<closed, sent, cancelled, handlePc, supervisor, callers>>

Exit(r) == inst' = "exited" /\ reason' = r
OnStopThenExit(r) == inst' = "stopping" /\ reason' = r
InstRest == UNCHANGED <<mailbox, cancelled, handlePc, supervisor, taken, callers>>

StartOk ==
  /\ inst = "starting" /\ ~cancelled /\ inst' = "check" /\ UNCHANGED reason /\ InstRest

StartFail ==
  /\ inst = "starting" /\ ~cancelled
  /\ Exit("Failed") /\ InstRest

StartCancelled ==
  /\ inst = "starting" /\ cancelled /\ Exit("Cancelled") /\ InstRest

\* Mutant of RecvPop: pop_back in place of pop_front.
RecvPopNewest ==
  /\ inst = "check" /\ ~cancelled /\ mail # <<>>
  /\ mail' = SubSeq(mail, 1, Len(mail) - 1) /\ taken' = Append(taken, mail[Len(mail)])
  /\ InstGoto("handling") /\ UNCHANGED <<permit, reason>>

(* rx.recv(): one look under the lock ...                                  *)
RecvPop ==
  /\ inst = "check" /\ ~cancelled /\ mail # <<>>
  /\ mail' = Tail(mail) /\ taken' = Append(taken, Head(mail))
  /\ InstGoto("handling") /\ UNCHANGED <<permit, reason>>

RecvNone ==
  /\ inst = "check" /\ ~cancelled /\ mail = <<>> /\ closed
  /\ OnStopThenExit("MailboxClosed") /\ InstRest

RecvEmpty ==
  /\ inst = "check" /\ ~cancelled /\ mail = <<>> /\ ~closed
  /\ InstGoto("gap") /\ UNCHANGED <<mail, permit, reason, taken>>

(* ... then notified().await, which a permit completes at once.            *)
RecvPark ==
  /\ inst = "gap"
  /\ InstGoto(IF permit THEN "check" ELSE "parked") /\ permit' = FALSE
  /\ UNCHANGED <<mail, reason, taken>>

\* Mutant of RecvCancelled: the token is looked at between two receives only.
RecvCancelledBetween ==
  /\ inst = "check" /\ cancelled
  /\ OnStopThenExit("Cancelled") /\ InstRest

RecvCancelled ==
  /\ inst \in {"check", "parked"} /\ cancelled
  /\ OnStopThenExit("Cancelled") /\ InstRest

HandleContinue ==
  /\ inst = "handling" /\ ~cancelled /\ inst' = "check" /\ UNCHANGED reason /\ InstRest

HandleExit ==
  /\ inst = "handling" /\ ~cancelled
  /\ OnStopThenExit("Stopped") \/ OnStopThenExit("Failed") \/ Exit("Failed")
  /\ InstRest

HandleCancelled ==
  /\ inst = "handling" /\ cancelled /\ OnStopThenExit("Cancelled") /\ InstRest

OnStop ==
  /\ inst = "stopping"
  /\ Exit(reason) \/ Exit("Failed")
  /\ InstRest

InstPrompt == \/ StartCancelled \/ RecvPop \/ RecvNone \/ RecvEmpty \/ RecvPark
              \/ RecvCancelled \/ HandleCancelled \/ OnStop
InstUser == StartOk \/ StartFail \/ HandleContinue \/ HandleExit
-----------------------------------------------------------------------------
(* ActorHandle::shutdown and shutdown_graceful_or_force.                   *)
CallGoto(c, l) == cpc' = [cpc EXCEPT ![c] = l]

Shutdown(c) ==
  /\ MayCall /\ cpc[c] = "idle"
  /\ \E m \in Modes :
       /\ mode' = [mode EXCEPT ![c] = m]
       /\ CallGoto(c, IF m = "Immediate" THEN "close_forever" ELSE "close_timed")
       /\ cancelled' = (cancelled \/ m = "Immediate")
  /\ UNCHANGED <<mailbox, handlePc, supervisor, instance, joinState, jpc, timed, noted>>

ShutdownClose(c) ==
  /\ cpc[c] \in {"close_forever", "close_timed"} /\ CallGoto(c, "joining")
  /\ CloseMailbox /\ J!Join(c, cpc[c] = "close_timed")
  /\ UNCHANGED <<mail, permit, sent, cancelled, handlePc, supervisor, reason, taken, mode>>

ShutdownJoin(c) ==
  /\ cpc[c] = "joining" /\ J!JoinProgress(c)
  /\ UNCHANGED <<mailbox, cancelled, handlePc, supervisor, instance, cpc, mode>>

ShutdownExpire(c) ==
  /\ cpc[c] = "joining" /\ J!JoinExpire(c)
  /\ UNCHANGED <<mailbox, cancelled, handlePc, supervisor, instance, cpc, mode>>

ShutdownDone(c) ==
  /\ cpc[c] = "joining" /\ jpc[c] = "true" /\ CallGoto(c, "completed")
  /\ UNCHANGED <<mailbox, cancelled, handlePc, supervisor, instance, mode, joinState, jpc, timed, noted>>

\* Mutant of ShutdownTimedOut: the force path waits without cancelling.
ShutdownTimedOutNoCancel(c) ==
  /\ cpc[c] = "joining" /\ jpc[c] = "false"
  /\ CallGoto(c, IF mode[c] = "Force" THEN "close_forever" ELSE "timed_out")
  /\ UNCHANGED <<mailbox, cancelled, handlePc, supervisor, instance, mode, joinState, jpc, timed, noted>>

(* A graceful shutdown that timed out cancels; the two-phase one then      *)
(* shuts down immediately.                                                 *)
ShutdownTimedOut(c) ==
  /\ cpc[c] = "joining" /\ jpc[c] = "false" /\ cancelled' = TRUE
  /\ CallGoto(c, IF mode[c] = "Force" THEN "close_forever" ELSE "timed_out")
  /\ UNCHANGED <<mailbox, handlePc, supervisor, instance, mode, joinState, jpc, timed, noted>>

CallerStep(c) == ShutdownClose(c) \/ ShutdownJoin(c) \/ ShutdownDone(c) \/ ShutdownTimedOut(c)

Next ==
  \/ Send \/ HandleCancel \/ HandleCloseNow
  \/ SupStep \/ InstPrompt \/ InstUser
  \/ \E c \in Callers : Shutdown(c) \/ CallerStep(c) \/ ShutdownExpire(c)

Spec == Init /\ [][Next]_vars

(* Tokio polls every runnable task and its timers expire.  Nothing is      *)
(* assumed of on_start and handle: an actor's code may hang.               *)
Fairness ==
  /\ WF_vars(SupStep) /\ WF_vars(InstPrompt) /\ WF_vars(HandleCloseNow)
  /\ \A c \in Callers : WF_vars(CallerStep(c)) /\ WF_vars(ShutdownExpire(c))

FairSpec == Spec /\ Fairness
-----------------------------------------------------------------------------
(* A shutdown that reports `completed` returns after the supervisor and    *)
(* its last instance are gone and the exit has been recorded, also when    *)
(* several callers race and leaders give the handle back: in the join      *)
(* controller they share one of them holds the handle while the state is   *)
(* Joining, `true` is returned only for a finished task, and a follower    *)
(* that was not woken still has somebody to wake it.                       *)
CompletedMeansStopped ==
  /\ \A c \in Callers : cpc[c] = "completed" =>
       sup = "done" /\ inst \in {"none", "exited"} /\ lastExit # "none"
  /\ J!OneLeader /\ J!JoinedMeansFinished /\ J!FollowerCovered

(* Commands reach the instances in send order, none twice and none         *)
(* skipped, across restarts: what was taken and what waits is what was     *)
(* sent, and the exit MailboxClosed leaves nothing waiting.  (A command    *)
(* whose handler failed is not redelivered.)                               *)
TakenInOrder ==
  /\ taken \o mail = [i \in 1..sent |-> i]
  /\ lastExit = "MailboxClosed" => closed /\ mail = <<>>

(* cancel() stops the actor, whatever its handler is doing.                *)
CancelStops == cancelled ~> sup = "done"

(* Every shutdown returns, although handlers may hang and the wake-up of a *)
(* close may be lost: the deadline expires, the token is cancelled, and    *)
(* the join that follows is completed.                                     *)
ShutdownReturns ==
  \A c \in Callers : cpc[c] # "idle" ~> cpc[c] \in {"completed", "timed_out"}
=============================================================================
