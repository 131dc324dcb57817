----------------------------- MODULE Scheduler -----------------------------
(***************************************************************************)
(* The editor's WorkScheduler (crates/editor/src/scheduler) and the        *)
(* ExecutionGate it uses (crates/editor/src/execution_gate): interactive   *)
(* and background futures are spawned on Tokio, background ones wait at    *)
(* the gate, and the editor's pump joins what has ended in drain_budget.   *)
(*                                                                         *)
(* schedule, cancel_doc and drain_budget take &mut self, so the editor     *)
(* does one of them at a time; the tasks run on other threads.  The        *)
(* per-kind tokens are created, fired and removed together with the        *)
(* document's token and are not told apart from it; the pending counters   *)
(* have no reader outside the tests.                                       *)
(***************************************************************************)
EXTENDS Naturals, Sequences, FiniteSets, Functions, Notify

CONSTANTS
  Tasks,           \* work items, each scheduled at most once
  Interactive,     \* those with HookPriority::Interactive
  Docs, NoDoc,     \* documents; the doc_id of an item without one
  DropThreshold,   \* BACKGROUND_DROP_THRESHOLD
  LruCap,          \* CANCELLED_DOC_LRU_CAP
  MaxCompletions   \* DrainBudget::max_completions

ASSUME SchedulerAssumption ==
  /\ Interactive \subseteq Tasks /\ NoDoc \notin Docs
  /\ {DropThreshold, LruCap, MaxCompletions} \subseteq Nat \ {0}

VARIABLES
  pc, doc, token,           \* per task: where it is, its document and token
  docCancel, fired, made,   \* doc_cancel (0: no entry), fired tokens, tokens made
  cancelledDocs, lru,       \* cancelled_docs and cancelled_docs_order
  inFlight, depth, gate,    \* the gate: two counters and state_notify
  wake,                     \* interactive_notify and background_notify
  ed, left                  \* the editor, in drain_budget; completions left

tokens == <<doc, token, docCancel, fired, made, cancelledDocs, lru>>
vars == <<pc, tokens, inFlight, depth, gate, wake, ed, left>>

Drain == "drain"
Priority(t) == IF t \in Interactive THEN "interactive" ELSE "background"

(* The tasks in a WorkerJoinSet: spawned and not joined.                   *)
Live(t) == pc[t] \notin {"new", "refused", "joined"}
Queue(p) == {t \in Tasks : Live(t) /\ Priority(t) = p}

Goto(t, l) == pc' = [pc EXCEPT ![t] = l]

Init ==
  /\ pc = [t \in Tasks |-> "new"]
  /\ doc = [t \in Tasks |-> NoDoc] /\ token = [t \in Tasks |-> 0]
  /\ docCancel = [d \in Docs |-> 0] /\ fired = {} /\ made = 0
  /\ cancelledDocs = {} /\ lru = <<>>
  /\ inFlight = 0 /\ depth = 0 /\ gate = New(Tasks)
  /\ wake = [p \in {"interactive", "background"} |-> New({Drain})]
  /\ ed = "idle" /\ left = 0
-----------------------------------------------------------------------------
\* Mutant of doc_token: every item gets a token of its own.
doc_token_fresh(d) ==
  /\ made' = made + 1
  /\ docCancel' = [docCancel EXCEPT ![d] = made']

(* doc_token: the document's token, made when there is none.               *)
doc_token(d) ==
  /\ made' = IF docCancel[d] = 0 THEN made + 1 ELSE made
  /\ docCancel' = [docCancel EXCEPT ![d] = IF @ = 0 THEN made' ELSE @]

(* schedule: refused for a cancelled document or with too much backlog ... *)
ScheduleRefused(t) ==
  /\ ed = "idle" /\ pc[t] = "new" /\ Goto(t, "refused")
  /\ \/ cancelledDocs # {}
     \/ t \notin Interactive /\ Cardinality(Queue("background")) >= DropThreshold
  /\ UNCHANGED <<tokens, inFlight, depth, gate, wake, ed, left>>

(* ... else spawned.                                                       *)
Spawn(t, d) ==
  /\ ed = "idle" /\ pc[t] = "new" /\ d \notin cancelledDocs
  /\ t \in Interactive \/ Cardinality(Queue("background")) < DropThreshold
  /\ doc' = [doc EXCEPT ![t] = d]
  /\ \/ d = NoDoc /\ UNCHANGED <<token, made, docCancel>>
     \/ d # NoDoc /\ doc_token(d) /\ token' = [token EXCEPT ![t] = docCancel'[d]]
  /\ \/ t \in Interactive /\ inFlight' = inFlight + 1 /\ Goto(t, "run")
     \/ t \notin Interactive /\ Goto(t, "gate") /\ UNCHANGED inFlight
  /\ UNCHANGED <<fired, cancelledDocs, lru, depth, gate, wake, ed, left>>

mark_doc_cancelled(d) ==
  LET order == IF d \in cancelledDocs THEN lru ELSE Append(lru, d)
      out == Len(order) > LruCap
  IN  /\ lru' = IF out THEN Tail(order) ELSE order
      /\ cancelledDocs' = (cancelledDocs \cup {d}) \ (IF out THEN {Head(order)} ELSE {})

CancelDoc(d) ==
  /\ ed = "idle"
  /\ fired' = fired \cup ({docCancel[d]} \ {0}) /\ docCancel' = [docCancel EXCEPT ![d] = 0]
  /\ mark_doc_cancelled(d)
  /\ UNCHANGED <<pc, doc, token, made, inFlight, depth, gate, wake, ed, left>>
-----------------------------------------------------------------------------
(* ExecutionGate::wait_for_background, in a background task.               *)
TaskRest == UNCHANGED <<tokens, depth, wake, ed, left>>

\* Mutant of GateCreate: the future is created when it is awaited.
GateCreateLate(t) ==
  /\ pc[t] = "gate" /\ Goto(t, "depth") /\ TaskRest /\ UNCHANGED <<inFlight, gate>>

GateCreate(t) ==
  /\ pc[t] = "gate" /\ Goto(t, "depth")
  /\ gate' = Created(gate, t)
  /\ TaskRest /\ UNCHANGED inFlight

GateDepth(t) ==
  /\ pc[t] = "depth"
  /\ \/ depth > 0 /\ Goto(t, "run") /\ gate' \in Dropped(gate, t)
     \/ depth = 0 /\ Goto(t, "count") /\ UNCHANGED gate
  /\ TaskRest /\ UNCHANGED inFlight

GateCount(t) ==
  /\ pc[t] = "count"
  /\ \/ inFlight = 0 /\ Goto(t, "run") /\ gate' \in Dropped(gate, t)
     \/ inFlight > 0 /\ Goto(t, "await") /\ UNCHANGED gate
  /\ TaskRest /\ UNCHANGED inFlight

GatePark(t) ==
  /\ pc[t] = "await" /\ ~Ready(gate, t) /\ gate.fut[t] # "waiting"
  /\ gate' = Registered(gate, t)
  /\ TaskRest /\ UNCHANGED <<pc, inFlight>>

GateWake(t) ==
  /\ pc[t] = "await" /\ Ready(gate, t) /\ Goto(t, "gate")
  /\ gate' = Polled(gate, t)
  /\ TaskRest /\ UNCHANGED inFlight

(* schedule_inner: the future ends (or panics), or the token is fired.     *)
AfterRun(t) == Goto(t, IF t \in Interactive THEN "guard" ELSE "notify")

Finish(t) ==
  /\ pc[t] = "run" /\ token[t] \notin fired /\ AfterRun(t)
  /\ TaskRest /\ UNCHANGED <<inFlight, gate>>

Cancelled(t) ==
  /\ pc[t] = "run" /\ token[t] \in fired /\ AfterRun(t)
  /\ TaskRest /\ UNCHANGED <<inFlight, gate>>

(* The locals are dropped: InteractiveGuard, then NotifyOnDrop; only then  *)
(* does the JoinSet see the end of the task.                               *)
GuardLeave(t) ==
  /\ pc[t] = "guard" /\ Goto(t, "guard_notify")
  /\ inFlight' = inFlight - 1
  /\ TaskRest /\ UNCHANGED gate

GuardNotify(t) ==
  /\ pc[t] = "guard_notify" /\ Goto(t, "notify")
  /\ gate' = NotifyWaiters(gate)
  /\ TaskRest /\ UNCHANGED inFlight

NotifyOnDrop(t) ==
  /\ pc[t] = "notify" /\ Goto(t, "ending")
  /\ \E n \in NotifyOne(wake[Priority(t)]) : wake' = [wake EXCEPT ![Priority(t)] = n]
  /\ UNCHANGED <<tokens, inFlight, depth, gate, ed, left>>

Ended(t) ==
  /\ pc[t] = "ending" /\ Goto(t, "ended")
  /\ TaskRest /\ UNCHANGED <<inFlight, gate>>

TaskStep(t) ==
  \/ GateCreate(t) \/ GateDepth(t) \/ GateCount(t) \/ GatePark(t) \/ GateWake(t)
  \/ Cancelled(t) \/ GuardLeave(t) \/ GuardNotify(t) \/ NotifyOnDrop(t) \/ Ended(t)
-----------------------------------------------------------------------------
(* drain_budget.  `ed` is the queue being drained, or a step around it.    *)
DrainRest == UNCHANGED <<tokens, inFlight>>

\* Mutant of has_pending: only interactive work counts.
has_pending_interactive == Queue("interactive") # {}

has_pending == Queue("interactive") # {} \/ Queue("background") # {}

DrainStart ==
  /\ ed = "idle" /\ has_pending
  /\ ed' = "interactive" /\ left' = MaxCompletions
  /\ DrainRest /\ UNCHANGED <<pc, depth, gate, wake>>

Looping(p) == ed = p /\ wake[p].fut[Drain] = "none"
EndedOf(p) == {t \in Queue(p) : pc[t] = "ended"}

(* try_join_next                                                           *)
DrainJoin(p) ==
  /\ Looping(p) /\ left > 0
  /\ \E t \in EndedOf(p) : Goto(t, "joined")
  /\ left' = left - 1
  /\ DrainRest /\ UNCHANGED <<depth, gate, wake, ed>>

DrainWait(p) ==
  /\ Looping(p) /\ left > 0 /\ EndedOf(p) = {} /\ Queue(p) # {}
  /\ wake' = [wake EXCEPT ![p] = Created(@, Drain)]
  /\ DrainRest /\ UNCHANGED <<pc, depth, gate, ed, left>>

DrainPark(p) ==
  /\ wake[p].fut[Drain] = "created" /\ ~Ready(wake[p], Drain)
  /\ wake' = [wake EXCEPT ![p] = Registered(@, Drain)]
  /\ DrainRest /\ UNCHANGED <<pc, depth, gate, ed, left>>

DrainWake(p) ==
  /\ Ready(wake[p], Drain)
  /\ wake' = [wake EXCEPT ![p] = Polled(@, Drain)]
  /\ DrainRest /\ UNCHANGED <<pc, depth, gate, ed, left>>

\* Mutant of PhaseTwo: background work is drained while interactive work is
\* still pending.
PhaseTwoAnyway == left > 0

PhaseTwo == Queue("interactive") = {} /\ left > 0

(* The end of a loop: on to the background queue, or the drain returns and *)
(* drops the BackgroundOpenGuard.                                          *)
DrainLeave(p) ==
  /\ \/ p = "interactive" /\ PhaseTwo /\ ed' = "open" /\ UNCHANGED depth
     \/ p = "interactive" /\ ~PhaseTwo /\ ed' = "idle" /\ UNCHANGED depth
     \/ p = "background" /\ ed' = "idle" /\ depth' = depth - 1
  /\ DrainRest /\ UNCHANGED <<pc, gate, left>>

DrainDone(p) ==
  /\ Looping(p) /\ (left = 0 \/ Queue(p) = {})
  /\ DrainLeave(p) /\ UNCHANGED wake

\* Mutant of DrainDeadline: the wait has no deadline.
DrainDeadlineNever(p) == FALSE /\ UNCHANGED vars

DrainDeadline(p) ==
  /\ ed = p /\ wake[p].fut[Drain] = "waiting" /\ DrainLeave(p)
  /\ \E n \in Dropped(wake[p], Drain) : wake' = [wake EXCEPT ![p] = n]

(* open_background_scope                                                   *)
OpenScope ==
  /\ ed = "open" /\ ed' = "opened" /\ depth' = depth + 1
  /\ DrainRest /\ UNCHANGED <<pc, gate, wake, left>>

OpenNotify ==
  /\ ed = "opened" /\ ed' = "background" /\ gate' = NotifyWaiters(gate)
  /\ DrainRest /\ UNCHANGED <<pc, depth, wake, left>>

DrainStep ==
  \/ DrainStart \/ OpenScope \/ OpenNotify
  \/ \E p \in {"interactive", "background"} :
       DrainJoin(p) \/ DrainWait(p) \/ DrainPark(p) \/ DrainWake(p) \/ DrainDone(p) \/ DrainDeadline(p)

Next ==
  \/ \E t \in Tasks : \/ ScheduleRefused(t) \/ \E d \in Docs \cup {NoDoc} : Spawn(t, d)
                      \/ TaskStep(t) \/ Finish(t)
  \/ \E d \in Docs : CancelDoc(d)
  \/ DrainStep

Spec == Init /\ [][Next]_vars

(* Tokio polls the tasks and its timers expire, and the pump keeps calling *)
(* drain_budget.  Nothing is assumed of the futures: they may hang.        *)
FairSpec == Spec /\ WF_vars(DrainStep) /\ \A t \in Tasks : WF_vars(TaskStep(t))
-----------------------------------------------------------------------------
(* The books of the scheduler are exact: the gate counts the interactive   *)
(* tasks that hold a guard (its debug_asserts never fire), the scope is    *)
(* open exactly while a drain is in its second phase, the background queue *)
(* respects the threshold, the LRU set of cancelled documents is the set   *)
(* of its queue, and ("Gate for enforcing strict ordering between           *)
(* interactive and background tasks") while a drain holds the gate open    *)
(* for background work no interactive task is pending.                     *)
SchedulerTypeOK ==
  /\ inFlight = Cardinality({t \in Interactive : pc[t] \in {"run", "guard"}})
  /\ depth = IF ed \in {"opened", "background"} THEN 1 ELSE 0
  /\ depth > 0 => Queue("interactive") = {}
  /\ Cardinality(Queue("background")) <= DropThreshold
  /\ cancelledDocs = Range(lru) /\ IsInjective(lru) /\ Len(lru) <= LruCap
  /\ gate \in NotifyType(Tasks) /\ ~gate.permit /\ left \in 0..MaxCompletions

(* "Register interest before checking condition to avoid race": a          *)
(* background task parked at a gate that would let it through has a wake-  *)
(* up on the way.                                                          *)
GateWaiterCovered ==
  (depth > 0 \/ inFlight = 0) /\ (\E t \in Tasks : gate.fut[t] = "waiting") =>
    ed = "opened" \/ \E t \in Tasks : pc[t] = "guard_notify"

(* "Scheduled futures for this doc_id will be cancelled when cancel_doc()  *)
(* is called": every task that may still run holds a token that is fired   *)
(* or that the next cancel_doc of its document will fire, and the first is *)
(* the case while the document is in the cancelled set.                    *)
CancelReaches ==
  \A t \in Tasks : Live(t) /\ doc[t] # NoDoc =>
    /\ token[t] \in fired \cup {docCancel[doc[t]]}
    /\ doc[t] \in cancelledDocs => token[t] \in fired

(* A drain returns at its deadline, also when a task hangs, so that the    *)
(* editor's pump is never blocked by its work.                             *)
DrainReturns == ed # "idle" ~> ed = "idle"

(* In the long run nothing is pending unless a future still runs: no task  *)
(* is left at the gate, and no completion in a JoinSet, although a drain   *)
(* may sleep through it (NotifyOnDrop runs before the task has ended) and  *)
(* its budget may be used up by other tasks.                               *)
WorkCompletes == <>[]((\E t \in Tasks : Live(t)) => \E t \in Tasks : pc[t] = "run")
=============================================================================
