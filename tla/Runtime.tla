------------------------------ MODULE Runtime ------------------------------
(***************************************************************************)
(* The editor's event loop (crates/editor/src/runtime): events are applied *)
(* one at a time, each followed by a maintenance cycle of a few rounds of  *)
(* phases, the last of which drains the queue of deferred work.  Two       *)
(* clients of the loop are modelled with it because they race with it: the *)
(* Nu hook pipeline (crates/editor/src/nu), whose evaluations and timers   *)
(* run as Tokio tasks and report by message, and the workspace/applyEdit   *)
(* requests of a language server, which time out.                          *)
(*                                                                         *)
(* An invocation is abstracted to what it may do to this state.  One       *)
(* schedule key stands for all of them, as keys do not interact.           *)
(***************************************************************************)
EXTENDS Naturals, Sequences, FiniteSets

CONSTANTS
  Kinds,        \* kinds of hook events
  Edits,        \* workspace/applyEdit requests
  MaxRounds,    \* MAX_PUMP_ROUNDS
  MaxItems,     \* MAX_RUNTIME_WORK_ITEMS_PER_ROUND
  MaxHooks,     \* MAX_PENDING_NU_HOOKS
  MaxRestarts,  \* restarts of the Nu actor
  MaxEvents,    \* bound on the events submitted
  MaxEffects    \* bound on what invocations do: defer, reload, schedule, cancel

ASSUME RuntimeAssumption ==
  {MaxRounds, MaxItems, MaxHooks} \subseteq Nat \ {0} /\ MaxRestarts \in Nat

VARIABLES
  phase, round, progress, drained, quit,   \* the maintenance cycle
  events, nextCause,    \* RuntimeKernel
  cycle, active,        \* cause of the event being served; the active cause id
  work, cur,            \* RuntimeWorkQueue; the workspace edit being applied
  nu,                   \* NuCoordinatorState
  evals, restarts,      \* tasks of kick_nu_hook_eval; restarts of the Nu actor
  msgs,                 \* the editor's message channel
  chan, answer, effect, \* the apply-edit channel; what the server was told of
                        \* an edit, and what became of it in the workspace
  overran, skipped,     \* history: edits that timed out while they were being
                        \* applied; whether this cycle has skipped a stale one
  budget                \* what is left of MaxEffects

loop == <<round, progress, drained, quit, cycle, skipped>>
kernel == <<events, nextCause>>
tasks == <<evals, restarts>>
edits == <<chan, answer, effect, overran>>
vars == <<phase, loop, kernel, active, work, cur, nu, tasks, msgs, edits, budget>>

NoCause == 0
NoToken == <<0, 0>>
NoEdit == [edit |-> "none", cause |-> NoCause]
Plain(c) == [kind |-> "plain", cause |-> c]

Init ==
  /\ phase = "idle" /\ round = 0 /\ progress = FALSE /\ drained = 0 /\ quit = "no"
  /\ events = <<>> /\ nextCause = 1 /\ cycle = NoCause /\ active = NoCause
  /\ work = <<>> /\ cur = NoEdit
  /\ nu = [decl |-> TRUE, epoch |-> 1, seq |-> 0, gen |-> 0, hooks |-> <<>>,
           inFlight |-> NoToken, sched |-> 0, asleep |-> FALSE, schedSeq |-> 0]
  /\ evals = {} /\ restarts = 0 /\ msgs = <<>>
  /\ chan = <<>> /\ answer = [e \in Edits |-> "none"] /\ effect = [e \in Edits |-> "no"]
  /\ overran = {} /\ skipped = FALSE /\ budget = MaxEffects
-----------------------------------------------------------------------------
(* NuCoordinatorState.  A schedule is its token (0: none) and whether its  *)
(* timer still sleeps: an abort after it has fired has no effect.          *)
cancel_schedule(n) == [n EXCEPT !.sched = 0, !.asleep = FALSE]

schedule_macro(n) ==
  [n EXCEPT !.schedSeq = @ + 1, !.sched = n.schedSeq + 1, !.asleep = TRUE]

set_runtime(n, decl) ==
  [cancel_schedule(n) EXCEPT !.decl = decl, !.epoch = @ + 1, !.seq = 0,
                             !.hooks = <<>>, !.inFlight = NoToken]

(* Consecutive events of a kind are one; beyond the cap the oldest goes.   *)
enqueue_hook(q, k) ==
  IF q # <<>> /\ q[Len(q)] = k THEN q
  ELSE Append(IF Len(q) >= MaxHooks THEN Tail(q) ELSE q, k)

enqueue_nu_hook(n, k, inHookDrain) ==
  IF inHookDrain \/ ~n.decl THEN n ELSE [n EXCEPT !.hooks = enqueue_hook(@, k)]

\* Mutant of complete_hook_eval: the epoch is not compared.
complete_hook_eval_by_seq(n, token) == n.inFlight # NoToken /\ n.inFlight[2] = token[2]

complete_hook_eval(n, token) == n.inFlight = token

enqueue_runtime_nu_invocation(n, c) == Append(work, [kind |-> "nu", scope |-> n.gen, cause |-> c])

\* Mutant of remove_scope: the generation after the stop is cleared.
remove_scope_next(q, gen) ==
  SelectSeq(q, LAMBDA w : ~(w.kind = "nu" /\ w.scope = gen + 1))

remove_scope(q, gen) ==
  LET kept[i \in 0..Len(q)] ==
        IF i = 0 THEN <<>>
        ELSE IF q[i].kind = "nu" /\ q[i].scope = gen THEN kept[i - 1] ELSE Append(kept[i - 1], q[i])
  IN  kept[Len(q)]
-----------------------------------------------------------------------------
(* What an invocation may do: defer another one, reload the Nu runtime,    *)
(* set or cancel a schedule, or none of these; its post hook follows.      *)
Outcomes(c) ==
  {[nu |-> nu, work |-> work, cost |-> 0], [nu |-> nu, work |-> Append(work, Plain(c)), cost |-> 1],
   [nu |-> schedule_macro(nu), work |-> work, cost |-> 1],
   [nu |-> cancel_schedule(nu), work |-> work, cost |-> 1]}
    \cup {[nu |-> set_runtime(nu, d), work |-> work, cost |-> 1] : d \in BOOLEAN}

(* c is the cause of the invocation; a drained one has just been popped.   *)
(* A quit ends the drain at once, that of an event after the round.        *)
run_invocation(c, popped, inHookDrain) ==
  \/ \E o \in Outcomes(c), k \in Kinds :
       /\ o.cost <= budget /\ budget' = budget - o.cost
       /\ nu' = enqueue_nu_hook(o.nu, k, inHookDrain)
       /\ work' = IF popped THEN Tail(o.work) ELSE o.work
       /\ restarts' = IF o.nu.epoch # nu.epoch THEN 0 ELSE restarts
       /\ UNCHANGED quit
  \/ /\ quit' = IF popped THEN "now" ELSE "requested"
     /\ work' = IF popped THEN Tail(work) ELSE work
     /\ UNCHANGED <<nu, budget, restarts>>
-----------------------------------------------------------------------------
(* Frontends submit events between drains.                                 *)
Submit ==
  /\ phase = "idle" /\ nextCause <= MaxEvents
  /\ events' = Append(events, nextCause) /\ nextCause' = nextCause + 1
  /\ UNCHANGED <<phase, loop, active, work, cur, nu, tasks, msgs, edits, budget>>

StartCycle(c) ==
  /\ phase' = "tick" /\ round' = 1 /\ progress' = FALSE /\ drained' = 0
  /\ cycle' = c /\ active' = c /\ skipped' = FALSE

(* drain_until_idle: an event and its cycle, or idle maintenance.          *)
TakeEvent ==
  /\ phase = "idle" /\ events # <<>> /\ events' = Tail(events)
  /\ StartCycle(Head(events)) /\ run_invocation(Head(events), FALSE, FALSE)
  /\ UNCHANGED <<nextCause, cur, evals, msgs, edits>>

IdleMaintenance ==
  /\ phase = "idle" /\ StartCycle(NoCause)
  /\ UNCHANGED <<quit, kernel, work, cur, nu, tasks, msgs, edits, budget>>

(* The editor's tick queues the edits requested meanwhile.                 *)
Tick ==
  /\ phase = "tick" /\ phase' = "messages"
  /\ work' = work \o [i \in DOMAIN chan |-> [kind |-> "edit", edit |-> chan[i], cause |-> active]]
  /\ chan' = <<>>
  /\ UNCHANGED <<loop, kernel, active, cur, nu, tasks, msgs, answer, effect, overran, budget>>

(* apply_hook_effect_batch: a stop drops the queued hooks and the queued   *)
(* work of the hooks before it; otherwise dispatches are queued.  Effects  *)
(* before a stop, such as a schedule, have been applied.                   *)
apply_hook_effect_batch(n, result) ==
  \/ /\ result = "stop"
     /\ nu' = [n EXCEPT !.gen = @ + 1, !.hooks = <<>>]
     /\ work' = remove_scope(work, n.gen)
  \/ result = "dispatch" /\ nu' = n /\ work' = enqueue_runtime_nu_invocation(n, active)
  \/ result = "schedule" /\ nu' = schedule_macro(n) /\ UNCHANGED work
  \/ result = "err" /\ nu' = n /\ UNCHANGED work

HookDone(m) ==
  /\ m.kind = "done"
  /\ \/ /\ complete_hook_eval(nu, m.token)
        /\ apply_hook_effect_batch([nu EXCEPT !.inFlight = NoToken], m.result)
     \/ ~complete_hook_eval(nu, m.token) /\ UNCHANGED <<nu, work>>

ScheduleFired(m) ==
  /\ m.kind = "fired"
  /\ \/ /\ nu.sched = m.token /\ nu' = cancel_schedule(nu)
        /\ work' = enqueue_runtime_nu_invocation(nu, active)
     \/ nu.sched # m.token /\ UNCHANGED <<nu, work>>

DrainMessage ==
  /\ phase = "messages" /\ msgs # <<>>
  /\ HookDone(Head(msgs)) \/ ScheduleFired(Head(msgs))
  /\ msgs' = Tail(msgs) /\ progress' = TRUE
  /\ UNCHANGED <<phase, round, drained, quit, cycle, skipped, kernel, active, cur, tasks, edits,
                 budget>>

(* kick_nu_hook_eval, in the phase after the messages.  The scheduler      *)
(* phase that follows (module Scheduler) leaves this state alone.          *)
Kick ==
  /\ phase = "messages" /\ msgs = <<>> /\ phase' = "work" /\ drained' = 0
  /\ \/ /\ nu.inFlight = NoToken /\ nu.hooks # <<>>
        /\ LET token == <<nu.epoch, nu.seq>>
           IN  /\ nu' = [nu EXCEPT !.hooks = Tail(@), !.seq = @ + 1, !.inFlight = token]
               /\ evals' = evals \cup {[token |-> token, st |-> "start"]}
     \/ (nu.inFlight # NoToken \/ nu.hooks = <<>>) /\ UNCHANGED <<nu, evals>>
  /\ UNCHANGED <<round, progress, quit, cycle, skipped, kernel, active, work, cur, restarts, msgs,
                 edits, budget>>
-----------------------------------------------------------------------------
(* drain_runtime_work_report.                                              *)
Pop ==
  /\ phase = "work" /\ work # <<>> /\ drained < MaxItems /\ quit # "now"
  /\ drained' = drained + 1 /\ progress' = TRUE

RunItem ==
  /\ Pop /\ Head(work).kind # "edit"
  /\ run_invocation(Head(work).cause, TRUE, Head(work).kind = "nu")
  /\ UNCHANGED <<phase, round, cycle, skipped, kernel, active, cur, evals, msgs, edits>>

\* Mutant of Stale: neither the deadline nor the closed channel is looked at.
StaleNever(e) == FALSE

(* The server has given up, or is about to.                                *)
Stale(e) == answer[e] \in {"late", "timeout"}

(* A stale edit is refused; `continue` leaves its cause active.            *)
SkipEdit ==
  /\ Pop /\ Head(work).kind = "edit" /\ Stale(Head(work).edit)
  /\ answer' = [answer EXCEPT ![Head(work).edit] = IF @ = "late" THEN "failed" ELSE @]
  /\ work' = Tail(work) /\ active' = Head(work).cause /\ skipped' = TRUE
  /\ UNCHANGED <<phase, round, quit, cycle, kernel, cur, nu, tasks, msgs, chan, effect, overran,
                 budget>>

(* apply_workspace_edit awaits ...                                         *)
ApplyEdit ==
  /\ Pop /\ Head(work).kind = "edit" /\ ~Stale(Head(work).edit)
  /\ phase' = "apply" /\ work' = Tail(work) /\ active' = Head(work).cause
  /\ cur' = [edit |-> Head(work).edit, cause |-> active]
  /\ UNCHANGED <<round, quit, cycle, skipped, kernel, nu, tasks, msgs, edits, budget>>

(* ... and succeeds, or fails before, amid or after its changes.           *)
EditDone ==
  /\ phase = "apply" /\ phase' = "work" /\ active' = cur.cause /\ cur' = NoEdit
  /\ \E r \in {"applied", "failed"}, f \in {"no", "partial", "full"} :
       /\ r = "applied" => f = "full"
       /\ effect' = [effect EXCEPT ![cur.edit] = f]
       /\ answer' = [answer EXCEPT ![cur.edit] = IF @ = "timeout" THEN @ ELSE r]
  /\ UNCHANGED <<loop, kernel, work, nu, tasks, msgs, chan, overran, budget>>

(* Another round follows one that made progress; the filesystem and the    *)
(* scheduler phases may have made some, too.                               *)
EndRound ==
  /\ phase = "work" /\ (work = <<>> \/ drained = MaxItems \/ quit = "now") /\ drained' = 0
  /\ \/ quit # "no" /\ phase' = "quit" /\ UNCHANGED <<round, progress, cycle, active, skipped>>
     \/ /\ quit = "no" /\ round < MaxRounds
        /\ phase' = "tick" /\ round' = round + 1 /\ progress' = FALSE
        /\ UNCHANGED <<cycle, active, skipped>>
     \/ /\ quit = "no" /\ (~progress \/ round = MaxRounds)
        /\ phase' = "idle" /\ round' = 0 /\ progress' = FALSE
        /\ cycle' = NoCause /\ active' = NoCause /\ skipped' = FALSE
  /\ UNCHANGED <<quit, kernel, work, cur, nu, tasks, msgs, edits, budget>>

PumpStep ==
  \/ TakeEvent \/ IdleMaintenance \/ Tick \/ DrainMessage \/ Kick
  \/ RunItem \/ SkipEdit \/ ApplyEdit \/ EditDone \/ EndRound
-----------------------------------------------------------------------------
(* The task of a hook evaluation: NuExecutor::run and the Nu actor.  The   *)
(* executor of an earlier epoch is closed and cancelled.                   *)
TaskRest == UNCHANGED <<phase, loop, kernel, active, work, cur, nu, edits, budget>>
Current(e) == e.token[1] = nu.epoch
ActorUp == restarts <= MaxRestarts

Report(e, result) ==
  /\ evals' = evals \ {e}
  /\ msgs' = Append(msgs, [kind |-> "done", token |-> e.token, result |-> result])

Advance(e, st) ==
  /\ evals' = (evals \ {e}) \cup {[e EXCEPT !.st = st]}
  /\ UNCHANGED <<restarts, msgs>>

EvalSend(e) ==
  /\ e.st = "start" /\ TaskRest
  /\ \/ Current(e) /\ Advance(e, "sent")
     \/ ~Current(e) /\ Report(e, "err") /\ UNCHANGED restarts

(* A job that the actor had not taken when it was cancelled, or died,      *)
(* stays in the mailbox, and its task waits.                               *)
EvalTake(e) ==
  e.st = "sent" /\ Current(e) /\ ActorUp /\ Advance(e, "running") /\ TaskRest

EvalCancelled(e) ==
  e.st = "running" /\ ~Current(e) /\ Report(e, "err") /\ UNCHANGED restarts /\ TaskRest


(* The script ends; a panic is also a failure of the actor.                *)
EvalEnd(e) ==
  /\ e.st = "running" /\ Current(e) /\ TaskRest
  /\ \/ \E r \in {"stop", "dispatch", "err"} : Report(e, r) /\ UNCHANGED restarts
     \/ nu.schedSeq < MaxEffects /\ Report(e, "schedule") /\ UNCHANGED restarts
     \/ Report(e, "err") /\ restarts' = restarts + 1

TimerFire ==
  /\ nu.asleep /\ nu' = [nu EXCEPT !.asleep = FALSE]
  /\ msgs' = Append(msgs, [kind |-> "fired", token |-> nu.sched])
  /\ UNCHANGED <<phase, loop, kernel, active, work, cur, tasks, edits, budget>>

(* handle_workspace_apply_edit: the deadline it hands over passes before   *)
(* its own timeout.                                                        *)
EditRest == UNCHANGED <<phase, loop, kernel, active, work, cur, nu, tasks, msgs, effect, budget>>

EditRequest(e) ==
  /\ answer[e] = "none" /\ answer' = [answer EXCEPT ![e] = "waiting"]
  /\ chan' = Append(chan, e) /\ EditRest /\ UNCHANGED overran

EditDeadline(e) ==
  /\ answer[e] = "waiting" /\ answer' = [answer EXCEPT ![e] = "late"]
  /\ EditRest /\ UNCHANGED <<chan, overran>>

EditTimeout(e) ==
  /\ answer[e] = "late" /\ answer' = [answer EXCEPT ![e] = "timeout"]
  /\ overran' = IF cur.edit = e THEN overran \cup {e} ELSE overran
  /\ EditRest /\ UNCHANGED chan

EvalStep == \E e \in evals : EvalSend(e) \/ EvalTake(e) \/ EvalCancelled(e)

Next ==
  \/ Submit \/ PumpStep \/ EvalStep \/ TimerFire \/ \E e \in evals : EvalEnd(e)
  \/ \E e \in Edits : EditRequest(e) \/ EditDeadline(e) \/ EditTimeout(e)

Spec == Init /\ [][Next]_vars

(* The frontend keeps draining and Tokio polls the tasks; a script may run *)
(* for ever.                                                               *)
FairSpec == Spec /\ WF_vars(PumpStep) /\ WF_vars(EvalStep)
-----------------------------------------------------------------------------
(* The books of the loop are exact: queued Nu work belongs to the current  *)
(* stop scope (a stop removes all that was queued before it), one hook is  *)
(* evaluated at a time and by the current runtime, no hook waits for a     *)
(* runtime without on_hook (kick_nu_hook_eval would lose it), and outside  *)
(* a work item the active cause is that of the event being served, unless  *)
(* a stale edit has been skipped.                                          *)
RuntimeTypeOK ==
  /\ \A i \in DOMAIN work : work[i].kind = "nu" => work[i].scope = nu.gen
  /\ Cardinality({e \in evals : Current(e)}) <= 1
  /\ ~nu.decl => nu.hooks = <<>> /\ nu.inFlight = NoToken
  /\ nu.asleep => nu.sched # 0
  /\ Len(nu.hooks) <= MaxHooks /\ drained <= MaxItems /\ round <= MaxRounds
  /\ ~skipped => IF phase = "apply" THEN cur.cause = cycle ELSE active = cycle

(* "Ignores stale results (token mismatch after runtime swap)": the result *)
(* of a hook evaluated by an earlier runtime, and the firing of a schedule *)
(* that was replaced, cancelled or dropped since, change nothing, although *)
(* the sequence numbers of hooks start again with each runtime.            *)
StaleMessage(m) ==
  \/ m.kind = "done" /\ m.token[1] # nu.epoch
  \/ m.kind = "fired" /\ m.token # nu.sched
StaleIgnored ==
  [][msgs # <<>> /\ msgs' = Tail(msgs) /\ StaleMessage(Head(msgs)) => UNCHANGED <<nu, work>>]_vars

(* "Prevents divergence where the server believes the edit failed but the  *)
(* workspace was mutated": what the server is told of an edit is true, if  *)
(* an edit that fails half way is left aside, and unless the time ran out  *)
(* while the edit was being applied.                                       *)
EditTruth ==
  \A e \in Edits :
    /\ answer[e] = "applied" => effect[e] = "full"
    /\ answer[e] = "timeout" /\ effect[e] # "no" => e \in overran

=============================================================================
