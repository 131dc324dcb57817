------------------------------ MODULE LspSync ------------------------------
(***************************************************************************)
(* Keeping a language server's copy of one document equal to the editor's  *)
(* (crates/editor/src/lsp/sync_manager, DocumentSync::send_change in       *)
(* crates/lsp/src/sync and the callers in the editor).  The editor posts   *)
(* commands to the lsp.sync actor; the actor owns the DocSyncState and     *)
(* spawns one task per send; a task talks to the server and posts its      *)
(* completion back through the same queue.                                 *)
(*                                                                         *)
(* A text is known by the editor version it is the content of: a full send *)
(* carries a version, an incremental one a chain of <<before, after>>      *)
(* deltas.  The server's copy is such a version, NotOpen, or Garbled once  *)
(* a delta has been applied to a text it was not computed from.  A reset   *)
(* (save-as, rename) starts a new generation with a path, and so a server  *)
(* copy, of its own.  Documents do not interact, except that a tick sends  *)
(* at most eight of them; there is one here.                               *)
(***************************************************************************)
EXTENDS Integers, Sequences, FiniteSets

CONSTANTS
  MaxVersion,   \* bound on the edits
  MaxResets,    \* bound on the resets
  MaxPending,   \* LSP_MAX_INCREMENTAL_CHANGES
  MaxCmds,      \* bound on how far the editor is ahead of the actor
  Faults,       \* what may go wrong: "fail" send error, "lost" write barrier
                \* error, "drop" a command refused by the full ingress,
                \* "notready" server still initializing, "slow" write timeout
                \* of a send that is still running
  MaxFaults     \* bound on the resets and kinds of faults in one behaviour

ASSUME LspSyncAssumption ==
  /\ {MaxVersion, MaxResets, MaxPending, MaxCmds, MaxFaults} \subseteq Nat
  /\ Faults \subseteq {"fail", "lost", "drop", "notready", "slow"}

VARIABLES
  version,     \* the editor's document version
  path,        \* the editor's path for it, numbered by resets
  ready,       \* ClientHandle::is_initialized
  forceFull,   \* paths whose DocumentState has force_full_sync set
  dueFull,     \* shared.due_full_docs holds the document
  cmds,        \* the command queue
  doc,         \* DocSyncState
  sends,       \* the running send tasks
  server,      \* per path: the server's copy
  faults       \* the faults that have happened

vars == <<version, path, ready, forceFull, dueFull, cmds, doc, sends, server, faults>>

Paths == 0..MaxResets
NotOpen == -1
Garbled == -2
NoVersion == -1

NewDoc(generation, incremental, v) ==
  [generation |-> generation, incremental |-> incremental, needsFull |-> TRUE,
   pending |-> <<>>, phase |-> "Idle", retry |-> FALSE, quiet |-> FALSE,
   editorVersion |-> v, expectedPrev |-> NoVersion, inflight |-> FALSE, expired |-> FALSE]

Init ==
  /\ version = 0 /\ path = 0 /\ forceFull = {} /\ dueFull = FALSE
  /\ ready \in {TRUE, "notready" \notin Faults}
  /\ cmds = <<>> /\ sends = <<>> /\ faults = {}
  /\ server = [p \in Paths |-> NotOpen]
  /\ doc = NewDoc(0, ready, 0)

Disturbable == Cardinality(faults) + path < MaxFaults

Fault(f) ==
  /\ f \in Faults \ faults /\ Disturbable
  /\ faults' = faults \cup {f}

(* ActorCommandPort::send never waits: a command that finds the ingress    *)
(* full is dropped (Ingress.tla).                                          *)
Room == Len(cmds) < MaxCmds
Post(c) ==
  \/ cmds' = Append(cmds, c) /\ UNCHANGED faults
  \/ Fault("drop") /\ UNCHANGED cmds
-----------------------------------------------------------------------------
(* The editor.  on_local_edit: a delta when the server takes incremental   *)
(* changes, else an escalation; undo always escalates.                     *)
Edit ==
  /\ version < MaxVersion /\ Room /\ version' = version + 1
  /\ \/ ready /\ Post([cmd |-> "Edit", prev |-> version, new |-> version'])
     \/ Post([cmd |-> "EscalateFull"])
  /\ UNCHANGED <<path, ready, forceFull, dueFull, doc, sends, server>>

(* tick_lsp_sync: a snapshot only if the actor last said it needs one.     *)
PostTick ==
  /\ \A i \in DOMAIN cmds : cmds[i].cmd # "Tick"
  /\ Post([cmd |-> "Tick", snapshot |-> IF dueFull THEN version ELSE NoVersion])
  /\ UNCHANGED <<version, path, ready, forceFull, dueFull, doc, sends, server>>

(* queue_lsp_change_immediate: EnsureTracked, then FlushNow; one command   *)
(* here, because nothing can come between them that matters.               *)
PostFlush ==
  /\ Room /\ \A i \in DOMAIN cmds : cmds[i].cmd # "FlushNow"
  /\ Post([cmd |-> "FlushNow", snapshot |-> version, incremental |-> ready])
  /\ UNCHANGED <<version, path, ready, forceFull, dueFull, doc, sends, server>>

PostReset ==
  /\ path < MaxResets /\ Disturbable /\ Room /\ path' = path + 1
  /\ Post([cmd |-> "ResetTracked", incremental |-> ready, version |-> version])
  /\ UNCHANGED <<version, ready, forceFull, dueFull, doc, sends, server>>

\* Mutant of Resync: the documents to resync are taken, but not escalated.
ResyncForgets ==
  /\ forceFull # {} /\ forceFull' = {}
  /\ UNCHANGED <<version, path, ready, dueFull, doc, sends, server, faults, cmds>>

(* queue_lsp_resyncs_from_documents                                        *)
Resync ==
  /\ forceFull # {} /\ forceFull' = {}
  /\ IF path \in forceFull THEN Post([cmd |-> "EscalateFull"]) ELSE UNCHANGED <<cmds, faults>>
  /\ UNCHANGED <<version, path, ready, dueFull, doc, sends, server>>
-----------------------------------------------------------------------------
(* DocSyncState.                                                           *)
escalate_full(d) == [d EXCEPT !.needsFull = TRUE, !.pending = <<>>]

Debounce(d) == [d EXCEPT !.phase = IF @ = "Idle" THEN "Debouncing" ELSE @]

record_changes(d, prev, new) ==
  LET e == [d EXCEPT !.quiet = FALSE, !.expectedPrev = new, !.editorVersion = new]
      gap == d.expectedPrev # NoVersion /\ d.expectedPrev # prev
  IN  Debounce(IF gap \/ Len(d.pending) + 1 > MaxPending
               THEN escalate_full(e)
               ELSE [e EXCEPT !.pending = Append(@, <<prev, new>>)])

is_due(d) ==
  /\ d.phase # "InFlight" /\ ~d.retry
  /\ d.needsFull \/ (d.pending # <<>> /\ d.quiet)

\* Mutant of take_for_send: the changes are sent, but not taken.
take_for_send_copy(d, full) ==
  [d EXCEPT !.phase = "InFlight", !.inflight = TRUE, !.expired = FALSE,
            !.needsFull = @ /\ ~full, !.retry = FALSE]

take_for_send(d, full) ==
  [d EXCEPT !.pending = <<>>, !.phase = "InFlight", !.inflight = TRUE, !.expired = FALSE,
            !.needsFull = @ /\ ~full, !.retry = FALSE]

mark_error_retry(d) == [d EXCEPT !.retry = TRUE, !.phase = "Debouncing", !.inflight = FALSE]

mark_complete(d, result, full) ==
  CASE result = "Success" ->
         [d EXCEPT !.inflight = FALSE, !.retry = FALSE,
                   !.phase = IF d.pending = <<>> /\ ~d.needsFull THEN "Idle" ELSE "Debouncing",
                   !.expectedPrev = IF full THEN d.editorVersion ELSE @]
    [] result = "Retryable" -> mark_error_retry(d)
    [] result = "Failed" -> [mark_error_retry(d) EXCEPT !.needsFull = TRUE]

\* Mutant of check_write_timeout: a send in flight is waited for forever.
check_write_timeout_never(d) == d

check_write_timeout(d) ==
  IF d.inflight /\ d.expired
  THEN [escalate_full(d) EXCEPT !.inflight = FALSE, !.retry = TRUE, !.phase = "Debouncing"]
  ELSE d
-----------------------------------------------------------------------------
(* The actor: one command, then sync_shared_counts.                        *)
Becomes(d) ==
  /\ doc' = d
  /\ dueFull' = (is_due(d) /\ (d.needsFull \/ ~d.incremental))

NoSend(d) == Becomes(d) /\ UNCHANGED sends

(* take_send_dispatch and spawn_send_task                                  *)
Dispatch(d, snapshot) ==
  LET full == d.needsFull \/ ~d.incremental
  IN  IF full /\ snapshot = NoVersion
      THEN NoSend(d)
      ELSE /\ Becomes(take_for_send(d, full))
           /\ sends' = Append(sends, [generation |-> d.generation, full |-> full, state |-> "spawned",
                                      text |-> snapshot, deltas |-> IF full THEN <<>> ELSE d.pending])

HandleEdit(c) == c.cmd = "Edit" /\ NoSend(record_changes(doc, c.prev, c.new))

HandleEscalate(c) == c.cmd = "EscalateFull" /\ NoSend(escalate_full(doc))

HandleReset(c) ==
  /\ c.cmd = "ResetTracked"
  /\ NoSend(NewDoc(doc.generation + 1, c.incremental, c.version))

HandleTick(c) ==
  LET d == check_write_timeout(doc)
  IN  /\ c.cmd = "Tick"
      /\ IF is_due(d) THEN Dispatch(d, c.snapshot) ELSE NoSend(d)

HandleFlush(c) ==
  LET tracked == [doc EXCEPT !.incremental = c.incremental,
                             !.editorVersion = IF c.snapshot > @ THEN c.snapshot ELSE @]
      d == check_write_timeout(tracked)
  IN  /\ c.cmd = "FlushNow"
      /\ IF d.phase = "InFlight" \/ d.retry \/ (d.pending = <<>> /\ ~d.needsFull)
         THEN NoSend(d)
         ELSE Dispatch(d, c.snapshot)

\* Mutant of HandleComplete: completions of an earlier generation count.
HandleCompleteAnyGeneration(c) ==
  /\ c.cmd = "SendComplete" /\ NoSend(mark_complete(doc, c.result, c.full))

HandleComplete(c) ==
  /\ c.cmd = "SendComplete"
  /\ NoSend(IF c.generation = doc.generation THEN mark_complete(doc, c.result, c.full) ELSE doc)

Handle ==
  /\ cmds # <<>> /\ cmds' = Tail(cmds)
  /\ \/ HandleEdit(Head(cmds)) \/ HandleEscalate(Head(cmds)) \/ HandleReset(Head(cmds))
     \/ HandleTick(Head(cmds)) \/ HandleFlush(Head(cmds)) \/ HandleComplete(Head(cmds))
  /\ UNCHANGED <<version, path, ready, forceFull, server, faults>>
-----------------------------------------------------------------------------
(* A send task: DocumentSync::send_change.                                 *)
Chain(deltas) == \A i \in 1..Len(deltas) - 1 : deltas[i][2] = deltas[i + 1][1]

Applied(text, t) ==
  IF t.full THEN t.text
  ELSE IF Chain(t.deltas) /\ text = t.deltas[1][1] THEN t.deltas[Len(t.deltas)][2] ELSE Garbled

SendState(i, s) == sends' = [sends EXCEPT ![i].state = s]
SendRest == UNCHANGED <<version, path, ready, dueFull, cmds, doc>>

SendSpawned(i) == i \in DOMAIN sends /\ sends[i].state = "spawned"
IsOpen(i) == server[sends[i].generation] # NotOpen

(* ensure_open_text: didOpen with the full text; mark_opened clears        *)
(* force_full_sync.                                                        *)
SendOpen(i) ==
  /\ SendSpawned(i) /\ ~IsOpen(i) /\ sends[i].full
  /\ server' = [server EXCEPT ![sends[i].generation] = sends[i].text]
  /\ forceFull' = forceFull \ {sends[i].generation}
  /\ SendState(i, "Success") /\ SendRest /\ UNCHANGED faults

(* The server does not start or does not take the didOpen.  An incremental *)
(* send to a document that is not open fails too, but there is none: see   *)
(* NoGarbledText.                                                          *)
SendOpenFails(i) ==
  /\ SendSpawned(i) /\ ~IsOpen(i) /\ sends[i].full /\ Fault("fail")
  /\ SendState(i, "Failed") /\ SendRest /\ UNCHANGED <<server, forceFull>>

SendNotReady(i) ==
  /\ SendSpawned(i) /\ IsOpen(i) /\ ~ready
  /\ faults' = faults \cup {"notready"}
  /\ SendState(i, "Retryable") /\ SendRest /\ UNCHANGED <<server, forceFull>>

SendWritten(i) ==
  /\ SendSpawned(i) /\ IsOpen(i) /\ ready
  /\ server' = [server EXCEPT ![sends[i].generation] = Applied(@, sends[i])]
  /\ SendState(i, "Success") /\ SendRest /\ UNCHANGED <<forceFull, faults>>

(* The notification is refused: force_full_sync and an error.              *)
SendFails(i) ==
  /\ SendSpawned(i) /\ IsOpen(i) /\ ready /\ Fault("fail")
  /\ forceFull' = forceFull \cup {sends[i].generation}
  /\ SendState(i, "Failed") /\ SendRest /\ UNCHANGED server

(* The write fails later: wrap_barrier sets force_full_sync, but resolves  *)
(* its own barrier normally, so that the task reports success.             *)
SendLost(i) ==
  /\ SendSpawned(i) /\ IsOpen(i) /\ ready /\ Fault("lost")
  /\ forceFull' = forceFull \cup {sends[i].generation}
  /\ SendState(i, "Success") /\ SendRest /\ UNCHANGED server

SendStep(i) ==
  \/ SendOpen(i) \/ SendOpenFails(i) \/ SendNotReady(i)
  \/ SendWritten(i) \/ SendFails(i) \/ SendLost(i)

SendFinish(i) ==
  /\ i \in DOMAIN sends /\ sends[i].state # "spawned"
  /\ Post([cmd |-> "SendComplete", generation |-> sends[i].generation,
           result |-> sends[i].state, full |-> sends[i].full])
  /\ sends' = [k \in 1..Len(sends) - 1 |-> sends[IF k < i THEN k ELSE k + 1]]
  /\ UNCHANGED <<version, path, ready, forceFull, dueFull, doc, server>>
-----------------------------------------------------------------------------
(* Time: the retry delay, the debounce, and the write timeout of a send    *)
(* whose task is gone (its completion was dropped) or, as a fault, slow.   *)
TimeRest == UNCHANGED <<version, path, ready, forceFull, dueFull, cmds, sends, server>>

RetryElapses ==
  /\ doc.retry /\ doc' = [doc EXCEPT !.retry = FALSE]
  /\ TimeRest /\ UNCHANGED faults

DebounceElapses ==
  /\ ~doc.quiet /\ doc' = [doc EXCEPT !.quiet = TRUE]
  /\ TimeRest /\ UNCHANGED faults

TaskGone ==
  /\ \A i \in DOMAIN sends : sends[i].generation # doc.generation
  /\ \A i \in DOMAIN cmds : cmds[i].cmd = "SendComplete" => cmds[i].generation # doc.generation

WriteTimeout ==
  /\ doc.inflight /\ ~doc.expired
  /\ \/ TaskGone /\ UNCHANGED faults
     \/ ~TaskGone /\ Fault("slow")
  /\ doc' = [doc EXCEPT !.expired = TRUE] /\ TimeRest

(* The background initialize task of Registry::acquire succeeds.           *)
ServerReady ==
  /\ ~ready /\ ready' = TRUE
  /\ UNCHANGED <<version, path, forceFull, dueFull, cmds, doc, sends, server, faults>>

EditorStep == Edit \/ PostTick \/ PostFlush \/ PostReset \/ Resync

Next ==
  \/ EditorStep \/ Handle \/ RetryElapses \/ DebounceElapses \/ WriteTimeout \/ ServerReady
  \/ \E i \in DOMAIN sends : SendStep(i) \/ SendFinish(i)

Spec == Init /\ [][Next]_vars

(* The editor's pump keeps ticking, tasks are polled, timers expire; edits *)
(* and flushes need not happen.                                            *)
Fairness ==
  /\ WF_vars(PostTick) /\ WF_vars(Resync) /\ WF_vars(Handle)
  /\ WF_vars(RetryElapses) /\ WF_vars(DebounceElapses) /\ WF_vars(WriteTimeout) /\ WF_vars(ServerReady)
  /\ WF_vars(\E i \in DOMAIN sends : SendStep(i)) /\ WF_vars(\E i \in DOMAIN sends : SendFinish(i))

FairSpec == Spec /\ Fairness
-----------------------------------------------------------------------------
(* "Detects version gaps or reorders and escalates to full sync": no delta *)
(* reaches the server for a text it was not computed from, whatever sends  *)
(* are refused; unless the ingress dropped an edit, what is pending is one *)
(* chain of deltas that ends in the newest version recorded, also around a *)
(* full send whose completion moves expected_prev; and no incremental send *)
(* meets a document that is not open, under any fault.                     *)
NoGarbledText ==
  /\ faults \subseteq {"fail"} => \A p \in Paths : server[p] # Garbled
  /\ "drop" \notin faults =>
       /\ Chain(doc.pending)
       /\ doc.pending # <<>> => doc.pending[Len(doc.pending)][2] = doc.expectedPrev
  /\ \A i \in DOMAIN sends : ~sends[i].full => IsOpen(i)

(* At most one send per generation is outstanding, unless the write        *)
(* timeout gave up on one that still runs.                                 *)
OneSendAtATime ==
  "slow" \notin faults =>
    \A i, j \in DOMAIN sends : sends[i].generation = sends[j].generation => i = j

(* No document stays in flight: the completion of its send arrives, or the *)
(* write timeout gives up on it (check_write_timeout), also when the full  *)
(* ingress dropped the SendComplete or the task hangs.                     *)
InFlightEnds == doc.inflight ~> ~doc.inflight

(* When the editor stops editing, the server's copy becomes the editor's   *)
(* text and stays it, although sends were refused or written to nowhere    *)
(* (force_full_sync and the resync pick these up).                         *)
SyncConverges ==
  <>[](faults \cap {"drop", "notready", "slow"} # {} \/ server[path] = version)
=============================================================================
