---------------------------- MODULE LspSyncProofs ----------------------------
(***************************************************************************)
(* At most one send per generation of a document, and a server that holds  *)
(* the text of every change it has been told of, or is about to be sent it *)
(* in full: for any number of edits, resets, pending changes and queued    *)
(* commands, and for all faults.                                           *)
(***************************************************************************)
EXTENDS LspSync, SequenceTheorems, TLAPS

(* Time limits; SMT has further tries. *)
USE SMTT(20), ZenonT(20), SMTT(30), SMTT(40)

(* The elements of the queues differ in shape; what is used of them is     *)
(* that they are sequences.                                                *)
IsQueue(s) == \E S : s \in Seq(S)

LEMMA QueueAppend ==
  ASSUME NEW s, IsQueue(s), NEW x
  PROVE  /\ IsQueue(Append(s, x)) /\ Len(s) \in Nat /\ DOMAIN s = 1..Len(s) /\ Len(Append(s, x)) = Len(s) + 1
         /\ DOMAIN Append(s, x) = 1..(Len(s) + 1) /\ Append(s, x)[Len(s) + 1] = x
         /\ \A i \in 1..Len(s) : Append(s, x)[i] = s[i]
<1>1. PICK S : s \in Seq(S)  BY DEF IsQueue
<1>2. s \in Seq(S \cup {x})  BY <1>1, SeqDef
<1>3. x \in S \cup {x}  OBVIOUS
<1>4. /\ Append(s, x) \in Seq(S \cup {x}) /\ Len(Append(s, x)) = Len(s) + 1
      /\ Append(s, x)[Len(s) + 1] = x /\ \A i \in 1..Len(s) : Append(s, x)[i] = s[i]
  BY <1>2, <1>3, AppendProperties
<1>5. Len(s) \in Nat /\ DOMAIN s = 1..Len(s) /\ DOMAIN Append(s, x) = 1..Len(Append(s, x))
  BY <1>1, <1>4, LenProperties
<1>. QED  BY <1>4, <1>5 DEF IsQueue

LEMMA QueueTail ==
  ASSUME NEW s, IsQueue(s), s # <<>>
  PROVE  /\ IsQueue(Tail(s)) /\ Len(s) \in Nat /\ DOMAIN s = 1..Len(s) /\ Len(s) >= 1
         /\ Head(s) = s[1] /\ DOMAIN Tail(s) = 1..(Len(s) - 1) /\ Len(Tail(s)) = Len(s) - 1
         /\ \A i \in 1..(Len(s) - 1) : Tail(s)[i] = s[i + 1]
<1>1. PICK S : s \in Seq(S)  BY DEF IsQueue
<1>2. /\ Tail(s) \in Seq(S) /\ Len(Tail(s)) = Len(s) - 1 /\ Head(s) = s[1]
      /\ \A i \in 1..Len(Tail(s)) : Tail(s)[i] = s[i + 1]
  BY <1>1, HeadTailProperties
<1>3. Len(s) \in Nat /\ Len(s) # 0 /\ DOMAIN s = 1..Len(s)  BY <1>1, LenProperties, EmptySeq
<1>4. DOMAIN Tail(s) = 1..Len(Tail(s))  BY <1>2, LenProperties
<1>. QED  BY <1>2, <1>3, <1>4 DEF IsQueue

(* A task leaves the list of running sends.                                *)
LEMMA QueueRemove ==
  ASSUME NEW s, IsQueue(s), NEW i \in DOMAIN s,
         NEW r, r = [k \in 1..Len(s) - 1 |-> s[IF k < i THEN k ELSE k + 1]]
  PROVE  /\ IsQueue(r) /\ DOMAIN r = 1..(Len(s) - 1) /\ Len(s) \in Nat /\ DOMAIN s = 1..Len(s)
         /\ \A k \in DOMAIN r : LET j == IF k < i THEN k ELSE k + 1
                                IN  j \in DOMAIN s /\ j # i /\ r[k] = s[j]
<1>1. PICK S : s \in Seq(S)  BY DEF IsQueue
<1>2. Len(s) \in Nat /\ DOMAIN s = 1..Len(s) /\ i \in 1..Len(s)  BY <1>1, LenProperties
<1>3. \A j \in 1..Len(s) : s[j] \in S  BY <1>1, ElementOfSeq
<1>4. \A k \in 1..Len(s) - 1 : /\ (IF k < i THEN k ELSE k + 1) \in 1..Len(s)
                               /\ (IF k < i THEN k ELSE k + 1) # i
  BY <1>2
<1>5. r \in [1..Len(s) - 1 -> S] /\ Len(s) - 1 \in Nat  BY <1>2, <1>3, <1>4
<1>6. r \in Seq(S)  BY <1>5, SeqDef
<1>. QED  BY <1>2, <1>4, <1>5, <1>6, ZenonT(20) DEF IsQueue

LEMMA QueueUpdate ==
  ASSUME NEW s, IsQueue(s), NEW i \in DOMAIN s, NEW e
  PROVE  /\ IsQueue([s EXCEPT ![i] = e]) /\ DOMAIN [s EXCEPT ![i] = e] = DOMAIN s
         /\ [s EXCEPT ![i] = e][i] = e /\ \A j \in DOMAIN s \ {i} : [s EXCEPT ![i] = e][j] = s[j]
<1>1. PICK S : s \in Seq(S)  BY DEF IsQueue
<1>2. s \in Seq(S \cup {e})  BY <1>1, SeqDef
<1>3. i \in 1..Len(s) /\ e \in S \cup {e}  BY <1>1, LenProperties
<1>4. [s EXCEPT ![i] = e] \in Seq(S \cup {e})  BY <1>2, <1>3, ExceptSeq
<1>. QED  BY <1>4 DEF IsQueue
-----------------------------------------------------------------------------
(* DocSyncState: what its operations do to the generation and to the send  *)
(* in flight.                                                              *)
Shape(d) ==
  /\ DOMAIN d = {"generation", "incremental", "needsFull", "pending", "phase", "retry", "quiet",
                 "editorVersion", "expectedPrev", "inflight", "expired"}
  /\ d.generation \in Nat /\ d.inflight \in BOOLEAN /\ d.expired \in BOOLEAN
  /\ d.inflight <=> d.phase = "InFlight"

Alike(d, e) ==
  /\ Shape(e) /\ e.generation = d.generation /\ e.inflight = d.inflight /\ e.expired = d.expired

LEMMA EscalateAlike ==
  ASSUME NEW d, Shape(d)
  PROVE  Alike(d, escalate_full(d))
BY DEF Shape, Alike, escalate_full

LEMMA RecordAlike ==
  ASSUME NEW d, Shape(d), NEW prev, NEW new
  PROVE  Alike(d, record_changes(d, prev, new))
<1> DEFINE e == [d EXCEPT !.quiet = FALSE, !.expectedPrev = new, !.editorVersion = new]
<1>1. Alike(d, e)  BY DEF Shape, Alike
<1>2. Shape(e)  BY <1>1 DEF Alike
<1> HIDE DEF e
<1>3. Alike(e, escalate_full(e))  BY <1>2, EscalateAlike
<1>4. Alike(e, [e EXCEPT !.pending = Append(@, <<prev, new>>)])  BY <1>2 DEF Shape, Alike
<1>5. PICK f : Alike(e, f) /\ record_changes(d, prev, new) = Debounce(f)
  BY <1>3, <1>4 DEF record_changes, e
<1>6. Alike(f, Debounce(f))
  BY <1>5 DEF Alike, Shape, Debounce
<1>. QED  BY <1>1, <1>5, <1>6 DEF Alike

LEMMA TakeTakes ==
  ASSUME NEW d, Shape(d), NEW full
  PROVE  LET e == take_for_send(d, full)
         IN  Shape(e) /\ e.generation = d.generation /\ e.inflight /\ ~e.expired
BY DEF Shape, take_for_send

LEMMA CompleteEnds ==
  ASSUME NEW d, Shape(d), NEW full, NEW result \in {"Success", "Retryable", "Failed"}
  PROVE  LET e == mark_complete(d, result, full)
         IN  Shape(e) /\ e.generation = d.generation /\ ~e.inflight
<1> DEFINE e == mark_complete(d, result, full)
<1>1. CASE result = "Success"
  <2>1. e = [d EXCEPT !.inflight = FALSE, !.retry = FALSE,
                   !.phase = IF d.pending = <<>> /\ ~d.needsFull THEN "Idle" ELSE "Debouncing",
                   !.expectedPrev = IF full THEN d.editorVersion ELSE @]
    BY <1>1 DEF mark_complete
  <2>. QED  BY <2>1 DEF Shape
<1>2. CASE result = "Retryable"
  <2>1. e = mark_error_retry(d)  BY <1>2 DEF mark_complete
  <2>. QED  BY <2>1 DEF Shape, mark_error_retry
<1>3. CASE result = "Failed"
  <2>1. e = [mark_error_retry(d) EXCEPT !.needsFull = TRUE]  BY <1>3 DEF mark_complete
  <2>. QED  BY <2>1 DEF Shape, mark_error_retry
<1>. QED  BY <1>1, <1>2, <1>3

LEMMA TimeoutFacts ==
  ASSUME NEW d, Shape(d)
  PROVE  LET e == check_write_timeout(d)
         IN  /\ Shape(e) /\ e.generation = d.generation
             /\ IF d.inflight /\ d.expired THEN ~e.inflight ELSE e = d
<1>1. Alike(d, escalate_full(d))  BY EscalateAlike
<1>. QED  BY <1>1, ZenonT(20) DEF Shape, Alike, check_write_timeout
-----------------------------------------------------------------------------
(* A send of the current generation that runs, or whose completion is      *)
(* still queued, is the one the document is waiting for.  Only the write   *)
(* timeout gives up on one, and without a slow send it does so when there  *)
(* is nothing left to wait for.                                            *)
States == {"spawned", "Success", "Retryable", "Failed"}
Task(t, g) ==
  /\ DOMAIN t = {"generation", "full", "state", "text", "deltas"}
  /\ t.generation \in 0..g /\ t.state \in States
IsReport(c) == c.cmd = "SendComplete"
Report(c, g) == IsReport(c) => c.generation \in 0..g /\ c.result \in States \ {"spawned"}

Exclusive ==
  /\ \A i, j \in DOMAIN sends : sends[i].generation = sends[j].generation => i = j
  /\ \A i \in DOMAIN sends, k \in DOMAIN cmds : IsReport(cmds[k]) => cmds[k].generation # sends[i].generation
  /\ \A k, l \in DOMAIN cmds :
        IsReport(cmds[k]) /\ IsReport(cmds[l]) /\ cmds[k].generation = cmds[l].generation => k = l
  /\ ~doc.inflight \/ doc.expired => TaskGone

SyncInv ==
  /\ IsQueue(sends) /\ IsQueue(cmds) /\ Shape(doc)
  /\ \A i \in DOMAIN sends : Task(sends[i], doc.generation)
  /\ \A k \in DOMAIN cmds : Report(cmds[k], doc.generation)
  /\ "slow" \notin faults => Exclusive

LEMMA SyncInit == Init => SyncInv
<1> SUFFICES ASSUME Init PROVE SyncInv
  OBVIOUS
<1>1. sends = <<>> /\ cmds = <<>> /\ DOMAIN sends = {} /\ DOMAIN cmds = {}  BY DEF Init
<1>2. IsQueue(sends) /\ IsQueue(cmds)
  <2>1. <<>> \in Seq({})  BY EmptySeq
  <2>. QED  BY <1>1, <2>1 DEF IsQueue
<1>3. Shape(doc)
  <2>1. doc = NewDoc(0, ready, 0)  BY DEF Init
  <2>. QED  BY <2>1 DEF NewDoc, Shape
<1>. QED  BY <1>1, <1>2, <1>3 DEF SyncInv, Exclusive, TaskGone

(* A command other than a completion joins the queue, or nothing does.     *)
LEMMA PostKeeps ==
  ASSUME SyncInv, UNCHANGED <<doc, sends>>, faults \subseteq faults',
         NEW c, ~IsReport(c), cmds' = cmds \/ cmds' = Append(cmds, c)
  PROVE  SyncInv'
<1>1. CASE cmds' = cmds
  BY <1>1 DEF SyncInv, Exclusive, TaskGone
<1>2. CASE cmds' = Append(cmds, c)
  <2>1. /\ IsQueue(cmds') /\ Len(cmds) \in Nat /\ DOMAIN cmds = 1..Len(cmds)
        /\ DOMAIN cmds' = 1..(Len(cmds) + 1) /\ cmds'[Len(cmds) + 1] = c
        /\ \A i \in 1..Len(cmds) : cmds'[i] = cmds[i]
    BY <1>2, QueueAppend DEF SyncInv
  <2>2. \A k \in DOMAIN cmds' : IsReport(cmds'[k]) => k \in DOMAIN cmds /\ cmds'[k] = cmds[k]
    BY <2>1
  <2>3. \A k \in DOMAIN cmds' : Report(cmds'[k], doc.generation)
    BY <2>2 DEF SyncInv, Report
  <2>4. TaskGone => TaskGone'
    BY <2>2 DEF TaskGone, IsReport
  <2>5. Exclusive => Exclusive'
    BY <2>2, <2>4 DEF Exclusive
  <2>. QED  BY <2>1, <2>3, <2>5 DEF SyncInv
<1>. QED  BY <1>1, <1>2

(* The document changes, but not in what the invariant is about.           *)
LEMMA AlikeKeeps ==
  ASSUME SyncInv, UNCHANGED <<cmds, sends>>, faults \subseteq faults', Alike(doc, doc')
  PROVE  SyncInv'
<1>1. TaskGone => TaskGone'  BY DEF Alike, TaskGone
<1>. QED  BY <1>1 DEF SyncInv, Alike, Exclusive

-----------------------------------------------------------------------------
(* The actor takes a command.                                              *)
LEMMA TailFacts ==
  ASSUME SyncInv, cmds # <<>>, cmds' = Tail(cmds)
  PROVE  /\ IsQueue(cmds') /\ 1 \in DOMAIN cmds /\ Head(cmds) = cmds[1]
         /\ \A k \in DOMAIN cmds' : k + 1 \in DOMAIN cmds /\ k + 1 # 1 /\ cmds'[k] = cmds[k + 1]
         /\ \A k \in DOMAIN cmds' : Report(cmds'[k], doc.generation)
         /\ \A k, l \in DOMAIN cmds' : k + 1 = l + 1 => k = l
<1>1. IsQueue(cmds)  BY DEF SyncInv
<1>2. /\ IsQueue(cmds') /\ Len(cmds) \in Nat /\ DOMAIN cmds = 1..Len(cmds) /\ Len(cmds) >= 1
      /\ Head(cmds) = cmds[1] /\ DOMAIN cmds' = 1..(Len(cmds) - 1)
      /\ \A i \in 1..(Len(cmds) - 1) : cmds'[i] = cmds[i + 1]
  BY <1>1, QueueTail
<1>3. \A k \in DOMAIN cmds' : k + 1 \in DOMAIN cmds /\ k + 1 # 1 /\ cmds'[k] = cmds[k + 1]
  BY <1>2
<1>. QED  BY <1>2, <1>3 DEF SyncInv

(* The queue without its head, the same sends.                             *)
LEMMA TailKeeps ==
  ASSUME SyncInv, cmds # <<>>, cmds' = Tail(cmds), UNCHANGED <<sends, faults>>, Shape(doc'),
         doc'.generation = doc.generation,
         "slow" \notin faults /\ (~doc'.inflight \/ doc'.expired) =>
           TaskGone \/ (IsReport(Head(cmds)) /\ Head(cmds).generation = doc.generation)
  PROVE  SyncInv'
<1>1. /\ IsQueue(cmds') /\ 1 \in DOMAIN cmds /\ Head(cmds) = cmds[1]
      /\ \A k \in DOMAIN cmds' : k + 1 \in DOMAIN cmds /\ k + 1 # 1 /\ cmds'[k] = cmds[k + 1]
      /\ \A k \in DOMAIN cmds' : Report(cmds'[k], doc.generation)
      /\ \A k, l \in DOMAIN cmds' : k + 1 = l + 1 => k = l
  BY TailFacts
<1>2. TaskGone => TaskGone'  BY <1>1 DEF TaskGone
<1>3. Exclusive /\ IsReport(Head(cmds)) /\ Head(cmds).generation = doc.generation => TaskGone'
  BY <1>1 DEF Exclusive, TaskGone, IsReport
<1>4. ASSUME "slow" \notin faults PROVE Exclusive'
  <2>1. Exclusive  BY <1>4 DEF SyncInv
  <2>2. ~doc'.inflight \/ doc'.expired => TaskGone'  BY <1>2, <1>3, <1>4, <2>1
  <2>. QED  BY <1>1, <2>1, <2>2 DEF Exclusive
<1>. QED  BY <1>1, <1>4 DEF SyncInv

(* take_send_dispatch, for a document that waits for nothing.              *)
LEMMA DispatchKeeps ==
  ASSUME SyncInv, cmds # <<>>, cmds' = Tail(cmds), UNCHANGED faults,
         NEW d, Shape(d), d.generation = doc.generation, ~d.inflight,
         "slow" \notin faults => TaskGone,
         NEW snapshot, Dispatch(d, snapshot)
  PROVE  SyncInv'
<1> DEFINE full == d.needsFull \/ ~d.incremental
<1>1. CASE full /\ snapshot = NoVersion
  <2>1. doc' = d /\ UNCHANGED sends  BY <1>1 DEF Dispatch, NoSend, Becomes
  <2>. QED  BY <2>1, TailKeeps
<1>2. CASE ~(full /\ snapshot = NoVersion)
  <2>1. PICK t : /\ sends' = Append(sends, t) /\ t.generation = d.generation /\ t.state = "spawned"
                 /\ DOMAIN t = {"generation", "full", "state", "text", "deltas"}
    <3> DEFINE t == [generation |-> d.generation, full |-> full, state |-> "spawned",
                     text |-> snapshot, deltas |-> IF full THEN <<>> ELSE d.pending]
    <3>1. sends' = Append(sends, t)  BY <1>2 DEF Dispatch
    <3>. QED  BY <3>1
  <2>2. doc' = take_for_send(d, full)  BY <1>2 DEF Dispatch, Becomes
  <2>3. Shape(doc') /\ doc'.generation = doc.generation /\ doc'.inflight /\ ~doc'.expired
    BY <2>2, TakeTakes
  <2>4. /\ IsQueue(sends') /\ Len(sends) \in Nat /\ DOMAIN sends = 1..Len(sends)
        /\ DOMAIN sends' = 1..(Len(sends) + 1) /\ sends'[Len(sends) + 1] = t
        /\ \A i \in 1..Len(sends) : sends'[i] = sends[i]
    BY <2>1, QueueAppend DEF SyncInv
  <2>5. \A i \in DOMAIN sends' : (i \in DOMAIN sends /\ sends'[i] = sends[i]) \/ (i = Len(sends) + 1 /\ sends'[i] = t)
    BY <2>4
  <2>6. /\ IsQueue(cmds')
        /\ \A k \in DOMAIN cmds' : k + 1 \in DOMAIN cmds /\ cmds'[k] = cmds[k + 1]
        /\ \A k \in DOMAIN cmds' : Report(cmds'[k], doc.generation)
        /\ \A k, l \in DOMAIN cmds' : k + 1 = l + 1 => k = l
    BY TailFacts
  <2>7. Task(t, doc.generation)  BY <2>1 DEF Task, States, Shape
  <2>8. \A i \in DOMAIN sends' : Task(sends'[i], doc'.generation)
    BY <2>3, <2>5, <2>7 DEF SyncInv
  <2>9. ASSUME "slow" \notin faults PROVE Exclusive'
    <3>1. Exclusive /\ TaskGone  BY <2>9 DEF SyncInv
    <3>2. \A i, j \in DOMAIN sends' : sends'[i].generation = sends'[j].generation => i = j
      BY <2>1, <2>5, <3>1 DEF Exclusive, TaskGone
    <3>3. \A i \in DOMAIN sends', k \in DOMAIN cmds' :
            IsReport(cmds'[k]) => cmds'[k].generation # sends'[i].generation
      BY <2>1, <2>5, <2>6, <3>1 DEF Exclusive, TaskGone, IsReport
    <3>4. \A k, l \in DOMAIN cmds' :
            IsReport(cmds'[k]) /\ IsReport(cmds'[l]) /\ cmds'[k].generation = cmds'[l].generation => k = l
      BY <2>6, <3>1 DEF Exclusive
    <3>. QED  BY <2>3, <3>2, <3>3, <3>4 DEF Exclusive
  <2>. QED  BY <2>3, <2>4, <2>6, <2>8, <2>9 DEF SyncInv
<1>. QED  BY <1>1, <1>2

LEMMA HandleKeeps ==
  ASSUME SyncInv, Handle
  PROVE  SyncInv'
<1> DEFINE c == Head(cmds)
<1>0. cmds # <<>> /\ cmds' = Tail(cmds) /\ UNCHANGED faults /\ Shape(doc)  BY DEF Handle, SyncInv
<1>1. "slow" \notin faults /\ (~doc.inflight \/ doc.expired) => TaskGone  BY DEF SyncInv, Exclusive
<1>2. ASSUME HandleEdit(c) \/ HandleEscalate(c) PROVE SyncInv'
  <2>1. Alike(doc, doc') /\ UNCHANGED sends
    BY <1>0, <1>2, RecordAlike, EscalateAlike DEF HandleEdit, HandleEscalate, NoSend, Becomes
  <2>. QED  BY <1>0, <1>1, <2>1, TailKeeps DEF Alike
<1>3. ASSUME HandleReset(c) PROVE SyncInv'
  <2>1. doc' = NewDoc(doc.generation + 1, c.incremental, c.version) /\ UNCHANGED sends
    BY <1>3 DEF HandleReset, NoSend, Becomes
  <2>2. Shape(doc') /\ doc'.generation = doc.generation + 1 /\ doc.generation \in Nat
    BY <1>0, <2>1 DEF NewDoc, Shape
  <2>3. /\ IsQueue(cmds')
        /\ \A k \in DOMAIN cmds' : k + 1 \in DOMAIN cmds /\ cmds'[k] = cmds[k + 1]
        /\ \A k \in DOMAIN cmds' : Report(cmds'[k], doc.generation)
        /\ \A k, l \in DOMAIN cmds' : k + 1 = l + 1 => k = l
    BY <1>0, TailFacts
  <2>4. \A i \in DOMAIN sends : Task(sends[i], doc.generation)  BY DEF SyncInv
  <2>5. \A i \in DOMAIN sends : Task(sends[i], doc'.generation) /\ sends[i].generation # doc'.generation
    BY <2>2, <2>4 DEF Task
  <2>6. \A k \in DOMAIN cmds' : /\ Report(cmds'[k], doc'.generation)
                                /\ IsReport(cmds'[k]) => cmds'[k].generation # doc'.generation
    BY <2>2, <2>3 DEF Report
  <2>7. TaskGone'  BY <2>1, <2>5, <2>6 DEF TaskGone, IsReport
  <2>8. Exclusive => Exclusive'  BY <2>1, <2>3, <2>7 DEF Exclusive
  <2>. QED  BY <1>0, <2>1, <2>2, <2>3, <2>5, <2>6, <2>8 DEF SyncInv
<1>4. ASSUME HandleTick(c) PROVE SyncInv'
  <2> DEFINE d == check_write_timeout(doc)
  <2>1. /\ Shape(d) /\ d.generation = doc.generation
        /\ IF doc.inflight /\ doc.expired THEN ~d.inflight ELSE d = doc
    BY <1>0, TimeoutFacts
  <2>2. "slow" \notin faults /\ (~d.inflight \/ d.expired) => TaskGone  BY <1>1, <2>1
  <2>3. IF is_due(d) THEN Dispatch(d, c.snapshot) ELSE NoSend(d)  BY <1>4 DEF HandleTick
  <2> HIDE DEF d
  <2>4. CASE is_due(d)
    <3>1. ~d.inflight  BY <2>1, <2>4 DEF is_due, Shape
    <3>. QED  BY <1>0, <2>1, <2>2, <2>3, <2>4, <3>1, DispatchKeeps
  <2>5. CASE ~is_due(d)
    <3>1. doc' = d /\ UNCHANGED sends  BY <2>3, <2>5 DEF NoSend, Becomes
    <3>. QED  BY <1>0, <2>1, <2>2, <3>1, TailKeeps
  <2>. QED  BY <2>4, <2>5
<1>5. ASSUME HandleFlush(c) PROVE SyncInv'
  <2> DEFINE tracked == [doc EXCEPT !.incremental = c.incremental,
                                    !.editorVersion = IF c.snapshot > @ THEN c.snapshot ELSE @]
  <2> DEFINE d == check_write_timeout(tracked)
  <2>1. Alike(doc, tracked)  BY <1>0 DEF Shape, Alike
  <2>2. /\ Shape(d) /\ d.generation = doc.generation
        /\ IF doc.inflight /\ doc.expired THEN ~d.inflight ELSE d.inflight = doc.inflight /\ d.expired = doc.expired
    <3> HIDE DEF tracked
    <3>. QED  BY <2>1, TimeoutFacts DEF Alike
  <2>3. "slow" \notin faults /\ (~d.inflight \/ d.expired) => TaskGone  BY <1>1, <2>2
  <2>4. IF d.phase = "InFlight" \/ d.retry \/ (d.pending = <<>> /\ ~d.needsFull)
        THEN NoSend(d) ELSE Dispatch(d, c.snapshot)
    BY <1>5 DEF HandleFlush
  <2> HIDE DEF d
  <2>5. CASE Dispatch(d, c.snapshot) /\ d.phase # "InFlight"
    <3>1. ~d.inflight  BY <2>2, <2>5 DEF Shape
    <3>. QED  BY <1>0, <2>2, <2>3, <2>5, <3>1, DispatchKeeps
  <2>6. CASE NoSend(d)
    <3>1. doc' = d /\ UNCHANGED sends  BY <2>6 DEF NoSend, Becomes
    <3>. QED  BY <1>0, <2>2, <2>3, <3>1, TailKeeps
  <2>. QED  BY <2>4, <2>5, <2>6
<1>6. ASSUME HandleComplete(c) PROVE SyncInv'
  <2>1. IsReport(c) /\ UNCHANGED sends  BY <1>6 DEF HandleComplete, IsReport, NoSend
  <2>2. CASE c.generation = doc.generation
    <3>1. doc' = mark_complete(doc, c.result, c.full)  BY <1>6, <2>2 DEF HandleComplete, NoSend, Becomes
    <3>2. c.result \in {"Success", "Retryable", "Failed"}
      BY <1>0, <2>1, TailFacts DEF SyncInv, Report, States
    <3>3. Shape(doc') /\ doc'.generation = doc.generation  BY <1>0, <3>1, <3>2, CompleteEnds
    <3>. QED  BY <1>0, <2>1, <2>2, <3>3, TailKeeps
  <2>3. CASE c.generation # doc.generation
    <3>1. doc' = doc  BY <1>6, <2>3 DEF HandleComplete, NoSend, Becomes
    <3>. QED  BY <1>0, <1>1, <2>1, <3>1, TailKeeps
  <2>. QED  BY <2>2, <2>3
<1>. QED  BY <1>2, <1>3, <1>4, <1>5, <1>6 DEF Handle

-----------------------------------------------------------------------------
(* A send task goes on, ends and reports.                                  *)
LEMMA SendKeeps ==
  ASSUME SyncInv, NEW i \in DOMAIN sends, NEW s \in States, SendState(i, s),
         UNCHANGED <<cmds, doc>>, faults \subseteq faults'
  PROVE  SyncInv'
<1>1. Task(sends[i], doc.generation) /\ IsQueue(sends)  BY DEF SyncInv
<1> DEFINE e == [sends[i] EXCEPT !.state = s]
<1>2. Task(e, doc.generation) /\ e.generation = sends[i].generation  BY <1>1 DEF Task
<1>3. sends' = [sends EXCEPT ![i] = e]  BY DEF SendState
<1> HIDE DEF e
<1>4. /\ IsQueue(sends') /\ DOMAIN sends' = DOMAIN sends
      /\ sends'[i] = e /\ \A j \in DOMAIN sends \ {i} : sends'[j] = sends[j]
  BY <1>1, <1>3, QueueUpdate, ZenonT(20)
<1>5. \A j \in DOMAIN sends : /\ sends'[j].generation = sends[j].generation
                              /\ Task(sends'[j], doc.generation)
  BY <1>2, <1>4 DEF SyncInv
<1>6. TaskGone => TaskGone'  BY <1>4, <1>5 DEF TaskGone
<1>7. Exclusive => Exclusive'  BY <1>4, <1>5, <1>6 DEF Exclusive
<1>. QED  BY <1>4, <1>5, <1>7 DEF SyncInv

LEMMA FinishKeeps ==
  ASSUME SyncInv, NEW i \in DOMAIN sends, SendFinish(i)
  PROVE  SyncInv'
<1>1. Task(sends[i], doc.generation) /\ IsQueue(sends) /\ IsQueue(cmds)  BY DEF SyncInv
<1>2. PICK c : /\ IsReport(c) /\ c.generation = sends[i].generation /\ c.result = sends[i].state
               /\ cmds' = cmds \/ cmds' = Append(cmds, c)
  <2> DEFINE c == [cmd |-> "SendComplete", generation |-> sends[i].generation,
                   result |-> sends[i].state, full |-> sends[i].full]
  <2>1. cmds' = cmds \/ cmds' = Append(cmds, c)  BY DEF SendFinish, Post
  <2>. QED  BY <2>1 DEF IsReport
<1>3. /\ sends' = [k \in 1..Len(sends) - 1 |-> sends[IF k < i THEN k ELSE k + 1]]
      /\ doc' = doc /\ faults \subseteq faults' /\ sends[i].state # "spawned"
  BY DEF SendFinish, Post, Fault
<1> DEFINE f(k) == IF k < i THEN k ELSE k + 1
<1>4. /\ IsQueue(sends') /\ Len(sends) \in Nat /\ DOMAIN sends = 1..Len(sends) /\ DOMAIN sends' = 1..(Len(sends) - 1)
      /\ \A k \in DOMAIN sends' : f(k) \in DOMAIN sends /\ f(k) # i /\ sends'[k] = sends[f(k)]
  BY <1>1, <1>3, QueueRemove
<1>5. \A k, l \in DOMAIN sends' : f(k) = f(l) => k = l  BY <1>4
<1> HIDE DEF f
<1>6. \A k \in DOMAIN sends' : Task(sends'[k], doc.generation)  BY <1>4 DEF SyncInv
<1>7. Report(c, doc.generation)  BY <1>1, <1>2, <1>3 DEF Report, Task
<1>8. CASE cmds' = cmds
  <2>1. TaskGone => TaskGone'  BY <1>3, <1>4, <1>8 DEF TaskGone
  <2>2. Exclusive => Exclusive'  BY <1>3, <1>4, <1>5, <1>8, <2>1 DEF Exclusive
  <2>. QED  BY <1>3, <1>4, <1>6, <1>8, <2>2 DEF SyncInv
<1>9. CASE cmds' = Append(cmds, c)
  <2>1. /\ IsQueue(cmds') /\ Len(cmds) \in Nat /\ DOMAIN cmds = 1..Len(cmds)
        /\ DOMAIN cmds' = 1..(Len(cmds) + 1) /\ cmds'[Len(cmds) + 1] = c
        /\ \A k \in 1..Len(cmds) : cmds'[k] = cmds[k]
    BY <1>1, <1>9, QueueAppend
  <2>2. \A k \in DOMAIN cmds' : (k \in DOMAIN cmds /\ cmds'[k] = cmds[k]) \/ (k = Len(cmds) + 1 /\ cmds'[k] = c)
    BY <2>1
  <2>3. \A k \in DOMAIN cmds' : Report(cmds'[k], doc.generation)  BY <1>7, <2>2 DEF SyncInv
  <2>4. ASSUME Exclusive PROVE Exclusive'
    <3>1. \A k \in DOMAIN sends' : sends'[k].generation # c.generation  BY <1>2, <1>4, <2>4 DEF Exclusive
    <3>2. \A k \in DOMAIN cmds : IsReport(cmds[k]) => cmds[k].generation # c.generation
      BY <1>2, <2>4 DEF Exclusive
    <3>3. TaskGone => TaskGone'  BY <1>2, <1>3, <1>4, <2>2 DEF TaskGone
    <3>4. \A k, l \in DOMAIN sends' : sends'[k].generation = sends'[l].generation => k = l
      BY <1>4, <1>5, <2>4 DEF Exclusive
    <3>5. \A j \in DOMAIN sends', k \in DOMAIN cmds' :
            IsReport(cmds'[k]) => cmds'[k].generation # sends'[j].generation
      BY <1>4, <2>2, <2>4, <3>1 DEF Exclusive
    <3>6. \A k, l \in DOMAIN cmds' :
            IsReport(cmds'[k]) /\ IsReport(cmds'[l]) /\ cmds'[k].generation = cmds'[l].generation => k = l
      BY <2>2, <2>4, <3>2 DEF Exclusive
    <3>. QED  BY <1>3, <2>4, <3>3, <3>4, <3>5, <3>6 DEF Exclusive
  <2>. QED  BY <1>3, <1>4, <1>6, <2>1, <2>3, <2>4 DEF SyncInv
<1>. QED  BY <1>2, <1>8, <1>9

-----------------------------------------------------------------------------
LEMMA SyncStep == SyncInv /\ [Next]_vars => SyncInv'
<1> SUFFICES ASSUME SyncInv, [Next]_vars PROVE SyncInv'
  OBVIOUS
<1>1. CASE EditorStep
  <2>1. /\ UNCHANGED <<doc, sends>> /\ faults \subseteq faults'
        /\ \E c : ~IsReport(c) /\ (cmds' = cmds \/ cmds' = Append(cmds, c))
    BY <1>1 DEF EditorStep, Edit, PostTick, PostFlush, PostReset, Resync, Post, Fault, IsReport
  <2>. QED  BY <2>1, PostKeeps
<1>2. CASE RetryElapses \/ DebounceElapses
  <2>1. Alike(doc, doc')  BY <1>2 DEF RetryElapses, DebounceElapses, SyncInv, Shape, Alike
  <2>2. UNCHANGED <<cmds, sends, faults>>  BY <1>2 DEF RetryElapses, DebounceElapses, TimeRest
  <2>. QED  BY <2>1, <2>2, AlikeKeeps
<1>3. CASE WriteTimeout
  <2>1. /\ doc' = [doc EXCEPT !.expired = TRUE] /\ UNCHANGED <<cmds, sends>>
        /\ faults \subseteq faults' /\ ("slow" \notin faults' => TaskGone)
    BY <1>3 DEF WriteTimeout, TimeRest, Fault
  <2>2. Shape(doc') /\ doc'.generation = doc.generation  BY <2>1 DEF SyncInv, Shape
  <2>3. TaskGone => TaskGone'  BY <2>1, <2>2 DEF TaskGone
  <2>4. "slow" \notin faults' => Exclusive'  BY <2>1, <2>3 DEF SyncInv, Exclusive
  <2>. QED  BY <2>1, <2>2, <2>4 DEF SyncInv
<1>4. CASE ServerReady \/ UNCHANGED vars
  <2>1. UNCHANGED <<cmds, doc, sends, faults>>  BY <1>4 DEF ServerReady, vars
  <2>. QED  BY <2>1 DEF SyncInv, Exclusive, TaskGone
<1>5. ASSUME NEW i \in DOMAIN sends, SendStep(i) PROVE SyncInv'
  <2>1. PICK s \in States : SendState(i, s)
    BY <1>5 DEF SendStep, SendOpen, SendOpenFails, SendNotReady, SendWritten, SendFails, SendLost, States
  <2>2. UNCHANGED <<cmds, doc>> /\ faults \subseteq faults'
    BY <1>5 DEF SendStep, SendOpen, SendOpenFails, SendNotReady, SendWritten, SendFails, SendLost, SendRest, Fault
  <2>. QED  BY <2>1, <2>2, SendKeeps
<1>. QED
  BY <1>1, <1>2, <1>3, <1>4, <1>5, HandleKeeps, FinishKeeps DEF Next

(* Unless a write timed out under a send that is still running, no two     *)
(* tasks send the same generation of a document, whatever is dropped,      *)
(* refused, lost, retried or reset.                                        *)
THEOREM SendsOneAtATime == Spec => []OneSendAtATime
<1>1. SyncInv => OneSendAtATime
  BY DEF SyncInv, Exclusive, OneSendAtATime
<1>. QED  BY SyncInit, SyncStep, <1>1, PTL DEF Spec
-----------------------------------------------------------------------------
(* The versions the commands in the queue are about: what the editor's     *)
(* version was before each of them was posted and after, from the one the  *)
(* actor has reached to the one the editor has.                            *)
Sees(c, v, w) ==
  \/ c.cmd = "Edit" /\ c.prev = v /\ c.new = w /\ w = v + 1
  \/ c.cmd = "EscalateFull" /\ w \in {v, v + 1}
  \/ c.cmd = "Tick" /\ w = v /\ c.snapshot \in {NoVersion, v}
  \/ c.cmd = "FlushNow" /\ w = v /\ c.snapshot = v
  \/ c.cmd \in {"ResetTracked", "SendComplete"} /\ w = v

Numbered(q, v, w) ==
  \E g \in [1..(Len(q) + 1) -> Nat] :
     g[1] = v /\ g[Len(q) + 1] = w /\ \A i \in 1..Len(q) : Sees(q[i], g[i], g[i + 1])

LEMMA NumberedEmpty == ASSUME NEW v \in Nat PROVE Numbered(<<>>, v, v)
<1> DEFINE g == [i \in 1..1 |-> v]
<1>1. Len(<<>>) = 0 /\ 0 + 1 = 1 /\ 1..0 = {}  OBVIOUS
<1>2. g \in [1..1 -> Nat] /\ g[1] = v  OBVIOUS
<1> HIDE DEF g
<1>3. g \in [1..(Len(<<>>) + 1) -> Nat] /\ g[Len(<<>>) + 1] = v /\ 1..Len(<<>>) = {}
  BY <1>1, <1>2
<1>. QED  BY <1>2, <1>3 DEF Numbered

LEMMA NumberedAppend ==
  ASSUME NEW q, IsQueue(q), NEW v, NEW w, Numbered(q, v, w), NEW c, NEW z \in Nat, Sees(c, w, z)
  PROVE  Numbered(Append(q, c), v, z)
<1>1. PICK g \in [1..(Len(q) + 1) -> Nat] :
         g[1] = v /\ g[Len(q) + 1] = w /\ \A i \in 1..Len(q) : Sees(q[i], g[i], g[i + 1])
  BY DEF Numbered
<1> DEFINE n == Len(q)
<1> DEFINE r == Append(q, c)
<1>2. n \in Nat /\ Len(r) = n + 1 /\ r[n + 1] = c /\ \A i \in 1..n : r[i] = q[i]
  BY QueueAppend
<1> DEFINE h == [i \in 1..(n + 2) |-> IF i = n + 2 THEN z ELSE g[i]]
<1> HIDE DEF n, r
<1>3. h \in [1..(n + 2) -> Nat] /\ h[1] = v /\ h[n + 2] = z /\ h[n + 1] = w
  BY <1>1, <1>2 DEF n
<1>4. \A i \in 1..n : h[i] = g[i] /\ h[i + 1] = g[i + 1]
  BY <1>2
<1>5. \A i \in 1..n : Sees(r[i], h[i], h[i + 1])
  BY <1>1, <1>2, <1>4 DEF n
<1>6. Sees(r[n + 1], h[n + 1], h[n + 2])
  BY <1>2, <1>3
<1> HIDE DEF h
<1>7. \A i \in 1..(n + 1) : Sees(r[i], h[i], h[i + 1])
  <2> SUFFICES ASSUME NEW i \in 1..(n + 1) PROVE Sees(r[i], h[i], h[i + 1])
    OBVIOUS
  <2>1. CASE i \in 1..n  BY <1>5, <2>1
  <2>2. CASE i = n + 1
    <3>1. i + 1 = n + 2  BY <1>2, <2>2
    <3>. QED  BY <1>6, <2>2, <3>1
  <2>. QED  BY <1>2, <2>1, <2>2
<1>8. Len(r) + 1 = n + 2  BY <1>2
<1>9. Numbered(r, v, z)
  BY <1>2, <1>3, <1>7, <1>8, ZenonT(20) DEF Numbered
<1>. QED  BY <1>9 DEF r

LEMMA NumberedTail ==
  ASSUME NEW q, IsQueue(q), q # <<>>, NEW v, NEW w, Numbered(q, v, w)
  PROVE  \E u \in Nat : Sees(Head(q), v, u) /\ Numbered(Tail(q), u, w)
<1>1. PICK g \in [1..(Len(q) + 1) -> Nat] :
         g[1] = v /\ g[Len(q) + 1] = w /\ \A i \in 1..Len(q) : Sees(q[i], g[i], g[i + 1])
  BY DEF Numbered
<1> DEFINE n == Len(q)
<1> DEFINE r == Tail(q)
<1>2. /\ n \in Nat /\ n >= 1 /\ Len(r) = n - 1 /\ Head(q) = q[1]
      /\ \A i \in 1..(n - 1) : r[i] = q[i + 1]
  BY QueueTail
<1> DEFINE h == [i \in 1..n |-> g[i + 1]]
<1> HIDE DEF n, r
<1>3. h \in [1..n -> Nat] /\ h[n] = w /\ h[1] = g[2] /\ g[2] \in Nat
  BY <1>1, <1>2 DEF n
<1>4. \A i \in 1..(n - 1) : i + 1 \in 1..n /\ h[i] = g[i + 1] /\ h[i + 1] = g[(i + 1) + 1]
  BY <1>2
<1> HIDE DEF h
<1>5. \A i \in 1..(n - 1) : Sees(r[i], h[i], h[i + 1])
  <2> SUFFICES ASSUME NEW i \in 1..(n - 1) PROVE Sees(r[i], h[i], h[i + 1])
    OBVIOUS
  <2> DEFINE j == i + 1
  <2>1. j \in 1..n /\ h[i] = g[j] /\ h[j] = g[j + 1] /\ r[i] = q[j]  BY <1>2, <1>4
  <2> HIDE DEF j
  <2>2. Sees(q[j], g[j], g[j + 1])  BY <1>1, <2>1 DEF n
  <2>3. Sees(r[i], h[i], h[j])  BY <2>1, <2>2
  <2>. QED  BY <2>3 DEF j
<1>6. Len(r) + 1 = n  BY <1>2
<1>7. Numbered(r, g[2], w)
  BY <1>2, <1>3, <1>5, <1>6, ZenonT(20) DEF Numbered
<1>8. Sees(q[1], g[1], g[1 + 1])  BY <1>1, <1>2 DEF n
<1>9. 1 + 1 = 2  OBVIOUS
<1>. QED  BY <1>1, <1>2, <1>3, <1>7, <1>8, <1>9 DEF r

(* The generations they belong to: the actor's and those of the resets in  *)
(* the queue, none beyond the one the editor has reached.                  *)
Rises(c, a, b) == a <= b /\ (c.cmd = "ResetTracked" => a + 1 <= b)

Reached(q, a, b) ==
  \E g \in [1..(Len(q) + 1) -> 0..b] :
     g[1] = a /\ \A i \in 1..Len(q) : Rises(q[i], g[i], g[i + 1])

LEMMA ReachedEmpty == ASSUME NEW b \in Nat PROVE Reached(<<>>, 0, b)
<1> DEFINE g == [i \in 1..1 |-> 0]
<1>1. Len(<<>>) = 0 /\ 0 + 1 = 1 /\ 1..0 = {}  OBVIOUS
<1>2. g \in [1..1 -> 0..b] /\ g[1] = 0  OBVIOUS
<1> HIDE DEF g
<1>3. g \in [1..(Len(<<>>) + 1) -> 0..b] /\ 1..Len(<<>>) = {}
  BY <1>1, <1>2
<1>. QED  BY <1>2, <1>3 DEF Reached

LEMMA ReachedMore ==
  ASSUME NEW q, IsQueue(q), NEW a, NEW b \in Nat, Reached(q, a, b), NEW z \in Nat, b <= z
  PROVE  Reached(q, a, z) /\ a \in 0..z
<1>1. PICK g \in [1..(Len(q) + 1) -> 0..b] :
         g[1] = a /\ \A i \in 1..Len(q) : Rises(q[i], g[i], g[i + 1])
  BY DEF Reached
<1>2. Len(q) \in Nat  BY QueueAppend
<1>3. g \in [1..(Len(q) + 1) -> 0..z] /\ g[1] \in 0..z  BY <1>1, <1>2
<1>. QED  BY <1>1, <1>3 DEF Reached

LEMMA ReachedAppend ==
  ASSUME NEW q, IsQueue(q), NEW a, NEW b \in Nat, Reached(q, a, b), NEW c, NEW z \in Nat, Rises(c, b, z)
  PROVE  Reached(Append(q, c), a, z)
<1>1. PICK g \in [1..(Len(q) + 1) -> 0..b] :
         g[1] = a /\ \A i \in 1..Len(q) : Rises(q[i], g[i], g[i + 1])
  BY DEF Reached
<1> DEFINE n == Len(q)
<1> DEFINE r == Append(q, c)
<1>2. n \in Nat /\ Len(r) = n + 1 /\ r[n + 1] = c /\ \A i \in 1..n : r[i] = q[i]
  BY QueueAppend
<1> DEFINE h == [i \in 1..(n + 2) |-> IF i = n + 2 THEN z ELSE g[i]]
<1> HIDE DEF n, r
<1>3. h[1] = a /\ h[n + 2] = z /\ h[n + 1] \in 0..b /\ b <= z
  BY <1>1, <1>2 DEF n, Rises
<1>4. h \in [1..(n + 2) -> 0..z]
  BY <1>1, <1>2, <1>3 DEF n
<1>5. \A i \in 1..n : h[i] = g[i] /\ h[i + 1] = g[i + 1]
  BY <1>2
<1> HIDE DEF h
<1>6. \A i \in 1..n : Rises(r[i], h[i], h[i + 1])
  BY <1>1, <1>2, <1>5 DEF n
<1>7. Rises(r[n + 1], h[n + 1], h[n + 2])
  BY <1>2, <1>3 DEF Rises
<1>8. \A i \in 1..(n + 1) : Rises(r[i], h[i], h[i + 1])
  <2> SUFFICES ASSUME NEW i \in 1..(n + 1) PROVE Rises(r[i], h[i], h[i + 1])
    OBVIOUS
  <2>1. CASE i \in 1..n  BY <1>6, <2>1
  <2>2. CASE i = n + 1
    <3>1. i + 1 = n + 2  BY <1>2, <2>2
    <3>. QED  BY <1>7, <2>2, <3>1
  <2>. QED  BY <1>2, <2>1, <2>2
<1>9. Len(r) + 1 = n + 2  BY <1>2
<1>10. Reached(r, a, z)
  BY <1>2, <1>3, <1>4, <1>8, <1>9 DEF Reached
<1>. QED  BY <1>10 DEF r

LEMMA ReachedTail ==
  ASSUME NEW q, IsQueue(q), q # <<>>, NEW a, NEW b \in Nat, Reached(q, a, b)
  PROVE  \E u \in 0..b : Rises(Head(q), a, u) /\ Reached(Tail(q), u, b)
<1>1. PICK g \in [1..(Len(q) + 1) -> 0..b] :
         g[1] = a /\ \A i \in 1..Len(q) : Rises(q[i], g[i], g[i + 1])
  BY DEF Reached
<1> DEFINE n == Len(q)
<1> DEFINE r == Tail(q)
<1>2. /\ n \in Nat /\ n >= 1 /\ Len(r) = n - 1 /\ Head(q) = q[1]
      /\ \A i \in 1..(n - 1) : r[i] = q[i + 1]
  BY QueueTail
<1> DEFINE h == [i \in 1..n |-> g[i + 1]]
<1> HIDE DEF n, r
<1>3. h \in [1..n -> 0..b] /\ h[1] = g[2] /\ g[2] \in 0..b
  BY <1>1, <1>2 DEF n
<1>4. \A i \in 1..(n - 1) : i + 1 \in 1..n /\ h[i] = g[i + 1] /\ h[i + 1] = g[(i + 1) + 1]
  BY <1>2
<1> HIDE DEF h
<1>5. \A i \in 1..(n - 1) : Rises(r[i], h[i], h[i + 1])
  <2> SUFFICES ASSUME NEW i \in 1..(n - 1) PROVE Rises(r[i], h[i], h[i + 1])
    OBVIOUS
  <2> DEFINE j == i + 1
  <2>1. j \in 1..n /\ h[i] = g[j] /\ h[j] = g[j + 1] /\ r[i] = q[j]  BY <1>2, <1>4
  <2> HIDE DEF j
  <2>2. Rises(q[j], g[j], g[j + 1])  BY <1>1, <2>1 DEF n
  <2>3. Rises(r[i], h[i], h[j])  BY <2>1, <2>2
  <2>. QED  BY <2>3 DEF j
<1>6. Len(r) + 1 = n  BY <1>2
<1>7. Reached(r, g[2], b)
  BY <1>2, <1>3, <1>5, <1>6, ZenonT(20) DEF Reached
<1>8. Rises(q[1], g[1], g[1 + 1])  BY <1>1, <1>2 DEF n
<1>9. 1 + 1 = 2  OBVIOUS
<1>. QED  BY <1>1, <1>2, <1>3, <1>7, <1>8, <1>9 DEF r
LEMMA ReachedLess ==
  ASSUME NEW q, IsQueue(q), NEW a, NEW b \in Nat, Reached(q, a, b), NEW z \in Nat, z <= a
  PROVE  Reached(q, z, b)
<1>1. PICK g \in [1..(Len(q) + 1) -> 0..b] :
         g[1] = a /\ \A i \in 1..Len(q) : Rises(q[i], g[i], g[i + 1])
  BY DEF Reached
<1>2. Len(q) \in Nat  BY QueueAppend
<1> DEFINE h == [g EXCEPT ![1] = z]
<1>3. 1 \in 1..(Len(q) + 1) /\ a \in 0..b  BY <1>1, <1>2
<1>4. h \in [1..(Len(q) + 1) -> 0..b] /\ h[1] = z  BY <1>1, <1>3
<1>5. \A i \in 1..Len(q) : h[i] <= g[i] /\ h[i] \in Nat /\ g[i] \in Nat /\ h[i + 1] = g[i + 1] /\ g[i + 1] \in Nat
  BY <1>1, <1>2, <1>3
<1> HIDE DEF h
<1>6. \A i \in 1..Len(q) : Rises(q[i], h[i], h[i + 1])
  BY <1>1, <1>5 DEF Rises
<1>. QED  BY <1>4, <1>6 DEF Reached
-----------------------------------------------------------------------------
(* DocSyncState again: what its operations do to the pending changes.      *)
Deltas == Seq(Nat \X Nat)

Held(d) == d.pending \in Deltas /\ d.editorVersion \in Nat /\ d.needsFull \in BOOLEAN

LEMMA NoDeltas == <<>> \in Deltas /\ Len(<<>>) = 0 /\ Chain(<<>>)
BY DEF Deltas, Chain

LEMMA DeltaFacts ==
  ASSUME NEW ds \in Deltas, ds # <<>>
  PROVE  /\ Len(ds) \in Nat /\ Len(ds) >= 1
         /\ ds[1][1] \in Nat /\ ds[Len(ds)][2] \in Nat
<1>1. Len(ds) \in Nat /\ Len(ds) # 0 /\ \A i \in 1..Len(ds) : ds[i] \in Nat \X Nat
  BY LenProperties, EmptySeq, ElementOfSeq DEF Deltas
<1>2. 1 \in 1..Len(ds) /\ Len(ds) \in 1..Len(ds)  BY <1>1
<1>. QED  BY <1>1, <1>2

LEMMA DeltaAppend ==
  ASSUME NEW ds \in Deltas, Chain(ds), NEW x \in Nat, NEW y \in Nat,
         ds # <<>> => ds[Len(ds)][2] = x
  PROVE  LET e == Append(ds, <<x, y>>)
         IN  /\ Chain(e) /\ e # <<>> /\ e[Len(e)][2] = y
             /\ e[1][1] = IF ds = <<>> THEN x ELSE ds[1][1]
<1> DEFINE e == Append(ds, <<x, y>>)
<1> DEFINE n == Len(ds)
<1>1. <<x, y>> \in Nat \X Nat  OBVIOUS
<1>2. n \in Nat /\ Len(e) = n + 1 /\ e[n + 1] = <<x, y>> /\ \A i \in 1..n : e[i] = ds[i]
  BY <1>1, AppendProperties, LenProperties DEF Deltas
<1>3. ds = <<>> <=> n = 0  BY EmptySeq DEF Deltas
<1>4. \A i \in 1..(n - 1) : ds[i][2] = ds[i + 1][1]  BY DEF Chain
<1> HIDE DEF e, n
<1>5. \A i \in 1..n : e[i][2] = e[i + 1][1]
  <2> SUFFICES ASSUME NEW i \in 1..n PROVE e[i][2] = e[i + 1][1]
    OBVIOUS
  <2>1. CASE i \in 1..(n - 1)
    <3>1. i + 1 \in 1..n  BY <1>2, <2>1
    <3>. QED  BY <1>2, <1>4, <2>1, <3>1
  <2>2. CASE i = n
    <3>1. ds # <<>>  BY <1>2, <1>3, <2>2
    <3>2. e[n][2] = x  BY <1>2, <2>2, <3>1 DEF n
    <3>. QED  BY <1>2, <2>2, <3>2
  <2>. QED  BY <1>2, <2>1, <2>2
<1>6. Chain(e)
  <2>1. Len(e) - 1 = n  BY <1>2
  <2>. QED  BY <1>5, <2>1 DEF Chain
<1>7. e[1][1] = IF ds = <<>> THEN x ELSE ds[1][1]
  <2>1. CASE n = 0  BY <1>2, <1>3, <2>1
  <2>2. CASE n # 0
    <3>1. 1 \in 1..n  BY <1>2, <2>2
    <3>. QED  BY <1>2, <1>3, <2>2, <3>1
  <2>. QED  BY <2>1, <2>2
<1>8. e[Len(e)][2] = y  BY <1>2
<1>9. e # <<>>  BY <1>2, NoDeltas
<1>. QED  BY <1>6, <1>7, <1>8, <1>9 DEF e

LEMMA EscalateHeld ==
  ASSUME NEW d, Shape(d), Held(d)
  PROVE  LET e == escalate_full(d)
         IN  Held(e) /\ e.needsFull /\ e.pending = <<>> /\ e.editorVersion = d.editorVersion
BY NoDeltas DEF Shape, Held, escalate_full

(* A change is added, or the whole text asked for.                         *)
Recorded(d, prev, new, e) ==
  /\ Held(e) /\ e.expectedPrev = new /\ e.editorVersion = new
  /\ \/ e.needsFull /\ e.pending = <<>>
     \/ e.needsFull = d.needsFull /\ e.pending = Append(d.pending, <<prev, new>>)

LEMMA RecordHeld ==
  ASSUME NEW d, Shape(d), Held(d), NEW prev \in Nat, NEW new \in Nat
  PROVE  Recorded(d, prev, new, record_changes(d, prev, new))
<1> DEFINE e == [d EXCEPT !.quiet = FALSE, !.expectedPrev = new, !.editorVersion = new]
<1>1. /\ Shape(e) /\ Held(e) /\ e.expectedPrev = new /\ e.editorVersion = new
      /\ e.needsFull = d.needsFull /\ e.pending = d.pending
  BY DEF Shape, Held
<1> HIDE DEF e
<1> DEFINE f == [e EXCEPT !.pending = Append(@, <<prev, new>>)]
<1> DEFINE h == escalate_full(e)
<1>2. Append(d.pending, <<prev, new>>) \in Deltas
  <2>1. <<prev, new>> \in Nat \X Nat  OBVIOUS
  <2>. QED  BY <2>1, AppendProperties DEF Deltas, Held
<1>3. /\ Shape(f) /\ Held(f) /\ f.expectedPrev = new /\ f.editorVersion = new
      /\ f.needsFull = d.needsFull /\ f.pending = Append(d.pending, <<prev, new>>)
  BY <1>1, <1>2 DEF Shape, Held
<1>4. /\ Shape(h) /\ Held(h) /\ h.expectedPrev = new /\ h.editorVersion = new
      /\ h.needsFull /\ h.pending = <<>>
  BY <1>1, NoDeltas DEF Shape, Held, escalate_full
<1>5. record_changes(d, prev, new) = Debounce(f) \/ record_changes(d, prev, new) = Debounce(h)
  BY DEF record_changes, e
<1> HIDE DEF f, h
<1>6. ASSUME NEW x, Shape(x), Held(x)
      PROVE  LET y == Debounce(x)
             IN  /\ Held(y) /\ y.expectedPrev = x.expectedPrev /\ y.editorVersion = x.editorVersion
                 /\ y.needsFull = x.needsFull /\ y.pending = x.pending
  BY <1>6 DEF Shape, Held, Debounce
<1>7. Recorded(d, prev, new, Debounce(f))  BY <1>3, <1>6 DEF Recorded
<1>8. Recorded(d, prev, new, Debounce(h))  BY <1>4, <1>6 DEF Recorded
<1>. QED  BY <1>5, <1>7, <1>8

LEMMA TakeHeld ==
  ASSUME NEW d, Shape(d), Held(d), NEW full \in BOOLEAN
  PROVE  LET e == take_for_send(d, full)
         IN  Held(e) /\ e.pending = <<>> /\ e.needsFull = (d.needsFull /\ ~full) /\ e.editorVersion = d.editorVersion
BY NoDeltas DEF Shape, Held, take_for_send

LEMMA CompleteHeld ==
  ASSUME NEW d, Shape(d), Held(d), NEW full, NEW result \in {"Success", "Retryable", "Failed"}
  PROVE  LET e == mark_complete(d, result, full)
         IN  /\ Held(e) /\ e.pending = d.pending /\ e.editorVersion = d.editorVersion
             /\ e.expectedPrev \in {d.expectedPrev, d.editorVersion}
             /\ IF result = "Failed" THEN e.needsFull ELSE e.needsFull = d.needsFull
<1> DEFINE e == mark_complete(d, result, full)
<1>1. CASE result = "Success"
  <2>1. e = [d EXCEPT !.inflight = FALSE, !.retry = FALSE,
                   !.phase = IF d.pending = <<>> /\ ~d.needsFull THEN "Idle" ELSE "Debouncing",
                   !.expectedPrev = IF full THEN d.editorVersion ELSE @]
    BY <1>1 DEF mark_complete
  <2>. QED  BY <1>1, <2>1, ZenonT(20) DEF Shape, Held
<1>2. CASE result = "Retryable"
  <2>1. e = mark_error_retry(d)  BY <1>2 DEF mark_complete
  <2>. QED  BY <1>2, <2>1, ZenonT(20) DEF Shape, Held, mark_error_retry
<1>3. CASE result = "Failed"
  <2>1. e = [mark_error_retry(d) EXCEPT !.needsFull = TRUE]  BY <1>3 DEF mark_complete
  <2>. QED  BY <1>3, <2>1, ZenonT(20) DEF Shape, Held, mark_error_retry
<1>. QED  BY <1>1, <1>2, <1>3

LEMMA TimeoutHeld ==
  ASSUME NEW d, Shape(d), Held(d)
  PROVE  LET e == check_write_timeout(d)
         IN  Held(e) /\ (e = d \/ (e.needsFull /\ e.pending = <<>> /\ ~e.inflight))
<1>1. CASE d.inflight /\ d.expired
  BY <1>1, NoDeltas DEF Shape, Held, check_write_timeout, escalate_full
<1>2. CASE ~(d.inflight /\ d.expired)
  BY <1>2 DEF check_write_timeout
<1>. QED  BY <1>1, <1>2
-----------------------------------------------------------------------------
(* The server's copy.  While the document needs no full text, its pending  *)
(* changes start from what the server has once the send in flight, if      *)
(* there is one, has been written; and they end in the newest version the  *)
(* actor has been told of.                                                 *)
CmdTyped(c) ==
  /\ c.cmd = "Edit" => c.prev \in Nat /\ c.new \in Nat
  /\ c.cmd = "Tick" => c.snapshot \in Nat \cup {NoVersion}
  /\ c.cmd = "FlushNow" => c.snapshot \in Nat
  /\ c.cmd = "ResetTracked" => c.version \in Nat

TaskTyped(t) ==
  /\ t.full \in BOOLEAN
  /\ IF t.full THEN t.text \in Nat ELSE t.deltas \in Deltas /\ t.deltas # <<>>

Typed ==
  /\ version \in Nat /\ path \in Paths /\ server \in [Paths -> Int] /\ Held(doc)
  /\ \A k \in DOMAIN cmds : CmdTyped(cmds[k])
  /\ \A i \in DOMAIN sends : TaskTyped(sends[i])
  /\ Reached(cmds, doc.generation, path)

Opened(ss, cs, sv) ==
  /\ \A i \in DOMAIN ss :
       ss[i].state \in {"Success", "Retryable"} \/ ~ss[i].full => sv[ss[i].generation] # NotOpen
  /\ \A k \in DOMAIN cs : IsReport(cs[k]) /\ cs[k].result # "Failed" => sv[cs[k].generation] # NotOpen

DocOpen(d, sv) == ~d.needsFull /\ ~d.inflight => sv[d.generation] # NotOpen

Pend(d, v) ==
  /\ Chain(d.pending)
  /\ d.pending # <<>> => d.pending[Len(d.pending)][2] = v /\ d.expectedPrev = v /\ d.editorVersion = v

Base(d, v) == IF d.pending = <<>> THEN v ELSE d.pending[1][1]
Result(t) == IF t.full THEN t.text ELSE t.deltas[Len(t.deltas)][2]

Intact(ss, cs, sv) ==
  /\ \A p \in Paths : sv[p] # Garbled
  /\ \A i \in DOMAIN ss :
       /\ ss[i].state # "Retryable"
       /\ ss[i].state = "spawned" /\ ~ss[i].full =>
            Chain(ss[i].deltas) /\ sv[ss[i].generation] = ss[i].deltas[1][1]
  /\ \A k \in DOMAIN cs : IsReport(cs[k]) => cs[k].result # "Retryable"

Outcome(ss, cs, sv, g, x) ==
  /\ \A i \in DOMAIN ss : ss[i].generation = g =>
       /\ ss[i].state = "spawned" => Result(ss[i]) = x
       /\ ss[i].state = "Success" => sv[g] = x
  /\ \A k \in DOMAIN cs : IsReport(cs[k]) /\ cs[k].generation = g /\ cs[k].result = "Success" => sv[g] = x

Current(d, v, ss, cs, sv) ==
  ~d.needsFull => /\ Outcome(ss, cs, sv, d.generation, Base(d, v))
                  /\ ~d.inflight => sv[d.generation] = Base(d, v)

Exact(v) ==
  /\ Numbered(cmds, v, version) /\ Pend(doc, v)
  /\ faults \subseteq {"fail"} => Intact(sends, cmds, server) /\ Current(doc, v, sends, cmds, server)

TextInv ==
  /\ Typed /\ Opened(sends, cmds, server) /\ DocOpen(doc, server)
  /\ "drop" \notin faults => \E v \in Nat : Exact(v)

LEMMA TextInit == Init => TextInv
<1> SUFFICES ASSUME Init PROVE TextInv
  OBVIOUS
<1>1. sends = <<>> /\ cmds = <<>> /\ DOMAIN sends = {} /\ DOMAIN cmds = {}  BY DEF Init
<1>2. doc = NewDoc(0, ready, 0) /\ version = 0 /\ path = 0 /\ server = [p \in Paths |-> NotOpen]
  BY DEF Init
<1>3. /\ Held(doc) /\ doc.needsFull /\ doc.pending = <<>> /\ doc.generation = 0
  BY <1>2, NoDeltas DEF NewDoc, Held
<1>4. Reached(<<>>, 0, 0) /\ Numbered(<<>>, 0, 0)  BY ReachedEmpty, NumberedEmpty
<1>5. path \in Paths /\ server \in [Paths -> Int] /\ \A p \in Paths : server[p] # Garbled
  BY <1>2, LspSyncAssumption DEF Paths, NotOpen, Garbled
<1>6. Typed  BY <1>1, <1>2, <1>3, <1>4, <1>5 DEF Typed
<1>7. Opened(sends, cmds, server) /\ DocOpen(doc, server)  BY <1>1, <1>3 DEF Opened, DocOpen
<1>8. Exact(0)
  BY <1>1, <1>2, <1>3, <1>4, <1>5, NoDeltas DEF Exact, Pend, Intact, Current
<1>. QED  BY <1>6, <1>7, <1>8 DEF TextInv

(* No more completions are queued than before.                             *)
Fewer(ds, cs) == \A k \in DOMAIN ds : IsReport(ds[k]) => \E l \in DOMAIN cs : ds[k] = cs[l]

LEMMA FewerReports ==
  ASSUME NEW ss, NEW cs, NEW ds, NEW sv, Fewer(ds, cs)
  PROVE  /\ Opened(ss, cs, sv) => Opened(ss, ds, sv)
         /\ Intact(ss, cs, sv) => Intact(ss, ds, sv)
         /\ \A d, v : Current(d, v, ss, cs, sv) => Current(d, v, ss, ds, sv)
<1>1. Opened(ss, cs, sv) => Opened(ss, ds, sv)  BY DEF Opened, Fewer
<1>2. Intact(ss, cs, sv) => Intact(ss, ds, sv)  BY DEF Intact, Fewer
<1>3. ASSUME NEW g, NEW x, Outcome(ss, cs, sv, g, x) PROVE Outcome(ss, ds, sv, g, x)
  BY <1>3 DEF Outcome, Fewer
<1>. QED  BY <1>1, <1>2, <1>3 DEF Current

(* The editor posts a command, or it is dropped.                           *)
LEMMA PostText ==
  ASSUME SyncInv, TextInv, UNCHANGED <<doc, sends, server>>, version' \in Nat, path' \in Paths,
         NEW c, ~IsReport(c), CmdTyped(c), Rises(c, path, path'),
         \/ cmds' = Append(cmds, c) /\ Sees(c, version, version') /\ UNCHANGED faults
         \/ cmds' = cmds /\ "drop" \in faults'
         \/ cmds' = cmds /\ UNCHANGED <<version, path, faults>>
  PROVE  TextInv'
<1>1. IsQueue(cmds) /\ path \in Nat /\ path' \in Nat /\ path <= path'
  BY DEF SyncInv, TextInv, Typed, Paths, Rises
<1>2. Reached(cmds, doc.generation, path)  BY DEF TextInv, Typed
<1>3. CASE cmds' = cmds
  <2>1. Reached(cmds, doc.generation, path')  BY <1>1, <1>2, ReachedMore
  <2>2. Typed'  BY <1>3, <2>1 DEF TextInv, Typed
  <2>3. ASSUME "drop" \notin faults' PROVE \E v \in Nat : Exact(v)'
    <3>1. UNCHANGED <<version, faults>>
      <4>1. CASE cmds' = Append(cmds, c)
        BY <1>1, <1>3, <4>1, QueueAppend
      <4>. QED  BY <2>3, <4>1
    <3>2. PICK v \in Nat : Exact(v)  BY <2>3, <3>1 DEF TextInv
    <3>3. Exact(v)'  BY <1>3, <3>1, <3>2 DEF Exact
    <3>. QED  BY <3>3
  <2>. QED  BY <1>3, <2>2, <2>3 DEF TextInv
<1>4. CASE cmds' = Append(cmds, c) /\ cmds' # cmds
  <2>1. /\ IsQueue(cmds') /\ Len(cmds) \in Nat /\ DOMAIN cmds = 1..Len(cmds)
        /\ DOMAIN cmds' = 1..(Len(cmds) + 1) /\ cmds'[Len(cmds) + 1] = c
        /\ \A i \in 1..Len(cmds) : cmds'[i] = cmds[i]
    BY <1>1, <1>4, QueueAppend
  <2>2. \A k \in DOMAIN cmds' : cmds'[k] = c \/ (k \in DOMAIN cmds /\ cmds'[k] = cmds[k])
    BY <2>1
  <2>3. Fewer(cmds', cmds) /\ \A k \in DOMAIN cmds' : CmdTyped(cmds'[k])
    BY <2>2 DEF Fewer, TextInv, Typed
  <2>4. Reached(cmds', doc.generation, path')  BY <1>1, <1>2, <1>4, ReachedAppend
  <2>5. Typed'  BY <2>3, <2>4 DEF TextInv, Typed
  <2>6. /\ Opened(sends, cmds', server)
        /\ Intact(sends, cmds, server) => Intact(sends, cmds', server)
        /\ \A d, v : Current(d, v, sends, cmds, server) => Current(d, v, sends, cmds', server)
    BY <2>3, FewerReports, ZenonT(20) DEF TextInv
  <2>7. ASSUME "drop" \notin faults' PROVE \E v \in Nat : Exact(v)'
    <3>1. Sees(c, version, version') /\ UNCHANGED faults  BY <1>4, <2>7
    <3>2. PICK v \in Nat : Exact(v)  BY <2>7, <3>1 DEF TextInv
    <3>3. Numbered(cmds', v, version')  BY <1>1, <1>4, <3>1, <3>2, NumberedAppend DEF Exact
    <3>4. Exact(v)'  BY <2>6, <3>1, <3>2, <3>3 DEF Exact
    <3>. QED  BY <3>4
  <2>. QED  BY <2>5, <2>6, <2>7 DEF TextInv
<1>. QED  BY <1>3, <1>4

(* The actor takes a command.                                              *)
LEMMA TailText ==
  ASSUME SyncInv, TextInv, cmds # <<>>, cmds' = Tail(cmds)
  PROVE  /\ CmdTyped(Head(cmds)) /\ \A k \in DOMAIN cmds' : CmdTyped(cmds'[k])
         /\ Fewer(cmds', cmds) /\ doc.generation \in Paths
         /\ Reached(cmds', doc.generation, path)
         /\ Head(cmds).cmd = "ResetTracked" => Reached(cmds', doc.generation + 1, path)
         /\ \A v : Numbered(cmds, v, version) =>
              \E u \in Nat : Sees(Head(cmds), v, u) /\ Numbered(cmds', u, version)
<1>1. IsQueue(cmds) /\ path \in Nat /\ path <= MaxResets /\ MaxResets \in Nat /\ doc.generation \in Nat
  BY LspSyncAssumption DEF SyncInv, TextInv, Typed, Paths, Shape
<1>2. Reached(cmds, doc.generation, path)  BY DEF TextInv, Typed
<1>3. /\ IsQueue(cmds') /\ 1 \in DOMAIN cmds /\ Head(cmds) = cmds[1]
      /\ \A k \in DOMAIN cmds' : k + 1 \in DOMAIN cmds /\ cmds'[k] = cmds[k + 1]
  BY TailFacts
<1>4. /\ CmdTyped(Head(cmds)) /\ \A k \in DOMAIN cmds' : CmdTyped(cmds'[k])
      /\ Fewer(cmds', cmds)
  BY <1>3 DEF TextInv, Typed, Fewer
<1>5. doc.generation \in Paths
  <2>1. doc.generation \in 0..path  BY <1>1, <1>2, ReachedMore
  <2>. QED  BY <1>1, <2>1 DEF Paths
<1>6. PICK u \in 0..path : Rises(Head(cmds), doc.generation, u) /\ Reached(cmds', u, path)
  BY <1>1, <1>2, ReachedTail
<1>7. Reached(cmds', doc.generation, path)
  BY <1>1, <1>3, <1>6, ReachedLess DEF Rises
<1>8. ASSUME Head(cmds).cmd = "ResetTracked" PROVE Reached(cmds', doc.generation + 1, path)
  <2> DEFINE z == doc.generation + 1
  <2>1. z \in Nat /\ z <= u  BY <1>1, <1>6, <1>8 DEF Rises
  <2> HIDE DEF z
  <2>2. Reached(cmds', z, path)  BY <1>1, <1>3, <1>6, <2>1, ReachedLess
  <2>. QED  BY <2>2 DEF z
<1>9. \A v : Numbered(cmds, v, version) =>
         \E w \in Nat : Sees(Head(cmds), v, w) /\ Numbered(cmds', w, version)
  BY <1>1, NumberedTail
<1>. QED  BY <1>4, <1>5, <1>7, <1>8, <1>9

(* A command that starts no send.                                          *)
LEMMA QuietText ==
  ASSUME SyncInv, TextInv, cmds # <<>>, cmds' = Tail(cmds),
         UNCHANGED <<version, path, server, sends, faults>>,
         Held(doc'), DocOpen(doc', server),
         doc'.generation = IF Head(cmds).cmd = "ResetTracked" THEN doc.generation + 1 ELSE doc.generation,
         \A v, u \in Nat : Sees(Head(cmds), v, u) /\ Pend(doc, v) =>
           /\ Pend(doc', u)
           /\ Intact(sends, cmds, server) /\ Current(doc, v, sends, cmds, server) =>
                Current(doc', u, sends, cmds, server)
  PROVE  TextInv'
<1>1. /\ \A k \in DOMAIN cmds' : CmdTyped(cmds'[k])
      /\ Fewer(cmds', cmds) /\ Reached(cmds', doc'.generation, path)
      /\ \A v : Numbered(cmds, v, version) =>
              \E u \in Nat : Sees(Head(cmds), v, u) /\ Numbered(cmds', u, version)
  BY TailText
<1>2. Typed'  BY <1>1 DEF TextInv, Typed
<1>3. /\ Opened(sends, cmds', server)
      /\ Intact(sends, cmds, server) => Intact(sends, cmds', server)
      /\ \A d, v : Current(d, v, sends, cmds, server) => Current(d, v, sends, cmds', server)
  BY <1>1, FewerReports DEF TextInv
<1>4. ASSUME "drop" \notin faults PROVE \E v \in Nat : Exact(v)'
  <2>1. PICK v \in Nat : Exact(v)  BY <1>4 DEF TextInv
  <2>2. PICK u \in Nat : Sees(Head(cmds), v, u) /\ Numbered(cmds', u, version)
    BY <1>1, <2>1 DEF Exact
  <2>3. Exact(u)'  BY <1>3, <2>1, <2>2 DEF Exact
  <2>. QED  BY <2>3
<1>. QED  BY <1>2, <1>3, <1>4 DEF TextInv

LEMMA EditText ==
  ASSUME SyncInv, TextInv, Handle, HandleEdit(Head(cmds))
  PROVE  TextInv'
<1> DEFINE c == Head(cmds)
<1>1. /\ cmds # <<>> /\ cmds' = Tail(cmds) /\ UNCHANGED <<version, path, server, sends, faults>>
      /\ c.cmd = "Edit" /\ doc' = record_changes(doc, c.prev, c.new)
  BY DEF Handle, HandleEdit, NoSend, Becomes
<1> DEFINE x == c.prev
<1> DEFINE y == c.new
<1>2. x \in Nat /\ y \in Nat  BY <1>1, TailText DEF CmdTyped
<1>3. Shape(doc) /\ Held(doc) /\ DocOpen(doc, server)  BY DEF SyncInv, TextInv, Typed
<1>4. doc'.generation = doc.generation /\ doc'.inflight = doc.inflight
  BY <1>1, <1>3, RecordAlike DEF Alike
<1>0. doc' = record_changes(doc, x, y)  BY <1>1
<1> HIDE DEF x, y
<1>5. /\ Held(doc') /\ doc'.expectedPrev = y /\ doc'.editorVersion = y
      /\ \/ doc'.needsFull /\ doc'.pending = <<>>
         \/ doc'.needsFull = doc.needsFull /\ doc'.pending = Append(doc.pending, <<x, y>>)
  <2>1. Recorded(doc, x, y, doc')  BY <1>0, <1>2, <1>3, RecordHeld
  <2>. QED  BY <2>1 DEF Recorded
<1>6. DocOpen(doc', server)  BY <1>3, <1>4, <1>5 DEF DocOpen
<1> HIDE DEF c
<1>7. ASSUME NEW v \in Nat, NEW u \in Nat, Sees(c, v, u), Pend(doc, v)
      PROVE  /\ Pend(doc', u)
             /\ Current(doc, v, sends, cmds, server) => Current(doc', u, sends, cmds, server)
  <2>1. x = v /\ y = u  BY <1>1, <1>7 DEF Sees, x, y
  <2>2. CASE doc'.needsFull /\ doc'.pending = <<>>
    BY <2>2, NoDeltas DEF Pend, Current
  <2>3. CASE doc'.needsFull = doc.needsFull /\ doc'.pending = Append(doc.pending, <<x, y>>)
    <3>1. /\ Chain(doc'.pending) /\ doc'.pending # <<>> /\ doc'.pending[Len(doc'.pending)][2] = u
          /\ doc'.pending[1][1] = Base(doc, v)
      BY <1>2, <1>3, <1>7, <2>1, <2>3, DeltaAppend DEF Held, Pend, Base
    <3>3. Base(doc', u) = Base(doc, v)  BY <3>1 DEF Base
    <3>. QED  BY <1>4, <1>5, <2>1, <2>3, <3>1, <3>3 DEF Pend, Current
  <2>. QED  BY <1>5, <2>2, <2>3
<1>. QED  BY <1>1, <1>4, <1>5, <1>6, <1>7, QuietText, ZenonT(20) DEF c

LEMMA EscalateText ==
  ASSUME SyncInv, TextInv, Handle, HandleEscalate(Head(cmds))
  PROVE  TextInv'
<1>1. /\ cmds # <<>> /\ cmds' = Tail(cmds) /\ UNCHANGED <<version, path, server, sends, faults>>
      /\ Head(cmds).cmd = "EscalateFull" /\ doc' = escalate_full(doc)
  BY DEF Handle, HandleEscalate, NoSend, Becomes
<1>2. Shape(doc) /\ Held(doc)  BY DEF SyncInv, TextInv, Typed
<1>3. doc'.generation = doc.generation  BY <1>1, <1>2, EscalateAlike DEF Alike
<1>4. Held(doc') /\ doc'.needsFull /\ doc'.pending = <<>>  BY <1>1, <1>2, EscalateHeld
<1>5. /\ DocOpen(doc', server)
      /\ \A u \in Nat : Pend(doc', u) /\ Current(doc', u, sends, cmds, server)
  BY <1>4, NoDeltas DEF DocOpen, Pend, Current
<1>. QED  BY <1>1, <1>3, <1>4, <1>5, QuietText

LEMMA ResetText ==
  ASSUME SyncInv, TextInv, Handle, HandleReset(Head(cmds))
  PROVE  TextInv'
<1> DEFINE c == Head(cmds)
<1>1. /\ cmds # <<>> /\ cmds' = Tail(cmds) /\ UNCHANGED <<version, path, server, sends, faults>>
      /\ c.cmd = "ResetTracked" /\ doc' = NewDoc(doc.generation + 1, c.incremental, c.version)
  BY ZenonT(20) DEF Handle, HandleReset, NoSend, Becomes
<1>2. c.version \in Nat  BY <1>1, TailText DEF CmdTyped
<1>3. doc'.generation = doc.generation + 1 /\ Held(doc') /\ doc'.needsFull /\ doc'.pending = <<>>
  BY <1>1, <1>2, NoDeltas DEF NewDoc, Held
<1>4. /\ DocOpen(doc', server)
      /\ \A u \in Nat : Pend(doc', u) /\ Current(doc', u, sends, cmds, server)
  BY <1>3, NoDeltas DEF DocOpen, Pend, Current
<1>. QED  BY <1>1, <1>3, <1>4, QuietText

LEMMA CompleteText ==
  ASSUME SyncInv, TextInv, Handle, HandleComplete(Head(cmds))
  PROVE  TextInv'
<1> DEFINE c == Head(cmds)
<1>1. /\ cmds # <<>> /\ cmds' = Tail(cmds) /\ UNCHANGED <<version, path, server, sends, faults>>
      /\ IsReport(c) /\ c.cmd = "SendComplete"
      /\ doc' = IF c.generation = doc.generation THEN mark_complete(doc, c.result, c.full) ELSE doc
  BY DEF Handle, HandleComplete, NoSend, Becomes, IsReport
<1>2. 1 \in DOMAIN cmds /\ c = cmds[1]  BY <1>1, TailFacts
<1>3. c.result \in {"Success", "Retryable", "Failed"}
  BY <1>1, <1>2 DEF SyncInv, Report, States
<1>4. Shape(doc) /\ Held(doc) /\ DocOpen(doc, server) /\ Opened(sends, cmds, server)
  BY DEF SyncInv, TextInv, Typed
<1>5. CASE c.generation # doc.generation
  <2>1. doc' = doc  BY <1>1, <1>5
  <2>2. \A v, u \in Nat : Sees(c, v, u) => u = v  BY <1>1 DEF Sees
  <2>. QED  BY <1>1, <1>4, <2>1, <2>2, QuietText
<1>6. CASE c.generation = doc.generation
  <2>1. doc'.generation = doc.generation /\ ~doc'.inflight
    BY <1>1, <1>3, <1>4, <1>6, CompleteEnds
  <2>2. /\ Held(doc') /\ doc'.pending = doc.pending /\ doc'.editorVersion = doc.editorVersion
        /\ doc'.expectedPrev \in {doc.expectedPrev, doc.editorVersion}
        /\ IF c.result = "Failed" THEN doc'.needsFull ELSE doc'.needsFull = doc.needsFull
    BY <1>1, <1>3, <1>4, <1>6, CompleteHeld
  <2>3. c.result # "Failed" => server[doc.generation] # NotOpen
    BY <1>1, <1>2, <1>4, <1>6, ZenonT(20) DEF Opened
  <2>4. DocOpen(doc', server)  BY <2>1, <2>2, <2>3 DEF DocOpen
  <2> HIDE DEF c
  <2>5. ASSUME NEW v \in Nat, NEW u \in Nat, Sees(c, v, u), Pend(doc, v)
        PROVE  /\ Pend(doc', u)
               /\ Intact(sends, cmds, server) /\ Current(doc, v, sends, cmds, server) =>
                    Current(doc', u, sends, cmds, server)
    <3>1. u = v  BY <1>1, <2>5 DEF Sees
    <3>2. Pend(doc', u)  BY <2>2, <2>5, <3>1 DEF Pend
    <3>3. Base(doc', u) = Base(doc, v)  BY <2>2, <3>1 DEF Base
    <3>4. ASSUME Intact(sends, cmds, server), Current(doc, v, sends, cmds, server), ~doc'.needsFull
          PROVE  /\ Outcome(sends, cmds, server, doc.generation, Base(doc, v))
                 /\ server[doc.generation] = Base(doc, v)
      <4>1. c.result # "Failed" /\ ~doc.needsFull  BY <2>2, <3>4, ZenonT(20)
      <4>2. c.result # "Retryable"  BY <1>1, <1>2, <3>4 DEF Intact
      <4>3. Outcome(sends, cmds, server, doc.generation, Base(doc, v))  BY <3>4, <4>1 DEF Current
      <4>. QED  BY <1>1, <1>2, <1>3, <1>6, <4>1, <4>2, <4>3 DEF Outcome
    <3>. QED  BY <2>1, <3>2, <3>3, <3>4, ZenonT(20) DEF Current
  <2>. QED  BY <1>1, <2>1, <2>2, <2>4, <2>5, QuietText, ZenonT(20) DEF c
<1>. QED  BY <1>5, <1>6

(* A tick or a flush: a write that timed out is given up, and what is      *)
(* pending is sent, or not.                                                *)
Settled(c, d) ==
  /\ Shape(d) /\ Held(d) /\ d.generation = doc.generation
  /\ "slow" \notin faults /\ ~d.inflight => TaskGone
  /\ \/ d.needsFull /\ d.pending = <<>>
     \/ /\ d.inflight = doc.inflight /\ d.needsFull = doc.needsFull /\ d.pending = doc.pending
        /\ d.expectedPrev = doc.expectedPrev
        /\ d.editorVersion = doc.editorVersion \/ (c.cmd = "FlushNow" /\ d.editorVersion = c.snapshot)

Sent(c, d, full) ==
  /\ ~d.inflight /\ full \in BOOLEAN
  /\ IF full THEN c.snapshot # NoVersion ELSE ~d.needsFull /\ d.pending # <<>>
  /\ doc' = take_for_send(d, full)
  /\ sends' = Append(sends, [generation |-> d.generation, full |-> full, state |-> "spawned",
                             text |-> c.snapshot, deltas |-> IF full THEN <<>> ELSE d.pending])

LEMMA DispatchSends ==
  ASSUME NEW d, Shape(d), Held(d), ~d.inflight, d.needsFull \/ d.pending # <<>>, NEW c, Dispatch(d, c.snapshot)
  PROVE  (doc' = d /\ UNCHANGED sends) \/ \E full : Sent(c, d, full)
<1> DEFINE full == d.needsFull \/ ~d.incremental
<1>1. CASE full /\ c.snapshot = NoVersion
  BY <1>1 DEF Dispatch, NoSend, Becomes
<1>2. CASE ~(full /\ c.snapshot = NoVersion)
  <2>1. Sent(c, d, full)
    BY <1>2 DEF Dispatch, Becomes, Sent
  <2>. QED  BY <2>1
<1>. QED  BY <1>1, <1>2

LEMMA TickSettles ==
  ASSUME SyncInv, TextInv, NEW c, CmdTyped(c), HandleTick(c) \/ HandleFlush(c)
  PROVE  \E d : Settled(c, d) /\ ((doc' = d /\ UNCHANGED sends) \/ \E full : Sent(c, d, full))
<1>1. Shape(doc) /\ Held(doc)  BY DEF SyncInv, TextInv, Typed
<1>2. "slow" \notin faults /\ (~doc.inflight \/ doc.expired) => TaskGone  BY DEF SyncInv, Exclusive
<1>3. ASSUME HandleTick(c) PROVE \E d : Settled(c, d) /\ ((doc' = d /\ UNCHANGED sends) \/ \E full : Sent(c, d, full))
  <2> DEFINE d == check_write_timeout(doc)
  <2>1. /\ Shape(d) /\ d.generation = doc.generation
        /\ IF doc.inflight /\ doc.expired THEN ~d.inflight ELSE d = doc
    BY <1>1, TimeoutFacts
  <2>2. Held(d) /\ (d = doc \/ (d.needsFull /\ d.pending = <<>> /\ ~d.inflight))
    BY <1>1, TimeoutHeld
  <2>3. IF is_due(d) THEN Dispatch(d, c.snapshot) ELSE NoSend(d)  BY <1>3 DEF HandleTick
  <2> HIDE DEF d
  <2>4. Settled(c, d)  BY <1>2, <2>1, <2>2 DEF Settled
  <2>5. CASE is_due(d)
    <3>1. ~d.inflight /\ (d.needsFull \/ d.pending # <<>>)  BY <2>1, <2>5 DEF is_due, Shape
    <3>. QED  BY <2>1, <2>2, <2>3, <2>4, <2>5, <3>1, DispatchSends
  <2>6. CASE ~is_due(d)
    BY <2>3, <2>4, <2>6 DEF NoSend, Becomes
  <2>. QED  BY <2>5, <2>6
<1>4. ASSUME HandleFlush(c) PROVE \E d : Settled(c, d) /\ ((doc' = d /\ UNCHANGED sends) \/ \E full : Sent(c, d, full))
  <2> DEFINE tracked == [doc EXCEPT !.incremental = c.incremental,
                                    !.editorVersion = IF c.snapshot > @ THEN c.snapshot ELSE @]
  <2> DEFINE d == check_write_timeout(tracked)
  <2>0. c.cmd = "FlushNow" /\ c.snapshot \in Nat  BY <1>4 DEF HandleFlush, CmdTyped
  <2>1. /\ Alike(doc, tracked) /\ Held(tracked)
        /\ tracked.needsFull = doc.needsFull /\ tracked.pending = doc.pending
        /\ tracked.expectedPrev = doc.expectedPrev
        /\ tracked.editorVersion \in {doc.editorVersion, c.snapshot}
    BY <1>1, <2>0 DEF Shape, Alike, Held
  <2>2. IF d.phase = "InFlight" \/ d.retry \/ (d.pending = <<>> /\ ~d.needsFull)
        THEN NoSend(d) ELSE Dispatch(d, c.snapshot)
    BY <1>4 DEF HandleFlush
  <2> HIDE DEF tracked
  <2>3. /\ Shape(d) /\ d.generation = doc.generation
        /\ IF doc.inflight /\ doc.expired THEN ~d.inflight ELSE d = tracked
    BY <2>1, TimeoutFacts DEF Alike
  <2>4. Held(d) /\ (d = tracked \/ (d.needsFull /\ d.pending = <<>> /\ ~d.inflight))
    BY <2>1, TimeoutHeld DEF Alike
  <2> HIDE DEF d
  <2>5. "slow" \notin faults /\ ~d.inflight => TaskGone  BY <1>2, <2>1, <2>3 DEF Alike
  <2>6. Settled(c, d)  BY <2>0, <2>1, <2>3, <2>4, <2>5 DEF Settled, Alike
  <2>7. CASE NoSend(d)  BY <2>6, <2>7 DEF NoSend, Becomes
  <2>8. CASE Dispatch(d, c.snapshot) /\ d.phase # "InFlight" /\ ~(d.pending = <<>> /\ ~d.needsFull)
    <3>1. ~d.inflight /\ (d.needsFull \/ d.pending # <<>>)  BY <2>3, <2>8 DEF Shape
    <3>. QED  BY <2>3, <2>4, <2>6, <2>8, <3>1, DispatchSends
  <2>. QED  BY <2>2, <2>7, <2>8
<1>. QED  BY <1>3, <1>4

LEMMA SettledText ==
  ASSUME SyncInv, TextInv, NEW c, c.cmd \in {"Tick", "FlushNow"}, NEW d, Settled(c, d)
  PROVE  /\ DocOpen(d, server)
         /\ \A v, u \in Nat : Sees(c, v, u) /\ Pend(doc, v) =>
              /\ Pend(d, u) /\ (c.snapshot = NoVersion \/ c.snapshot = u)
              /\ Current(doc, v, sends, cmds, server) => Current(d, u, sends, cmds, server)
<1>1. DocOpen(doc, server)  BY DEF TextInv
<1>2. ASSUME NEW v \in Nat, NEW u \in Nat, Sees(c, v, u)
      PROVE  u = v /\ (c.snapshot = NoVersion \/ c.snapshot = u) /\ (c.cmd = "FlushNow" => c.snapshot = u)
  BY <1>2 DEF Sees
<1>3. CASE d.needsFull /\ d.pending = <<>>
  BY <1>2, <1>3, NoDeltas DEF DocOpen, Pend, Current
<1>4. CASE /\ d.inflight = doc.inflight /\ d.needsFull = doc.needsFull /\ d.pending = doc.pending
           /\ d.expectedPrev = doc.expectedPrev
           /\ d.editorVersion = doc.editorVersion \/ (c.cmd = "FlushNow" /\ d.editorVersion = c.snapshot)
  <2>1. DocOpen(d, server)  BY <1>1, <1>4 DEF DocOpen, Settled
  <2>2. ASSUME NEW v \in Nat, Pend(doc, v), c.cmd = "FlushNow" => c.snapshot = v PROVE Pend(d, v)
    BY <1>4, <2>2 DEF Pend
  <2>3. \A v : Base(d, v) = Base(doc, v)  BY <1>4 DEF Base
  <2>4. \A v : Current(doc, v, sends, cmds, server) => Current(d, v, sends, cmds, server)
    BY <1>4, <2>3, ZenonT(20) DEF Current, Settled
  <2>. QED  BY <1>2, <2>1, <2>2, <2>4
<1>. QED  BY <1>3, <1>4, ZenonT(20) DEF Settled

LEMMA SentText ==
  ASSUME SyncInv, TextInv, Handle, NEW d, NEW full,
         Head(cmds).cmd \in {"Tick", "FlushNow"}, Settled(Head(cmds), d), Sent(Head(cmds), d, full)
  PROVE  TextInv'
<1> DEFINE c == Head(cmds)
<1>1. cmds # <<>> /\ cmds' = Tail(cmds) /\ UNCHANGED <<version, path, server, faults>>  BY DEF Handle
<1>2. /\ CmdTyped(c) /\ \A k \in DOMAIN cmds' : CmdTyped(cmds'[k])
      /\ Fewer(cmds', cmds) /\ Reached(cmds', doc.generation, path)
      /\ \A v : Numbered(cmds, v, version) => \E u \in Nat : Sees(c, v, u) /\ Numbered(cmds', u, version)
  BY <1>1, TailText
<1>3. /\ DocOpen(d, server)
      /\ \A v, u \in Nat : Sees(c, v, u) /\ Pend(doc, v) =>
              /\ Pend(d, u) /\ (c.snapshot = NoVersion \/ c.snapshot = u)
              /\ Current(doc, v, sends, cmds, server) => Current(d, u, sends, cmds, server)
  BY SettledText
<1>4. /\ Settled(c, d) /\ Sent(c, d, full) /\ c.cmd \in {"Tick", "FlushNow"}  OBVIOUS
<1> HIDE DEF c
<1>5. Shape(d) /\ Held(d) /\ d.generation = doc.generation /\ ~d.inflight /\ full \in BOOLEAN
  BY <1>4 DEF Settled, Sent
<1>6. doc'.generation = doc.generation /\ doc'.inflight
  BY <1>4, <1>5, TakeTakes, ZenonT(20) DEF Sent
<1>7. Held(doc') /\ doc'.pending = <<>>
  <2>1. doc' = take_for_send(d, full)  BY <1>4 DEF Sent
  <2>. QED  BY <1>5, <2>1, TakeHeld, ZenonT(20)
<1>8. PICK t : /\ sends' = Append(sends, t) /\ t.generation = doc.generation /\ t.state = "spawned"
               /\ t.full = full /\ t.text = c.snapshot /\ t.deltas = IF full THEN <<>> ELSE d.pending
  <2> DEFINE t == [generation |-> d.generation, full |-> full, state |-> "spawned",
                   text |-> c.snapshot, deltas |-> IF full THEN <<>> ELSE d.pending]
  <2>1. sends' = Append(sends, t)  BY <1>4 DEF Sent
  <2>. QED  BY <1>5, <2>1
<1>9. /\ IsQueue(sends') /\ Len(sends) \in Nat /\ DOMAIN sends = 1..Len(sends)
      /\ DOMAIN sends' = 1..(Len(sends) + 1) /\ sends'[Len(sends) + 1] = t
      /\ \A i \in 1..Len(sends) : sends'[i] = sends[i]
  <2>1. IsQueue(sends)  BY DEF SyncInv
  <2>. QED  BY <1>8, <2>1, QueueAppend
<1>10. \A i \in DOMAIN sends' : (i \in DOMAIN sends /\ sends'[i] = sends[i]) \/ sends'[i] = t
  BY <1>9
<1>11. TaskTyped(t)
  <2>1. CASE full  BY <1>2, <1>4, <1>8, <2>1, ZenonT(20) DEF TaskTyped, CmdTyped, Sent
  <2>2. CASE ~full  BY <1>4, <1>5, <1>8, <2>2, ZenonT(20) DEF TaskTyped, Sent, Held
  <2>. QED  BY <2>1, <2>2
<1>12. Typed'
  <2>1. \A i \in DOMAIN sends' : TaskTyped(sends'[i])  BY <1>10, <1>11, ZenonT(20) DEF TextInv, Typed
  <2>. QED  BY <1>1, <1>2, <1>6, <1>7, <2>1, ZenonT(20) DEF TextInv, Typed
<1>13. Opened(sends', cmds', server)
  <2>1. Opened(sends, cmds', server)  BY <1>2, FewerReports, ZenonT(20) DEF TextInv
  <2>2. ~full => server[doc.generation] # NotOpen  BY <1>3, <1>4, <1>5, ZenonT(20) DEF DocOpen, Sent
  <2>. QED  BY <1>8, <1>10, <2>1, <2>2 DEF Opened
<1>14. DocOpen(doc', server)  BY <1>6 DEF DocOpen
<1>15. ASSUME "drop" \notin faults PROVE \E v \in Nat : Exact(v)'
  <2>1. PICK v \in Nat : Exact(v)  BY <1>15 DEF TextInv
  <2>2. PICK u \in Nat : Sees(c, v, u) /\ Numbered(cmds', u, version)
    BY <1>2, <2>1, ZenonT(20) DEF Exact
  <2>3. /\ Pend(d, u) /\ (c.snapshot = NoVersion \/ c.snapshot = u)
        /\ Current(doc, v, sends, cmds, server) => Current(d, u, sends, cmds, server)
    BY <1>3, <2>1, <2>2 DEF Exact
  <2>4. Pend(doc', u)  BY <1>7, NoDeltas DEF Pend
  <2>5. Result(t) = u
    <3>1. CASE full  BY <1>4, <1>8, <2>3, <3>1, ZenonT(20) DEF Result, Sent
    <3>2. CASE ~full  BY <1>4, <1>8, <2>3, <3>2 DEF Result, Sent, Pend
    <3>. QED  BY <3>1, <3>2
  <2>6. ASSUME faults \subseteq {"fail"}
        PROVE  Intact(sends', cmds', server) /\ Current(doc', u, sends', cmds', server)
    <3>1. TaskGone  BY <1>4, <1>5, <2>6 DEF Settled
    <3>2. Intact(sends, cmds', server) /\ Current(d, u, sends, cmds, server)
      BY <1>2, <2>1, <2>3, <2>6, FewerReports, ZenonT(20) DEF Exact
    <3>3. ~full => Chain(t.deltas) /\ server[t.generation] = t.deltas[1][1]
      <4>1. ASSUME ~full PROVE server[d.generation] = Base(d, u) /\ d.pending # <<>>
        BY <1>4, <1>5, <3>2, <4>1, ZenonT(20) DEF Current, Sent
      <4>. QED  BY <1>5, <1>8, <2>3, <4>1, ZenonT(20) DEF Base, Pend
    <3>4. Intact(sends', cmds', server)  BY <1>8, <1>10, <3>2, <3>3, ZenonT(20) DEF Intact
    <3>5. Base(doc', u) = u  BY <1>7 DEF Base
    <3>6. Outcome(sends', cmds', server, doc.generation, u)
      <4>1. \A k \in DOMAIN cmds' : ~(IsReport(cmds'[k]) /\ cmds'[k].generation = doc.generation)
        BY <1>2, <3>1 DEF Fewer, TaskGone, IsReport
      <4>. QED  BY <1>8, <1>10, <2>5, <3>1, <4>1 DEF Outcome, TaskGone
    <3>. QED  BY <1>6, <3>4, <3>5, <3>6 DEF Current
  <2>7. Exact(u)'  BY <1>1, <2>2, <2>4, <2>6 DEF Exact
  <2>. QED  BY <2>7
<1>. QED  BY <1>1, <1>12, <1>13, <1>14, <1>15 DEF TextInv

LEMMA HandleText ==
  ASSUME SyncInv, TextInv, Handle
  PROVE  TextInv'
<1> DEFINE c == Head(cmds)
<1>1. ASSUME HandleTick(c) \/ HandleFlush(c) PROVE TextInv'
  <2>1. cmds # <<>> /\ cmds' = Tail(cmds) /\ UNCHANGED <<version, path, server, faults>>  BY DEF Handle
  <2>2. CmdTyped(c)  BY <2>1, TailText
  <2>3. c.cmd \in {"Tick", "FlushNow"}  BY <1>1 DEF HandleTick, HandleFlush
  <2>4. PICK d : Settled(c, d) /\ ((doc' = d /\ UNCHANGED sends) \/ \E full : Sent(c, d, full))
    BY <1>1, <2>2, TickSettles
  <2>5. CASE doc' = d /\ UNCHANGED sends
    <3>1. /\ DocOpen(d, server)
          /\ \A v, u \in Nat : Sees(c, v, u) /\ Pend(doc, v) =>
               /\ Pend(d, u)
               /\ Current(doc, v, sends, cmds, server) => Current(d, u, sends, cmds, server)
      BY <2>3, <2>4, SettledText
    <3>2. Held(doc') /\ doc'.generation = doc.generation  BY <2>4, <2>5, ZenonT(20) DEF Settled
    <3>. QED  BY <2>1, <2>3, <2>5, <3>1, <3>2, QuietText
  <2>6. CASE \E full : Sent(c, d, full)
    BY <2>3, <2>4, <2>6, SentText
  <2>. QED  BY <2>4, <2>5, <2>6
<1>. QED  BY <1>1, EditText, EscalateText, ResetText, CompleteText DEF Handle
-----------------------------------------------------------------------------
(* A send task fails, is written, or the write is put off or lost.         *)
SendResult(i, s, x) ==
  LET g == sends[i].generation
  IN  /\ SendState(i, s) /\ server' = [server EXCEPT ![g] = x]
      /\ \/ s = "Failed" /\ x = server[g]
         \/ s = "Success" /\ (sends[i].full \/ IsOpen(i)) /\ x = Applied(server[g], sends[i])
         \/ s \in {"Success", "Retryable"} /\ IsOpen(i) /\ x = server[g] /\ ~(faults' \subseteq {"fail"})

LEMMA SendFacts ==
  ASSUME SyncInv, TextInv, NEW i \in DOMAIN sends, SendStep(i)
  PROVE  /\ sends[i].state = "spawned" /\ faults \subseteq faults' /\ UNCHANGED <<version, path, cmds, doc>>
         /\ sends[i].generation \in Paths
         /\ \E s \in States, x \in Int : SendResult(i, s, x)
<1> DEFINE t == sends[i]
<1> DEFINE g == t.generation
<1>1. sends[i].state = "spawned" /\ faults \subseteq faults' /\ UNCHANGED <<version, path, cmds, doc>>
  BY DEF SendStep, SendOpen, SendOpenFails, SendNotReady, SendWritten, SendFails, SendLost,
         SendSpawned, SendRest, Fault
<1>2. g \in Paths /\ server \in [Paths -> Int]
  <2>1. IsQueue(cmds) /\ path \in Paths /\ Reached(cmds, doc.generation, path) /\ server \in [Paths -> Int]
    BY DEF SyncInv, TextInv, Typed
  <2>2. path \in Nat /\ path <= MaxResets /\ MaxResets \in Nat  BY <2>1, LspSyncAssumption DEF Paths
  <2>3. doc.generation \in 0..path  BY <2>1, <2>2, ReachedMore
  <2>4. g \in 0..doc.generation  BY ZenonT(20) DEF SyncInv, Task
  <2>5. g \in Paths  BY <2>2, <2>3, <2>4 DEF Paths
  <2>. QED  BY <2>1, <2>5
<1>3. server[g] \in Int /\ server = [server EXCEPT ![g] = server[g]]
  BY <1>2
<1>4. Applied(server[g], t) \in Int
  <2>1. TaskTyped(t)  BY DEF TextInv, Typed
  <2>2. CASE t.full  BY <2>1, <2>2 DEF TaskTyped, Applied
  <2>3. CASE ~t.full
    <3>1. t.deltas[Len(t.deltas)][2] \in Nat  BY <2>1, <2>3, DeltaFacts DEF TaskTyped
    <3>. QED  BY <2>3, <3>1 DEF Applied, Garbled
  <2>. QED  BY <2>1, <2>2, <2>3 DEF TaskTyped
<1> HIDE DEF t, g
<1>5. CASE SendOpen(i)
  <2>1. /\ t.full /\ server' = [server EXCEPT ![g] = t.text] /\ SendState(i, "Success")
    BY <1>5 DEF SendOpen, t, g
  <2>2. Applied(server[g], t) = t.text  BY <2>1 DEF Applied
  <2>3. SendResult(i, "Success", Applied(server[g], t))
    BY <2>1, <2>2 DEF SendResult, t, g
  <2>. QED  BY <1>1, <1>2, <1>4, <2>3 DEF States, t, g
<1>6. CASE SendOpenFails(i) \/ SendFails(i)
  <2>1. SendState(i, "Failed") /\ UNCHANGED server  BY <1>6 DEF SendOpenFails, SendFails
  <2>2. SendResult(i, "Failed", server[g])  BY <1>3, <2>1 DEF SendResult, t, g
  <2>. QED  BY <1>1, <1>2, <1>3, <2>2, ZenonT(20) DEF States, t, g
<1>7. CASE SendNotReady(i) \/ SendLost(i)
  <2>1. PICK s \in {"Success", "Retryable"} : SendState(i, s)
    BY <1>7 DEF SendNotReady, SendLost
  <2>2. IsOpen(i) /\ UNCHANGED server /\ ~(faults' \subseteq {"fail"})
    BY <1>7 DEF SendNotReady, SendLost, Fault
  <2>3. SendResult(i, s, server[g])  BY <1>3, <2>1, <2>2 DEF SendResult, t, g
  <2>. QED  BY <1>1, <1>2, <1>3, <2>3 DEF States, t, g
<1>8. CASE SendWritten(i)
  <2>1. /\ IsOpen(i) /\ SendState(i, "Success")
        /\ server' = [server EXCEPT ![g] = Applied(server[g], t)]
    BY <1>2, <1>8 DEF SendWritten, t, g
  <2>2. SendResult(i, "Success", Applied(server[g], t))  BY <2>1 DEF SendResult, t, g
  <2>. QED  BY <1>1, <1>2, <1>4, <2>2 DEF States, t, g
<1>. QED  BY <1>5, <1>6, <1>7, <1>8, ZenonT(20) DEF SendStep

LEMMA SendText ==
  ASSUME SyncInv, TextInv, NEW i \in DOMAIN sends, SendStep(i)
  PROVE  TextInv'
<1> DEFINE t == sends[i]
<1> DEFINE g == t.generation
<1>1. /\ t.state = "spawned" /\ faults \subseteq faults' /\ UNCHANGED <<version, path, cmds, doc>>
      /\ g \in Paths
  BY SendFacts
<1>2. PICK s \in States, x \in Int : SendResult(i, s, x)  BY SendFacts
<1> DEFINE e == [t EXCEPT !.state = s]
<1>3. Task(t, doc.generation) /\ IsQueue(sends) /\ TaskTyped(t) /\ server \in [Paths -> Int]
  BY DEF SyncInv, TextInv, Typed
<1>4. /\ e.generation = g /\ e.full = t.full /\ e.text = t.text /\ e.deltas = t.deltas /\ e.state = s
  BY <1>3 DEF Task
<1>5. /\ sends' = [sends EXCEPT ![i] = e] /\ server' = [server EXCEPT ![g] = x]
      /\ \/ s = "Failed" /\ x = server[g]
         \/ s = "Success" /\ (t.full \/ server[g] # NotOpen) /\ x = Applied(server[g], t)
         \/ s \in {"Success", "Retryable"} /\ server[g] # NotOpen /\ x = server[g] /\ ~(faults' \subseteq {"fail"})
  BY <1>2 DEF SendResult, SendState, IsOpen
<1>6. t.deltas # <<>> /\ ~t.full => t.deltas[Len(t.deltas)][2] \in Nat
  BY <1>3, DeltaFacts DEF TaskTyped
<1> HIDE DEF e, g, t
<1>7. /\ IsQueue(sends') /\ DOMAIN sends' = DOMAIN sends
      /\ sends'[i] = e /\ \A j \in DOMAIN sends \ {i} : sends'[j] = sends[j]
  BY <1>3, <1>5, QueueUpdate, ZenonT(20)
<1>8. /\ server' \in [Paths -> Int] /\ server'[g] = x /\ \A p \in Paths \ {g} : server'[p] = server[p]
  BY <1>1, <1>3, <1>5
<1>9. x = Applied(server[g], t) => x # NotOpen
  <2>1. NotOpen \notin Nat /\ Garbled # NotOpen  BY DEF NotOpen, Garbled
  <2>2. CASE t.full  BY <1>3, <2>1, <2>2 DEF Applied, TaskTyped
  <2>3. CASE ~t.full
    <3>1. t.deltas[Len(t.deltas)][2] \in Nat  BY <1>3, <1>6, <2>3 DEF TaskTyped
    <3>. QED  BY <2>1, <2>3, <3>1 DEF Applied
  <2>. QED  BY <2>2, <2>3
<1>10. (server[g] # NotOpen => x # NotOpen) /\ (s \in {"Success", "Retryable"} => x # NotOpen)
  BY <1>5, <1>9
<1>11. Typed'
  <2>1. TaskTyped(e)  BY <1>3, <1>4 DEF TaskTyped
  <2>2. \A j \in DOMAIN sends' : TaskTyped(sends'[j])  BY <1>7, <2>1, ZenonT(20) DEF TextInv, Typed
  <2>. QED  BY <1>1, <1>8, <2>2 DEF TextInv, Typed
<1>12. \A p \in Paths : server[p] # NotOpen => server'[p] # NotOpen  BY <1>8, <1>10
<1>13. /\ \A j \in DOMAIN sends : sends[j].generation \in Paths
       /\ \A k \in DOMAIN cmds : IsReport(cmds[k]) => cmds[k].generation \in Paths
       /\ doc.generation \in Paths
  <2>1. IsQueue(cmds) /\ path \in Paths /\ Reached(cmds, doc.generation, path)
    BY DEF SyncInv, TextInv, Typed
  <2>2. path \in Nat /\ path <= MaxResets /\ MaxResets \in Nat  BY <2>1, LspSyncAssumption DEF Paths
  <2>3. doc.generation \in 0..path  BY <2>1, <2>2, ReachedMore
  <2>4. \A a \in 0..doc.generation : a \in Paths  BY <2>2, <2>3 DEF Paths
  <2>5. doc.generation \in 0..doc.generation  BY <2>2, <2>3
  <2>. QED  BY <2>4, <2>5 DEF SyncInv, Task, Report
<1>14. Opened(sends', cmds', server') /\ DocOpen(doc', server')
  <2>1. Opened(sends, cmds, server) /\ DocOpen(doc, server)  BY DEF TextInv
  <2>2. ASSUME NEW j \in DOMAIN sends', sends'[j].state \in {"Success", "Retryable"} \/ ~sends'[j].full
        PROVE  server'[sends'[j].generation] # NotOpen
    <3>1. CASE j = i
      <4>1. ~t.full => server[g] # NotOpen  BY <2>1 DEF Opened, t, g
      <4>. QED  BY <1>4, <1>7, <1>8, <1>10, <2>2, <3>1, <4>1
    <3>2. CASE j # i  BY <1>7, <1>12, <1>13, <2>1, <2>2, <3>2, ZenonT(20) DEF Opened
    <3>. QED  BY <3>1, <3>2
  <2>3. \A k \in DOMAIN cmds' : IsReport(cmds'[k]) /\ cmds'[k].result # "Failed" => server'[cmds'[k].generation] # NotOpen
    BY <1>1, <1>12, <1>13, <2>1, ZenonT(20) DEF Opened
  <2>4. DocOpen(doc', server')  BY <1>1, <1>12, <1>13, <2>1, ZenonT(20) DEF DocOpen
  <2>. QED  BY <2>2, <2>3, <2>4 DEF Opened
<1>15. ASSUME NEW v \in Nat, Exact(v), faults' \subseteq {"fail"}
       PROVE  Intact(sends', cmds, server') /\ Current(doc, v, sends', cmds, server')
  <2>1. Intact(sends, cmds, server) /\ Current(doc, v, sends, cmds, server)
    BY <1>1, <1>15 DEF Exact
  <2>2. Exclusive  BY <1>1, <1>15 DEF SyncInv
  <2>3. /\ \A j \in DOMAIN sends : j # i => sends[j].generation # g
        /\ \A k \in DOMAIN cmds : IsReport(cmds[k]) => cmds[k].generation # g
        /\ ~doc.inflight => doc.generation # g
    BY <2>2 DEF Exclusive, TaskGone, g, t
  <2>4. CASE s = "Failed" /\ x = server[g]
    <3>1. server' = server  BY <1>1, <1>3, <1>5, <2>4
    <3>2. Intact(sends', cmds, server)  BY <1>4, <1>7, <2>1, <2>4, ZenonT(20) DEF Intact
    <3>3. ASSUME NEW b, NEW y, Outcome(sends, cmds, server, b, y) PROVE Outcome(sends', cmds, server, b, y)
      BY <1>4, <1>7, <2>4, <3>3, ZenonT(20) DEF Outcome
    <3>. QED  BY <2>1, <3>1, <3>2, <3>3 DEF Current
  <2>5. CASE s = "Success" /\ x = Applied(server[g], t)
    <3>1. x = Result(t)
      <4>1. ~t.full => Chain(t.deltas) /\ server[g] = t.deltas[1][1]  BY <1>1, <2>1 DEF Intact, t, g
      <4>. QED  BY <2>5, <4>1 DEF Applied, Result
    <3>2. x # Garbled  BY <1>3, <1>6, <3>1 DEF Result, TaskTyped, Garbled
    <3>3. Intact(sends', cmds, server')
      <4>1. \A p \in Paths : server'[p] # Garbled  BY <1>8, <2>1, <3>2 DEF Intact
      <4>2. ASSUME NEW j \in DOMAIN sends'
            PROVE  /\ sends'[j].state # "Retryable"
                   /\ sends'[j].state = "spawned" /\ ~sends'[j].full =>
                        Chain(sends'[j].deltas) /\ server'[sends'[j].generation] = sends'[j].deltas[1][1]
        <5>1. CASE j = i  BY <1>4, <1>7, <2>5, <5>1
        <5>2. CASE j # i
          <6>1. j \in DOMAIN sends /\ sends'[j] = sends[j]  BY <1>7, <5>2
          <6>2. sends[j].generation # g /\ sends[j].generation \in Paths  BY <1>13, <2>3, <5>2, <6>1, ZenonT(20)
          <6>3. server'[sends[j].generation] = server[sends[j].generation]  BY <1>8, <6>2, ZenonT(20)
          <6>. QED  BY <2>1, <6>1, <6>3 DEF Intact
        <5>. QED  BY <5>1, <5>2
      <4>. QED  BY <2>1, <4>1, <4>2, ZenonT(20) DEF Intact
    <3>4. ASSUME NEW b \in Paths, NEW y, Outcome(sends, cmds, server, b, y) PROVE Outcome(sends', cmds, server', b, y)
      <4>1. CASE b = g
        <5>1. Result(t) = y  BY <1>1, <3>4, <4>1 DEF Outcome, t, g
        <5>2. server'[b] = y  BY <1>8, <3>1, <4>1, <5>1
        <5>3. \A j \in DOMAIN sends' : sends'[j].generation = b => sends'[j].state # "spawned"
          BY <1>4, <1>7, <2>3, <2>5, <4>1
        <5>. QED  BY <5>2, <5>3 DEF Outcome
      <4>2. CASE b # g
        <5>1. server'[b] = server[b]  BY <1>8, <4>2
        <5>2. \A j \in DOMAIN sends' : sends'[j].generation = b => sends'[j] = sends[j]
          BY <1>4, <1>7, <4>2
        <5>. QED  BY <1>7, <3>4, <5>1, <5>2 DEF Outcome
      <4>. QED  BY <4>1, <4>2
    <3>5. ~doc.inflight => server'[doc.generation] = server[doc.generation]  BY <1>8, <1>13, <2>3
    <3>. QED  BY <1>13, <2>1, <3>3, <3>4, <3>5 DEF Current
  <2>. QED  BY <1>5, <1>15, <2>4, <2>5
<1>16. ASSUME "drop" \notin faults' PROVE \E v \in Nat : Exact(v)'
  <2>1. PICK v \in Nat : Exact(v)  BY <1>1, <1>16 DEF TextInv
  <2>2. Exact(v)'  BY <1>1, <1>15, <2>1 DEF Exact
  <2>. QED  BY <2>2
<1>. QED  BY <1>11, <1>14, <1>16 DEF TextInv

LEMMA FinishText ==
  ASSUME SyncInv, TextInv, NEW i \in DOMAIN sends, SendFinish(i)
  PROVE  TextInv'
<1> DEFINE t == sends[i]
<1>1. IsQueue(sends) /\ IsQueue(cmds) /\ t.state \in States /\ t.state # "spawned"
  BY DEF SyncInv, Task, SendFinish
<1>2. PICK c : /\ IsReport(c) /\ c.generation = t.generation /\ c.result = t.state
               /\ \/ cmds' = Append(cmds, c) /\ UNCHANGED faults
                  \/ cmds' = cmds /\ "drop" \in faults'
  <2> DEFINE c == [cmd |-> "SendComplete", generation |-> t.generation,
                   result |-> t.state, full |-> t.full]
  <2>1. \/ cmds' = Append(cmds, c) /\ UNCHANGED faults
        \/ cmds' = cmds /\ "drop" \in faults'
    BY DEF SendFinish, Post, Fault
  <2>. QED  BY <2>1 DEF IsReport
<1>3. /\ sends' = [k \in 1..Len(sends) - 1 |-> sends[IF k < i THEN k ELSE k + 1]]
      /\ UNCHANGED <<version, path, doc, server>>
  BY DEF SendFinish
<1>4. \A k \in DOMAIN sends' : \E j \in DOMAIN sends : sends'[k] = sends[j]
  <2>1. \A k \in DOMAIN sends' : LET j == IF k < i THEN k ELSE k + 1
                                 IN  j \in DOMAIN sends /\ j # i /\ sends'[k] = sends[j]
    BY <1>1, <1>3, QueueRemove
  <2>. QED  BY <2>1
<1>5. path \in Nat /\ version \in Nat  BY DEF TextInv, Typed, Paths
<1>6. /\ Opened(sends, cmds, server) /\ (t.state # "Failed" => server[t.generation] # NotOpen)
  BY <1>1 DEF TextInv, Opened, States
<1> HIDE DEF t
<1>7. CASE cmds' = Append(cmds, c) /\ UNCHANGED faults
  <2>1. /\ IsQueue(cmds') /\ Len(cmds) \in Nat /\ DOMAIN cmds = 1..Len(cmds)
        /\ DOMAIN cmds' = 1..(Len(cmds) + 1) /\ cmds'[Len(cmds) + 1] = c
        /\ \A k \in 1..Len(cmds) : cmds'[k] = cmds[k]
    BY <1>1, <1>7, QueueAppend
  <2>2. \A k \in DOMAIN cmds' : (k \in DOMAIN cmds /\ cmds'[k] = cmds[k]) \/ cmds'[k] = c
    BY <2>1
  <2>3. CmdTyped(c) /\ Rises(c, path, path) /\ Sees(c, version, version)
    BY <1>2, <1>5 DEF CmdTyped, Rises, Sees, IsReport
  <2>4. Reached(cmds', doc.generation, path)
    BY <1>1, <1>5, <1>7, <2>3, ReachedAppend DEF TextInv, Typed
  <2>5. Typed'
    <3>1. \A k \in DOMAIN sends' : TaskTyped(sends'[k])  BY <1>4, ZenonT(20) DEF TextInv, Typed
    <3>2. \A k \in DOMAIN cmds' : CmdTyped(cmds'[k])  BY <2>2, <2>3, ZenonT(20) DEF TextInv, Typed
    <3>. QED  BY <1>3, <2>4, <3>1, <3>2 DEF TextInv, Typed
  <2>6. Opened(sends', cmds', server) /\ DocOpen(doc', server)
    BY <1>2, <1>3, <1>4, <1>6, <2>2 DEF Opened, TextInv
  <2>7. ASSUME "drop" \notin faults PROVE \E v \in Nat : Exact(v)'
    <3>1. PICK v \in Nat : Exact(v)  BY <2>7 DEF TextInv
    <3>2. Numbered(cmds', v, version)  BY <1>1, <1>5, <1>7, <2>3, <3>1, NumberedAppend DEF Exact
    <3>3. ASSUME faults \subseteq {"fail"}
          PROVE  Intact(sends', cmds', server) /\ Current(doc, v, sends', cmds', server)
      <4>1. Intact(sends, cmds, server) /\ Current(doc, v, sends, cmds, server)  BY <3>1, <3>3 DEF Exact
      <4>2. Intact(sends', cmds', server)
        <5>1. c.result # "Retryable"  BY <1>2, <4>1 DEF Intact, t
        <5>. QED  BY <1>4, <2>2, <4>1, <5>1 DEF Intact
      <4>3. ASSUME NEW b, NEW y, Outcome(sends, cmds, server, b, y) PROVE Outcome(sends', cmds', server, b, y)
        <5>1. c.generation = b /\ c.result = "Success" => server[b] = y  BY <1>2, <4>3, ZenonT(20) DEF Outcome, t
        <5>. QED  BY <1>4, <2>2, <4>3, <5>1 DEF Outcome
      <4>. QED  BY <4>1, <4>2, <4>3 DEF Current
    <3>4. Exact(v)'  BY <1>3, <1>7, <3>1, <3>2, <3>3 DEF Exact
    <3>. QED  BY <3>4
  <2>. QED  BY <1>3, <1>7, <2>5, <2>6, <2>7 DEF TextInv
<1>8. CASE cmds' = cmds /\ "drop" \in faults'
  <2>1. Typed'
    <3>1. \A k \in DOMAIN sends' : TaskTyped(sends'[k])  BY <1>4, ZenonT(20) DEF TextInv, Typed
    <3>. QED  BY <1>3, <1>8, <3>1 DEF TextInv, Typed
  <2>2. Opened(sends', cmds', server) /\ DocOpen(doc', server)
    BY <1>3, <1>4, <1>6, <1>8 DEF Opened, TextInv
  <2>. QED  BY <1>3, <1>8, <2>1, <2>2 DEF TextInv
<1>. QED  BY <1>2, <1>7, <1>8

(* Time passes: the document changes in nothing that is sent.              *)
LEMMA TimeText ==
  ASSUME SyncInv, TextInv, RetryElapses \/ DebounceElapses \/ WriteTimeout \/ ServerReady \/ UNCHANGED vars
  PROVE  TextInv'
<1>1. UNCHANGED <<version, path, cmds, sends, server>> /\ faults \subseteq faults'
  BY DEF RetryElapses, DebounceElapses, WriteTimeout, ServerReady, vars, TimeRest, Fault
<1>2. Shape(doc) /\ Held(doc)  BY DEF SyncInv, TextInv, Typed
<1>3. /\ doc'.generation = doc.generation /\ doc'.needsFull = doc.needsFull /\ doc'.pending = doc.pending
      /\ doc'.inflight = doc.inflight /\ doc'.expectedPrev = doc.expectedPrev
      /\ doc'.editorVersion = doc.editorVersion
  BY <1>2 DEF RetryElapses, DebounceElapses, WriteTimeout, ServerReady, vars, Shape
<1>4. Typed'  BY <1>1, <1>3, ZenonT(20) DEF TextInv, Typed, Held
<1>5. Opened(sends', cmds', server') /\ DocOpen(doc', server')
  BY <1>1, <1>3, ZenonT(20) DEF TextInv, DocOpen
<1>6. ASSUME NEW v PROVE /\ Pend(doc, v) => Pend(doc', v)
                         /\ Current(doc, v, sends, cmds, server) => Current(doc', v, sends, cmds, server)
  BY <1>3 DEF Pend, Current, Base
<1>7. ASSUME "drop" \notin faults' PROVE \E v \in Nat : Exact(v)'
  <2>1. PICK v \in Nat : Exact(v)  BY <1>1, <1>7 DEF TextInv
  <2>2. Exact(v)'  BY <1>1, <1>6, <2>1 DEF Exact
  <2>. QED  BY <2>2
<1>. QED  BY <1>4, <1>5, <1>7 DEF TextInv

LEMMA EditorText ==
  ASSUME SyncInv, TextInv, EditorStep
  PROVE  TextInv'
<1>1. version \in Nat /\ path \in Paths /\ path \in Nat /\ MaxResets \in Nat
  BY LspSyncAssumption DEF TextInv, Typed, Paths
<1>2. UNCHANGED <<doc, sends, server>>
  BY ZenonT(20) DEF EditorStep, Edit, PostTick, PostFlush, PostReset, Resync
<1> DEFINE Posted(c) == \/ cmds' = Append(cmds, c) /\ UNCHANGED faults
                        \/ cmds' = cmds /\ "drop" \in faults'
<1>3. \A c : Post(c) => Posted(c)  BY DEF Post, Fault
<1>4. ASSUME NEW c, ~IsReport(c), CmdTyped(c), Posted(c), Sees(c, version, version'),
             Rises(c, path, path'), version' \in Nat, path' \in Paths
      PROVE  TextInv'
  BY <1>2, <1>4, PostText
<1> HIDE DEF Posted
<1>5. CASE Edit
  <2>1. version' = version + 1 /\ UNCHANGED path /\ version' \in Nat  BY <1>1, <1>5 DEF Edit
  <2>2. CASE Post([cmd |-> "Edit", prev |-> version, new |-> version'])
    <3> DEFINE c == [cmd |-> "Edit", prev |-> version, new |-> version']
    <3>1. c.cmd = "Edit" /\ c.prev = version /\ c.new = version' /\ Posted(c)  BY <1>3, <2>2
    <3> HIDE DEF c
    <3>2. ~IsReport(c) /\ CmdTyped(c) /\ Sees(c, version, version') /\ Rises(c, path, path')
      BY <1>1, <2>1, <3>1 DEF IsReport, CmdTyped, Sees, Rises
    <3>. QED  BY <1>1, <1>4, <2>1, <3>1, <3>2
  <2>3. CASE Post([cmd |-> "EscalateFull"])
    <3> DEFINE c == [cmd |-> "EscalateFull"]
    <3>1. c.cmd = "EscalateFull" /\ Posted(c)  BY <1>3, <2>3
    <3> HIDE DEF c
    <3>2. ~IsReport(c) /\ CmdTyped(c) /\ Sees(c, version, version') /\ Rises(c, path, path')
      BY <1>1, <2>1, <3>1 DEF IsReport, CmdTyped, Sees, Rises
    <3>. QED  BY <1>1, <1>4, <2>1, <3>1, <3>2
  <2>. QED  BY <1>5, <2>2, <2>3 DEF Edit
<1>6. CASE PostTick
  <2> DEFINE c == [cmd |-> "Tick", snapshot |-> IF dueFull THEN version ELSE NoVersion]
  <2>1. UNCHANGED <<version, path>> /\ Post(c)  BY <1>6 DEF PostTick
  <2>2. c.cmd = "Tick" /\ c.snapshot \in {NoVersion, version}  OBVIOUS
  <2> HIDE DEF c
  <2>3. Posted(c)  BY <1>3, <2>1
  <2>4. ~IsReport(c) /\ CmdTyped(c) /\ Sees(c, version, version') /\ Rises(c, path, path')
    BY <1>1, <2>1, <2>2 DEF IsReport, CmdTyped, Sees, Rises
  <2>. QED  BY <1>1, <1>4, <2>1, <2>3, <2>4
<1>7. CASE PostFlush
  <2> DEFINE c == [cmd |-> "FlushNow", snapshot |-> version, incremental |-> ready]
  <2>1. UNCHANGED <<version, path>> /\ Post(c)  BY <1>7 DEF PostFlush
  <2>2. c.cmd = "FlushNow" /\ c.snapshot = version  OBVIOUS
  <2> HIDE DEF c
  <2>3. Posted(c)  BY <1>3, <2>1
  <2>4. ~IsReport(c) /\ CmdTyped(c) /\ Sees(c, version, version') /\ Rises(c, path, path')
    BY <1>1, <2>1, <2>2 DEF IsReport, CmdTyped, Sees, Rises
  <2>. QED  BY <1>1, <1>4, <2>1, <2>3, <2>4
<1>8. CASE PostReset
  <2> DEFINE c == [cmd |-> "ResetTracked", incremental |-> ready, version |-> version]
  <2>1. UNCHANGED version /\ path' = path + 1 /\ path < MaxResets /\ Post(c)  BY <1>8 DEF PostReset
  <2>2. path' \in Paths  BY <1>1, <2>1 DEF Paths
  <2>3. c.cmd = "ResetTracked" /\ c.version = version  OBVIOUS
  <2> HIDE DEF c
  <2>4. Posted(c)  BY <1>3, <2>1
  <2>5. ~IsReport(c) /\ CmdTyped(c) /\ Sees(c, version, version') /\ Rises(c, path, path')
    BY <1>1, <2>1, <2>3 DEF IsReport, CmdTyped, Sees, Rises
  <2>. QED  BY <1>1, <1>4, <2>1, <2>2, <2>4, <2>5
<1>9. CASE Resync
  <2> DEFINE c == [cmd |-> "EscalateFull"]
  <2>1. UNCHANGED <<version, path>> /\ (Post(c) \/ UNCHANGED <<cmds, faults>>)  BY <1>9 DEF Resync
  <2>2. c.cmd = "EscalateFull"  OBVIOUS
  <2> HIDE DEF c
  <2>5. ~IsReport(c) /\ CmdTyped(c) /\ Sees(c, version, version') /\ Rises(c, path, path')
    BY <1>1, <2>1, <2>2 DEF IsReport, CmdTyped, Sees, Rises
  <2>3. CASE Post(c)
    <3>1. Posted(c)  BY <1>3, <2>3
    <3>. QED  BY <1>1, <1>4, <2>1, <2>5, <3>1
  <2>4. CASE UNCHANGED <<cmds, faults>>
    BY <1>1, <1>2, <2>1, <2>4, <2>5, PostText
  <2>. QED  BY <2>1, <2>3, <2>4
<1>. QED  BY <1>5, <1>6, <1>7, <1>8, <1>9 DEF EditorStep

LEMMA TextStep == SyncInv /\ TextInv /\ [Next]_vars => TextInv'
BY EditorText, HandleText, SendText, FinishText, TimeText DEF Next

(* "Detects version gaps or reorders and escalates to full sync": for any  *)
(* number of edits, resets and queued commands, no delta is applied to a   *)
(* text it was not computed from while sends fail in no other way than by  *)
(* being refused; what is pending is one chain up to the newest version    *)
(* recorded unless a command was dropped; and no incremental send meets a  *)
(* document that is not open.                                              *)
THEOREM TextIsNotGarbled == Spec => []NoGarbledText
<1>1. TextInv => NoGarbledText
  <2> SUFFICES ASSUME TextInv PROVE NoGarbledText
    OBVIOUS
  <2>1. \A i \in DOMAIN sends : ~sends[i].full => IsOpen(i)  BY DEF TextInv, Opened, IsOpen
  <2>2. ASSUME "drop" \notin faults
        PROVE  Chain(doc.pending) /\ (doc.pending # <<>> => doc.pending[Len(doc.pending)][2] = doc.expectedPrev)
    BY <2>2, ZenonT(20) DEF TextInv, Exact, Pend
  <2>3. ASSUME faults \subseteq {"fail"} PROVE \A p \in Paths : server[p] # Garbled
    BY <2>3, ZenonT(20) DEF TextInv, Exact, Intact
  <2>. QED  BY <2>1, <2>2, <2>3 DEF NoGarbledText
<1>. QED  BY SyncInit, SyncStep, TextInit, TextStep, <1>1, PTL DEF Spec
=============================================================================
