--------------------------- MODULE SchedulerProofs --------------------------
(***************************************************************************)
(* The work scheduler and its gate, for any set of tasks and documents and *)
(* any thresholds: its books are exact, no background task is left parked  *)
(* at a gate that would let it through, and a cancellation reaches every   *)
(* task of its document.                                                   *)
(***************************************************************************)
EXTENDS Scheduler, FiniteSetTheorems, SequenceTheorems, TLAPS

(* Time limits; SMT has further tries. *)
USE SMTT(20), ZenonT(20), SMTT(30), SMTT(40)

AtGate == {"gate", "depth", "count", "await"}
InGuard == {"guard", "guard_notify"}

Typed ==
  /\ pc \in [Tasks -> AtGate \cup InGuard \cup {"new", "refused", "run", "notify", "ending", "ended", "joined"}]
  /\ \A t \in Tasks : /\ pc[t] \in AtGate => t \notin Interactive
                      /\ pc[t] \in InGuard => t \in Interactive
  /\ ed \in {"idle", "interactive", "open", "opened", "background"}
  /\ depth = IF ed \in {"opened", "background"} THEN 1 ELSE 0
  /\ left \in 0..MaxCompletions

(* No one ever calls notify_one on the gate's Notify, so nothing is stored *)
(* in it and a dropped future passes nothing on.                           *)
GateTyped ==
  /\ gate \in NotifyType(Tasks) /\ ~gate.permit
  /\ \A t \in Tasks : gate.fut[t] # "one"

-----------------------------------------------------------------------------
LEMMA TypedKept ==
  ASSUME Typed, [Next]_vars
  PROVE  Typed'
<1> USE DEF Typed, Goto, AtGate, InGuard
<1>1. ASSUME NEW t \in Tasks, ScheduleRefused(t) PROVE Typed'
  BY <1>1 DEF ScheduleRefused
<1>2. ASSUME NEW t \in Tasks, NEW d \in Docs \cup {NoDoc}, Spawn(t, d) PROVE Typed'
  BY <1>2 DEF Spawn
<1>3. ASSUME NEW d \in Docs, CancelDoc(d) PROVE Typed'
  BY <1>3 DEF CancelDoc
<1>4. ASSUME NEW t \in Tasks, GateCreate(t) \/ GatePark(t) \/ GateWake(t) PROVE Typed'
  BY <1>4 DEF GateCreate, GatePark, GateWake, TaskRest
<1>5. ASSUME NEW t \in Tasks, GateDepth(t) \/ GateCount(t) PROVE Typed'
  BY <1>5 DEF GateDepth, GateCount, TaskRest
<1>6. ASSUME NEW t \in Tasks, Finish(t) \/ Cancelled(t) PROVE Typed'
  BY <1>6 DEF Finish, Cancelled, AfterRun, TaskRest
<1>7. ASSUME NEW t \in Tasks, GuardLeave(t) \/ GuardNotify(t) \/ Ended(t) PROVE Typed'
  BY <1>7 DEF GuardLeave, GuardNotify, Ended, TaskRest
<1>8. ASSUME NEW t \in Tasks, NotifyOnDrop(t) PROVE Typed'
  BY <1>8 DEF NotifyOnDrop
<1>9. CASE DrainStart \/ OpenScope \/ OpenNotify
  BY <1>9, SchedulerAssumption DEF DrainStart, OpenScope, OpenNotify
<1>10. ASSUME NEW p \in {"interactive", "background"}, DrainJoin(p) PROVE Typed'
  <2>1. PICK t \in EndedOf(p) : Goto(t, "joined")  BY <1>10, ZenonT(20) DEF DrainJoin
  <2>2. t \in Tasks  BY DEF EndedOf, Queue
  <2>3. left' \in 0..MaxCompletions  BY <1>10, SchedulerAssumption DEF DrainJoin
  <2>. QED  BY <1>10, <2>1, <2>2, <2>3, ZenonT(20) DEF DrainJoin
<1>11. ASSUME NEW p \in {"interactive", "background"}, DrainWait(p) \/ DrainPark(p) \/ DrainWake(p) PROVE Typed'
  BY <1>11 DEF DrainWait, DrainPark, DrainWake
<1>12. ASSUME NEW p \in {"interactive", "background"}, DrainDone(p) \/ DrainDeadline(p) PROVE Typed'
  BY <1>12 DEF DrainDone, DrainDeadline, DrainLeave, Looping
<1>13. CASE UNCHANGED vars
  BY <1>13 DEF vars
<1>. QED
  BY <1>1, <1>2, <1>3, <1>4, <1>5, <1>6, <1>7, <1>8, <1>9, <1>10, <1>11, <1>12, <1>13
  DEF Next, TaskStep, DrainStep

-----------------------------------------------------------------------------
(* The two queues.  Background work is added below the threshold only, and *)
(* nothing is scheduled while the editor is in a drain.                    *)
Backlog ==
  /\ IsFiniteSet(Queue("background")) /\ Cardinality(Queue("background")) <= DropThreshold
  /\ ed \in {"open", "opened", "background"} => Queue("interactive") = {}

(* The gate's counter is the number of tasks that hold a guard.            *)
Holding == {t \in Interactive : pc[t] \in {"run", "guard"}}
Counted == IsFiniteSet(Holding) /\ inFlight = Cardinality(Holding)

(* Every step but a spawn, the guard's leave and a join leaves the queues  *)
(* and the holders of a guard alone.                                       *)
LEMMA QueuesKept ==
  ASSUME Typed, [Next]_vars,
         \A t \in Tasks : ~GuardLeave(t) /\ \A d \in Docs \cup {NoDoc} : ~Spawn(t, d),
         \A p \in {"interactive", "background"} : ~DrainJoin(p)
  PROVE  /\ Holding' = Holding /\ inFlight' = inFlight
         /\ \A p \in {"interactive", "background"} : Queue(p)' = Queue(p)
<1> DEFINE Kept == /\ Holding' = Holding /\ inFlight' = inFlight
                   /\ \A p \in {"interactive", "background"} : Queue(p)' = Queue(p)
<1> DEFINE Same == /\ inFlight' = inFlight
                   /\ \A t \in Tasks : /\ Live(t)' <=> Live(t)
                                       /\ t \in Interactive =>
                                            (pc'[t] \in {"run", "guard"} <=> pc[t] \in {"run", "guard"})
<1>0. ASSUME Same PROVE Kept
  BY <1>0, SchedulerAssumption DEF Holding, Queue
<1> USE DEF Typed, Goto, AtGate, InGuard, Live
<1>1. ASSUME NEW t \in Tasks, ScheduleRefused(t) PROVE Same
  BY <1>1 DEF ScheduleRefused
<1>2. ASSUME NEW d \in Docs, CancelDoc(d) PROVE Same
  BY <1>2 DEF CancelDoc
<1>3. ASSUME NEW t \in Tasks, GateCreate(t) \/ GatePark(t) \/ GateWake(t) \/ GateDepth(t) \/ GateCount(t) PROVE Same
  BY <1>3 DEF GateCreate, GatePark, GateWake, GateDepth, GateCount
<1>4. ASSUME NEW t \in Tasks, Finish(t) \/ Cancelled(t) PROVE Same
  BY <1>4 DEF Finish, Cancelled, AfterRun
<1>5. ASSUME NEW t \in Tasks, GuardNotify(t) \/ Ended(t) \/ NotifyOnDrop(t) PROVE Same
  BY <1>5 DEF GuardNotify, Ended, NotifyOnDrop
<1>6. CASE DrainStart \/ OpenScope \/ OpenNotify
  <2>1. Same  BY <1>6 DEF DrainStart, OpenScope, OpenNotify, DrainRest
  <2>. QED  BY <1>0, <2>1
<1>7. ASSUME NEW p \in {"interactive", "background"},
             DrainWait(p) \/ DrainPark(p) \/ DrainWake(p) \/ DrainDone(p) \/ DrainDeadline(p)
      PROVE  Same
  BY <1>7 DEF DrainWait, DrainPark, DrainWake, DrainDone, DrainDeadline, DrainLeave, DrainRest
<1>8. CASE UNCHANGED vars
  <2>1. Same  BY <1>8 DEF vars
  <2>. QED  BY <1>0, <2>1
<1> HIDE DEF Same
<1>. QED
  BY <1>0, <1>1, <1>2, <1>3, <1>4, <1>5, <1>6, <1>7, <1>8 DEF Next, TaskStep, DrainStep

(* A spawn adds one task to one queue, and to the holders if interactive.  *)
LEMMA SpawnAdds ==
  ASSUME Typed, NEW t \in Tasks, NEW d, Spawn(t, d)
  PROVE  /\ t \notin Queue(Priority(t)) /\ Queue(Priority(t))' = Queue(Priority(t)) \cup {t}
         /\ \A p \in {"interactive", "background"} \ {Priority(t)} : Queue(p)' = Queue(p)
         /\ t \notin Holding /\ ed = "idle" /\ ed' = "idle"
         /\ IF t \in Interactive
            THEN Holding' = Holding \cup {t} /\ inFlight' = inFlight + 1
            ELSE /\ Holding' = Holding /\ inFlight' = inFlight
                 /\ Cardinality(Queue("background")) < DropThreshold
<1>1. /\ pc[t] = "new" /\ pc' = [pc EXCEPT ![t] = IF t \in Interactive THEN "run" ELSE "gate"]
      /\ inFlight' = (IF t \in Interactive THEN inFlight + 1 ELSE inFlight)
      /\ ed = "idle" /\ ed' = "idle"
  BY DEF Spawn, Goto
<1>2. \A q \in Tasks : /\ q # t => pc'[q] = pc[q]
                       /\ pc'[t] = IF t \in Interactive THEN "run" ELSE "gate"
  BY <1>1 DEF Typed
<1>3. /\ t \notin Queue(Priority(t)) /\ Queue(Priority(t))' = Queue(Priority(t)) \cup {t}
      /\ \A p \in {"interactive", "background"} \ {Priority(t)} : Queue(p)' = Queue(p)
  BY <1>1, <1>2 DEF Queue, Live, Priority
<1>4. t \notin Holding /\ Holding' = IF t \in Interactive THEN Holding \cup {t} ELSE Holding
  BY <1>1, <1>2, SchedulerAssumption DEF Holding
<1>5. t \in Interactive \/ Cardinality(Queue("background")) < DropThreshold
  BY DEF Spawn
<1>. QED  BY <1>1, <1>3, <1>4, <1>5

LEMMA CountedKept ==
  ASSUME Typed, Counted, [Next]_vars
  PROVE  Counted'
<1> USE DEF Counted
<1>1. ASSUME NEW t \in Tasks, NEW d, Spawn(t, d) PROVE Counted'
  <2>1. t \notin Holding
    BY <1>1, SpawnAdds
  <2>2. IF t \in Interactive THEN Holding' = Holding \cup {t} /\ inFlight' = inFlight + 1
                            ELSE Holding' = Holding /\ inFlight' = inFlight
    BY <1>1, SpawnAdds
  <2>3. IsFiniteSet(Holding \cup {t}) /\ Cardinality(Holding \cup {t}) = Cardinality(Holding) + 1
    BY <2>1, FS_AddElement
  <2>. QED  BY <2>2, <2>3
<1>2. ASSUME NEW t \in Tasks, GuardLeave(t) PROVE Counted'
  <2>1. /\ pc[t] = "guard" /\ t \in Interactive /\ inFlight' = inFlight - 1
        /\ pc' = [pc EXCEPT ![t] = "guard_notify"]
    BY <1>2 DEF GuardLeave, Goto, Typed, InGuard
  <2>2. t \in Holding /\ Holding' = Holding \ {t}
    BY <2>1, SchedulerAssumption DEF Holding, Typed
  <2>3. IsFiniteSet(Holding \ {t}) /\ Cardinality(Holding \ {t}) = Cardinality(Holding) - 1
    BY <2>2, FS_RemoveElement
  <2>. QED  BY <2>1, <2>2, <2>3
<1>3. ASSUME NEW p \in {"interactive", "background"}, DrainJoin(p) PROVE Counted'
  <2>1. PICK t \in EndedOf(p) : Goto(t, "joined")  BY <1>3 DEF DrainJoin
  <2>2. t \in Tasks /\ pc[t] = "ended" /\ pc' = [pc EXCEPT ![t] = "joined"]  BY <2>1 DEF EndedOf, Queue, Goto
  <2>3. Holding' = Holding  BY <2>2, SchedulerAssumption DEF Holding, Typed
  <2>4. inFlight' = inFlight  BY <1>3 DEF DrainJoin, DrainRest
  <2>. QED  BY <2>3, <2>4
<1>. QED  BY <1>1, <1>2, <1>3, QueuesKept

(* Only a spawn can break the threshold, and only the step into the second *)
(* phase of a drain could meet interactive work.                           *)
LEMMA PhaseEntered ==
  ASSUME Typed, [Next]_vars, ed' \in {"open", "opened", "background"}
  PROVE  ed \in {"open", "opened", "background"} \/ Queue("interactive") = {}
<1>1. CASE ed' = ed  BY <1>1
<1>2. CASE ed' # ed
  BY <1>2 DEF Next, ScheduleRefused, Spawn, CancelDoc, TaskStep, GateCreate, GateDepth, GateCount, GatePark, GateWake,
    Finish, Cancelled, GuardLeave, GuardNotify, NotifyOnDrop, Ended, TaskRest, DrainStep, DrainStart, OpenScope,
    OpenNotify, DrainJoin, DrainWait, DrainPark, DrainWake, DrainDone, DrainDeadline, DrainLeave, PhaseTwo, vars
<1>. QED  BY <1>1, <1>2

LEMMA BacklogKept ==
  ASSUME Typed, Backlog, [Next]_vars
  PROVE  Backlog'
<1> USE DEF Backlog
<1>1. ASSUME NEW t \in Tasks, NEW d, Spawn(t, d) PROVE Backlog'
  <2>1. ed' = "idle"  BY <1>1, SpawnAdds
  <2>2. CASE t \in Interactive
    <3>1. Queue("background")' = Queue("background")  BY <1>1, <2>2, SpawnAdds DEF Priority
    <3>. QED  BY <2>1, <3>1
  <2>3. CASE t \notin Interactive
    <3>1. /\ t \notin Queue("background") /\ Queue("background")' = Queue("background") \cup {t}
          /\ Cardinality(Queue("background")) < DropThreshold
      BY <1>1, <2>3, SpawnAdds DEF Priority
    <3>2. /\ IsFiniteSet(Queue("background") \cup {t})
          /\ Cardinality(Queue("background") \cup {t}) = Cardinality(Queue("background")) + 1
      BY <3>1, FS_AddElement
    <3>3. Cardinality(Queue("background")) \in Nat /\ DropThreshold \in Nat
      BY FS_CardinalityType, SchedulerAssumption
    <3>. QED  BY <2>1, <3>1, <3>2, <3>3
  <2>. QED  BY <2>2, <2>3
<1>2. ASSUME NEW t \in Tasks, GuardLeave(t) PROVE Backlog'
  <2>1. pc[t] = "guard" /\ pc' = [pc EXCEPT ![t] = "guard_notify"] /\ ed' = ed
    BY <1>2 DEF GuardLeave, Goto, TaskRest
  <2>2. \A p : Queue(p)' = Queue(p)  BY <2>1 DEF Queue, Live, Typed
  <2>. QED  BY <2>1, <2>2
<1>3. ASSUME NEW p \in {"interactive", "background"}, DrainJoin(p) PROVE Backlog'
  <2>1. PICK t \in EndedOf(p) : Goto(t, "joined")  BY <1>3 DEF DrainJoin
  <2>2. /\ t \in Tasks /\ pc[t] = "ended" /\ pc' = [pc EXCEPT ![t] = "joined"] /\ ed' = ed
    BY <1>3, <2>1, ZenonT(20) DEF EndedOf, Queue, Goto, DrainJoin
  <2>3. \A q : Queue(q)' = Queue(q) \ {t}  BY <2>2 DEF Queue, Live, Typed
  <2>4. IsFiniteSet(Queue("background") \ {t}) /\ Cardinality(Queue("background") \ {t}) <= Cardinality(Queue("background"))
    BY FS_RemoveElement, FS_CardinalityType
  <2>5. Cardinality(Queue("background")) \in Nat /\ Cardinality(Queue("background") \ {t}) \in Nat /\ DropThreshold \in Nat
    BY <2>4, FS_CardinalityType, SchedulerAssumption
  <2>. QED  BY <2>2, <2>3, <2>4, <2>5
<1>4. CASE \A p \in {"interactive", "background"} : Queue(p)' = Queue(p)
  BY <1>4, PhaseEntered
<1>. QED  BY <1>1, <1>2, <1>3, <1>4, QueuesKept

-----------------------------------------------------------------------------
(* The set of cancelled documents is the set of its queue: what leaves the *)
(* front of the queue occurs nowhere else in it.                           *)
Lru ==
  /\ lru \in Seq(Docs) /\ cancelledDocs = Range(lru)
  /\ IsInjective(lru) /\ Len(lru) <= LruCap

LEMMA AppendRange ==
  ASSUME NEW S, NEW s \in Seq(S), NEW x \in S, IsInjective(s), x \notin Range(s)
  PROVE  /\ Append(s, x) \in Seq(S) /\ Len(Append(s, x)) = Len(s) + 1
         /\ Range(Append(s, x)) = Range(s) \cup {x} /\ IsInjective(Append(s, x))
<1>1. /\ Append(s, x) \in Seq(S) /\ Len(Append(s, x)) = Len(s) + 1 /\ Len(s) \in Nat
      /\ DOMAIN s = 1..Len(s) /\ DOMAIN Append(s, x) = 1..(Len(s) + 1)
  BY AppendProperties, LenProperties
<1>2. Append(s, x)[Len(s) + 1] = x /\ \A i \in 1..Len(s) : Append(s, x)[i] = s[i]
  BY AppendProperties
<1>3. Range(Append(s, x)) = Range(s) \cup {x}
  BY <1>1, <1>2 DEF Range
<1>4. IsInjective(Append(s, x))
  BY <1>1, <1>2 DEF IsInjective, Range
<1>. QED  BY <1>1, <1>3, <1>4

LEMMA TailRange ==
  ASSUME NEW S, NEW s \in Seq(S), s # <<>>, IsInjective(s)
  PROVE  /\ Tail(s) \in Seq(S) /\ Len(Tail(s)) = Len(s) - 1
         /\ Range(Tail(s)) = Range(s) \ {Head(s)} /\ IsInjective(Tail(s))
<1>1. /\ Tail(s) \in Seq(S) /\ Len(Tail(s)) = Len(s) - 1 /\ Len(s) \in Nat /\ Len(s) # 0
      /\ DOMAIN s = 1..Len(s) /\ DOMAIN Tail(s) = 1..(Len(s) - 1) /\ Head(s) = s[1]
  BY HeadTailProperties, LenProperties, EmptySeq
<1>2. \A i \in 1..(Len(s) - 1) : Tail(s)[i] = s[i + 1]
  BY <1>1, HeadTailProperties
<1>3. \A i \in 1..Len(s) : i # 1 => i - 1 \in 1..(Len(s) - 1) /\ Tail(s)[i - 1] = s[i] /\ s[i] # s[1]
  BY <1>1, <1>2 DEF IsInjective
<1>4. \A i \in 1..(Len(s) - 1) : i + 1 \in 1..Len(s) /\ Tail(s)[i] = s[i + 1] /\ s[i + 1] # s[1]
  BY <1>1, <1>2 DEF IsInjective
<1>5. Range(Tail(s)) = Range(s) \ {Head(s)}
  <2>1. \A x : x \in Range(Tail(s)) <=> \E i \in 1..(Len(s) - 1) : x = Tail(s)[i]  BY <1>1, ZenonT(20) DEF Range
  <2>2. \A x : x \in Range(s) <=> \E i \in 1..Len(s) : x = s[i]  BY <1>1 DEF Range
  <2>3. ASSUME NEW x \in Range(Tail(s)) PROVE x \in Range(s) \ {Head(s)}
    BY <1>1, <1>4, <2>1, <2>2, <2>3
  <2>4. ASSUME NEW x \in Range(s) \ {Head(s)} PROVE x \in Range(Tail(s))
    <3>1. PICK i \in 1..Len(s) : x = s[i] /\ i # 1  BY <1>1, <2>2, <2>4
    <3>. QED  BY <1>3, <2>1, <3>1, ZenonT(20)
  <2>. QED  BY <2>3, <2>4
<1>6. IsInjective(Tail(s))
  BY <1>1, <1>4 DEF IsInjective
<1>. QED  BY <1>1, <1>5, <1>6

LEMMA LruKept ==
  ASSUME Lru, [Next]_vars
  PROVE  Lru'
<1>1. ASSUME NEW d \in Docs, CancelDoc(d) PROVE Lru'
  <2> DEFINE order == IF d \in cancelledDocs THEN lru ELSE Append(lru, d)
  <2>1. /\ order \in Seq(Docs) /\ Range(order) = cancelledDocs \cup {d} /\ IsInjective(order)
        /\ Len(order) <= LruCap + 1
    <3>1. CASE d \in cancelledDocs  BY <3>1, SchedulerAssumption, LenProperties DEF Lru
    <3>2. CASE d \notin cancelledDocs
      <4>1. /\ Append(lru, d) \in Seq(Docs) /\ Len(Append(lru, d)) = Len(lru) + 1
            /\ Range(Append(lru, d)) = Range(lru) \cup {d} /\ IsInjective(Append(lru, d))
        BY <3>2, AppendRange DEF Lru
      <4>2. Len(lru) \in Nat /\ LruCap \in Nat  BY SchedulerAssumption, LenProperties DEF Lru
      <4>. QED  BY <3>2, <4>1, <4>2 DEF Lru
    <3>. QED  BY <3>1, <3>2
  <2>2. /\ lru' = IF Len(order) > LruCap THEN Tail(order) ELSE order
        /\ cancelledDocs' = (cancelledDocs \cup {d}) \ (IF Len(order) > LruCap THEN {Head(order)} ELSE {})
    BY <1>1 DEF CancelDoc, mark_doc_cancelled
  <2> HIDE DEF order
  <2>3. Len(order) \in Nat /\ LruCap \in Nat  BY <2>1, SchedulerAssumption, LenProperties
  <2>4. CASE Len(order) > LruCap
    <3>1. order # <<>>  BY <2>3, <2>4, EmptySeq
    <3>2. /\ Tail(order) \in Seq(Docs) /\ Len(Tail(order)) = Len(order) - 1
          /\ Range(Tail(order)) = Range(order) \ {Head(order)} /\ IsInjective(Tail(order))
      BY <2>1, <3>1, TailRange
    <3>. QED  BY <2>1, <2>2, <2>3, <2>4, <3>2 DEF Lru
  <2>5. CASE ~(Len(order) > LruCap)
    BY <2>1, <2>2, <2>3, <2>5 DEF Lru
  <2>. QED  BY <2>4, <2>5
<1>2. CASE UNCHANGED <<lru, cancelledDocs>>
  BY <1>2 DEF Lru
<1>3. CASE ~(\E d \in Docs : CancelDoc(d))
  <2>1. UNCHANGED <<lru, cancelledDocs>>
    BY <1>3, ZenonT(30) DEF Next, ScheduleRefused, Spawn, TaskStep, GateCreate, GateDepth, GateCount, GatePark, GateWake,
      Finish, Cancelled, GuardLeave, GuardNotify, NotifyOnDrop, Ended, TaskRest, DrainStep, DrainStart, OpenScope,
      OpenNotify, DrainJoin, DrainWait, DrainPark, DrainWake, DrainDone, DrainDeadline, DrainLeave, DrainRest,
      tokens, vars
  <2>. QED  BY <1>2, <2>1
<1>. QED  BY <1>1, <1>3

-----------------------------------------------------------------------------
(* Tokens.  A live task of a document holds a real token: the document's   *)
(* current one, or one that has been fired.                                *)
Tokens ==
  /\ doc \in [Tasks -> Docs \cup {NoDoc}] /\ token \in [Tasks -> Nat]
  /\ docCancel \in [Docs -> Nat] /\ made \in Nat
  /\ \A t \in Tasks : Live(t) /\ doc[t] # NoDoc => token[t] # 0

LEMMA CancelKept ==
  ASSUME Typed, Lru, Tokens, CancelReaches, [Next]_vars
  PROVE  Tokens' /\ CancelReaches'
<1>1. ASSUME NEW t \in Tasks, NEW d \in Docs \cup {NoDoc}, Spawn(t, d) PROVE Tokens' /\ CancelReaches'
  <2>1. /\ doc' = [doc EXCEPT ![t] = d] /\ d \notin cancelledDocs /\ UNCHANGED <<fired, cancelledDocs>>
        /\ \A q \in Tasks \ {t} : Live(q)' <=> Live(q)
    BY <1>1 DEF Spawn, Live, Goto, Typed
  <2>2. CASE d = NoDoc
    <3>1. UNCHANGED <<token, made, docCancel>>  BY <1>1, <2>2, SchedulerAssumption DEF Spawn
    <3>2. Tokens'  BY <2>1, <2>2, <3>1 DEF Tokens
    <3>3. CancelReaches'  BY <2>1, <2>2, <3>1 DEF CancelReaches, Tokens
    <3>. QED  BY <3>2, <3>3
  <2>3. CASE d # NoDoc
    <3>1. doc_token(d) /\ token' = [token EXCEPT ![t] = docCancel'[d]]  BY <1>1, <2>3 DEF Spawn
    <3>2. /\ docCancel' \in [Docs -> Nat] /\ made' \in Nat /\ docCancel'[d] # 0
          /\ \A e \in Docs : docCancel[e] # 0 \/ e # d => docCancel'[e] = docCancel[e]
      BY <2>3, <3>1 DEF doc_token, Tokens
    <3>3. \A q \in Tasks \ {t} : token'[q] = token[q] /\ doc'[q] = doc[q]  BY <2>1, <3>1 DEF Tokens
    <3>4. token'[t] = docCancel'[d] /\ doc'[t] = d  BY <2>1, <3>1 DEF Tokens
    <3>5. Tokens'
      <4>1. token' \in [Tasks -> Nat] /\ doc' \in [Tasks -> Docs \cup {NoDoc}]  BY <2>1, <2>3, <3>1, <3>2 DEF Tokens
      <4>. QED  BY <2>1, <3>2, <3>3, <3>4, <4>1 DEF Tokens
    <3>6. CancelReaches'
      <4>1. \A q \in Tasks \ {t} : Live(q)' /\ doc'[q] # NoDoc =>
              /\ token'[q] \in fired' \cup {docCancel'[doc'[q]]}
              /\ doc'[q] \in cancelledDocs' => token'[q] \in fired'
        BY <2>1, <3>2, <3>3 DEF CancelReaches, Tokens
      <4>. QED  BY <2>1, <3>4, <4>1 DEF CancelReaches
    <3>. QED  BY <3>5, <3>6
  <2>. QED  BY <2>2, <2>3
<1>2. ASSUME NEW d \in Docs, CancelDoc(d) PROVE Tokens' /\ CancelReaches'
  <2>1. /\ fired' = fired \cup ({docCancel[d]} \ {0}) /\ docCancel' = [docCancel EXCEPT ![d] = 0]
        /\ UNCHANGED <<pc, doc, token, made>> /\ cancelledDocs' \subseteq cancelledDocs \cup {d}
    BY <1>2 DEF CancelDoc, mark_doc_cancelled
  <2>2. \A t \in Tasks : Live(t)' <=> Live(t)  BY <2>1 DEF Live
  <2>3. Tokens'  BY <2>1, <2>2 DEF Tokens
  <2>4. ASSUME NEW t \in Tasks, Live(t), doc[t] # NoDoc
        PROVE  /\ token[t] \in fired' \cup {docCancel'[doc[t]]}
               /\ doc[t] \in cancelledDocs' => token[t] \in fired'
    <3>1. doc[t] \in Docs /\ token[t] # 0  BY <2>4 DEF Tokens
    <3>2. /\ token[t] \in fired \cup {docCancel[doc[t]]}
          /\ doc[t] \in cancelledDocs => token[t] \in fired
      BY <2>4 DEF CancelReaches
    <3>3. CASE doc[t] = d  BY <2>1, <3>1, <3>2, <3>3
    <3>4. CASE doc[t] # d  BY <2>1, <3>1, <3>2, <3>4 DEF Tokens
    <3>. QED  BY <3>3, <3>4
  <2>. QED  BY <2>1, <2>2, <2>3, <2>4 DEF CancelReaches
<1>3. CASE UNCHANGED tokens /\ \A t \in Tasks : Live(t)' => Live(t)
  BY <1>3 DEF tokens, Tokens, CancelReaches
<1>4. CASE /\ ~\E d \in Docs : CancelDoc(d)
           /\ ~\E t \in Tasks, d \in Docs \cup {NoDoc} : Spawn(t, d)
  <2>1. UNCHANGED tokens
    BY <1>4, ZenonT(20) DEF Next, ScheduleRefused, TaskStep, GateCreate, GateDepth, GateCount, GatePark, GateWake,
      Finish, Cancelled, GuardLeave, GuardNotify, NotifyOnDrop, Ended, TaskRest, DrainStep, DrainStart, OpenScope,
      OpenNotify, DrainJoin, DrainWait, DrainPark, DrainWake, DrainDone, DrainDeadline, DrainLeave, DrainRest, vars
  <2>2. ASSUME NEW t \in Tasks, GuardLeave(t) PROVE \A q \in Tasks : Live(q)' => Live(q)
    BY <2>2 DEF GuardLeave, Goto, Live, Typed
  <2>3. ASSUME NEW p \in {"interactive", "background"}, DrainJoin(p) PROVE \A q \in Tasks : Live(q)' => Live(q)
    <3>1. PICK t \in EndedOf(p) : Goto(t, "joined")  BY <2>3 DEF DrainJoin
    <3>. QED  BY <3>1 DEF Goto, Live, Typed, EndedOf, Queue
  <2>4. ASSUME \A p \in {"interactive", "background"} : Queue(p)' = Queue(p), NEW t \in Tasks, Live(t)'
        PROVE  Live(t)
    <3>1. Priority(t) \in {"interactive", "background"}  BY DEF Priority
    <3>2. t \in Queue(Priority(t))'  BY <2>4 DEF Queue, Priority
    <3>3. t \in Queue(Priority(t))  BY <2>4, <3>1, <3>2 DEF Priority
    <3>. QED  BY <3>3 DEF Queue
  <2>5. \A t \in Tasks : Live(t)' => Live(t)
    <3>1. CASE \E t \in Tasks : GuardLeave(t)  BY <2>2, <3>1
    <3>2. CASE \E p \in {"interactive", "background"} : DrainJoin(p)  BY <2>3, <3>2
    <3>3. CASE /\ ~\E t \in Tasks : GuardLeave(t)
               /\ ~\E p \in {"interactive", "background"} : DrainJoin(p)
      <4>1. \A p \in {"interactive", "background"} : Queue(p)' = Queue(p)  BY <1>4, <3>3, QueuesKept
      <4>. QED  BY <2>4, <4>1
    <3>. QED  BY <3>1, <3>2, <3>3
  <2>. QED  BY <1>3, <2>1, <2>5
<1>. QED  BY <1>1, <1>2, <1>4

-----------------------------------------------------------------------------
(* The gate.  From its creation to its wake-up a task's future sees every  *)
(* notify_waiters.  A future that has seen none since its task read the    *)
(* depth, or the counter, is owed one by whoever changed that since.       *)
Unwoken(t) == gate.fut[t] \in {"created", "waiting"}

GateInv ==
  /\ \A t \in Tasks : /\ gate.fut[t] = "waiting" => pc[t] = "await"
                      /\ pc[t] \in {"depth", "count", "await"} => gate.fut[t] # "none"
                      /\ pc[t] \in {"count", "await"} /\ Unwoken(t) /\ depth > 0 => ed = "opened"
  /\ inFlight = 0 /\ (\E t \in Tasks : pc[t] = "await" /\ Unwoken(t)) => \E t \in Tasks : pc[t] = "guard_notify"

LEMMA GateKept ==
  ASSUME Typed, Counted, GateTyped, GateInv, [Next]_vars
  PROVE  GateTyped' /\ GateInv'
<1> DEFINE Kept == GateTyped' /\ GateInv'
<1> USE DEF Typed, Goto, AtGate, InGuard, GateTyped, GateInv, Unwoken
<1>0. inFlight \in Nat  BY FS_CardinalityType DEF Counted
<1>1. ASSUME NEW t \in Tasks, ScheduleRefused(t) PROVE Kept
  BY <1>1 DEF ScheduleRefused
<1>2. ASSUME NEW t \in Tasks, NEW d \in Docs \cup {NoDoc}, Spawn(t, d) PROVE Kept
  BY <1>0, <1>2 DEF Spawn
<1>3. ASSUME NEW d \in Docs, CancelDoc(d) PROVE Kept
  BY <1>3 DEF CancelDoc
<1>4. ASSUME NEW t \in Tasks, GateCreate(t) PROVE Kept
  <2>0. gate' = Created(gate, t)  BY <1>4 DEF GateCreate
  <2>1. /\ gate' \in NotifyType(Tasks) /\ gate'.fut[t] = "created" /\ gate'.permit = gate.permit
        /\ \A q \in Tasks \ {t} : gate'.fut[q] = gate.fut[q]
    BY <2>0 DEF Created, NotifyType, FutureState
  <2>2. pc' = [pc EXCEPT ![t] = "depth"] /\ UNCHANGED <<depth, ed, inFlight>> /\ pc[t] = "gate"
    BY <1>4 DEF GateCreate, TaskRest
  <2>. QED  BY <2>1, <2>2
<1>5. ASSUME NEW t \in Tasks, GateDepth(t) \/ GateCount(t), gate' \in Dropped(gate, t), pc' = [pc EXCEPT ![t] = "run"]
      PROVE  Kept
  <2>1. gate' = [gate EXCEPT !.fut[t] = "none"]  BY <1>5 DEF Dropped
  <2>2. /\ gate' \in NotifyType(Tasks) /\ gate'.fut[t] = "none" /\ gate'.permit = gate.permit
        /\ \A q \in Tasks \ {t} : gate'.fut[q] = gate.fut[q]
    BY <2>1 DEF NotifyType, FutureState
  <2>3. UNCHANGED <<depth, ed, inFlight>> /\ pc[t] \in {"depth", "count"}
    BY <1>5 DEF GateDepth, GateCount, TaskRest
  <2>. QED  BY <1>5, <2>2, <2>3
<1>6. ASSUME NEW t \in Tasks, GateDepth(t), depth = 0, pc' = [pc EXCEPT ![t] = "count"], UNCHANGED gate PROVE Kept
  BY <1>6 DEF GateDepth, TaskRest
<1>7. ASSUME NEW t \in Tasks, GateCount(t), inFlight > 0, pc' = [pc EXCEPT ![t] = "await"], UNCHANGED gate PROVE Kept
  BY <1>0, <1>7 DEF GateCount, TaskRest
<1>8. ASSUME NEW t \in Tasks, GatePark(t) PROVE Kept
  <2>0. gate' = Registered(gate, t)  BY <1>8 DEF GatePark
  <2>1. /\ gate' \in NotifyType(Tasks) /\ gate'.fut[t] = "waiting" /\ gate'.permit = gate.permit
        /\ \A q \in Tasks \ {t} : gate'.fut[q] = gate.fut[q]
    BY <2>0 DEF Registered, NotifyType, FutureState
  <2>2. pc[t] = "await" /\ gate.fut[t] = "created" /\ UNCHANGED <<pc, depth, ed, inFlight>>
    BY <1>8 DEF GatePark, TaskRest, Ready, NotifyType, FutureState
  <2>. QED  BY <2>1, <2>2
<1>9. ASSUME NEW t \in Tasks, GateWake(t) PROVE Kept
  <2>0. gate' = Polled(gate, t)  BY <1>9 DEF GateWake
  <2>1. /\ gate' \in NotifyType(Tasks) /\ gate'.fut[t] = "none"
        /\ \A q \in Tasks \ {t} : gate'.fut[q] = gate.fut[q]
    BY <2>0, ZenonT(20) DEF Polled, NotifyType, FutureState
  <2>2. ~gate'.permit  BY <1>9 DEF GateWake, Polled, NotifyType
  <2>3. pc' = [pc EXCEPT ![t] = "gate"] /\ UNCHANGED <<depth, ed, inFlight>> /\ pc[t] = "await"
    BY <1>9 DEF GateWake, TaskRest
  <2>. QED  BY <2>1, <2>2, <2>3
<1>10. ASSUME NEW t \in Tasks, Finish(t) \/ Cancelled(t) PROVE Kept
  BY <1>10 DEF Finish, Cancelled, AfterRun, TaskRest
<1>11. ASSUME NEW t \in Tasks, GuardLeave(t) PROVE Kept
  BY <1>11 DEF GuardLeave, TaskRest
<1>12. ASSUME NEW t \in Tasks, GuardNotify(t) PROVE Kept
  <2>1. /\ gate' \in NotifyType(Tasks) /\ gate'.permit = gate.permit
        /\ \A q \in Tasks : gate'.fut[q] = IF gate.fut[q] = "waiting" THEN "all"
                                          ELSE IF gate.fut[q] = "created" THEN "recalled" ELSE gate.fut[q]
    BY <1>12 DEF GuardNotify, NotifyWaiters, NotifyType, FutureState
  <2>2. pc' = [pc EXCEPT ![t] = "notify"] /\ UNCHANGED <<depth, ed, inFlight>>
    BY <1>12 DEF GuardNotify, TaskRest
  <2>. QED  BY <2>1, <2>2
<1>13. ASSUME NEW t \in Tasks, Ended(t) \/ NotifyOnDrop(t) PROVE Kept
  BY <1>13 DEF Ended, NotifyOnDrop, TaskRest
<1>14. CASE OpenNotify
  <2>1. /\ gate' \in NotifyType(Tasks) /\ gate'.permit = gate.permit
        /\ \A q \in Tasks : gate'.fut[q] = IF gate.fut[q] = "waiting" THEN "all"
                                          ELSE IF gate.fut[q] = "created" THEN "recalled" ELSE gate.fut[q]
    BY <1>14 DEF OpenNotify, NotifyWaiters, NotifyType, FutureState
  <2>2. UNCHANGED <<pc, depth, inFlight>>  BY <1>14 DEF OpenNotify, DrainRest
  <2>. QED  BY <2>1, <2>2
<1>15. CASE DrainStart \/ OpenScope
  BY <1>15 DEF DrainStart, OpenScope, DrainRest
<1>16. ASSUME NEW p \in {"interactive", "background"}, DrainJoin(p) PROVE Kept
  <2>1. PICK t \in EndedOf(p) : Goto(t, "joined")  BY <1>16, ZenonT(20) DEF DrainJoin
  <2>2. t \in Tasks /\ pc[t] = "ended"  BY DEF EndedOf, Queue
  <2>. QED  BY <1>16, <2>1, <2>2 DEF DrainJoin, DrainRest
<1>17. ASSUME NEW p \in {"interactive", "background"}, DrainWait(p) \/ DrainPark(p) \/ DrainWake(p) PROVE Kept
  BY <1>17 DEF DrainWait, DrainPark, DrainWake, DrainRest
<1>18. ASSUME NEW p \in {"interactive", "background"}, DrainDone(p) \/ DrainDeadline(p) PROVE Kept
  <2>1. UNCHANGED <<pc, gate, inFlight>> /\ ed = p /\ ed # "opened"
    BY <1>18 DEF DrainDone, DrainDeadline, DrainLeave, DrainRest, Looping
  <2>2. depth' = 0
    BY <1>18, <2>1 DEF DrainDone, DrainDeadline, DrainLeave
  <2>. QED  BY <2>1, <2>2
<1>19. CASE UNCHANGED vars
  BY <1>19 DEF vars
<1>20. ASSUME NEW t \in Tasks, GateDepth(t) PROVE Kept
  BY <1>5, <1>6, <1>20 DEF GateDepth
<1>21. ASSUME NEW t \in Tasks, GateCount(t) PROVE Kept
  BY <1>5, <1>7, <1>21 DEF GateCount
<1> HIDE DEF GateTyped, GateInv, Typed
<1>. QED
  BY <1>1, <1>2, <1>3, <1>4, <1>8, <1>9, <1>10, <1>11, <1>12, <1>13, <1>14, <1>15, <1>16, <1>17, <1>18, <1>19,
    <1>20, <1>21 DEF Next, TaskStep, DrainStep

-----------------------------------------------------------------------------
SchedulerInv ==
  /\ Typed /\ Counted /\ Backlog /\ Lru /\ Tokens /\ CancelReaches
  /\ GateTyped /\ GateInv

LEMMA SchedulerInit == Init => SchedulerInv
<1> SUFFICES ASSUME Init PROVE SchedulerInv
  OBVIOUS
<1>1. Typed  BY SchedulerAssumption DEF Init, Typed, AtGate, InGuard
<1>2. Holding = {} /\ \A p : Queue(p) = {}
  BY SchedulerAssumption DEF Init, Holding, Queue, Live
<1>3. Counted  BY <1>2, FS_EmptySet DEF Init, Counted
<1>4. Backlog  BY <1>2, FS_EmptySet, SchedulerAssumption DEF Backlog
<1>5. Lru  BY EmptySeq, SchedulerAssumption DEF Init, Lru, Range, IsInjective
<1>6. Tokens /\ CancelReaches  BY DEF Init, Tokens, CancelReaches, Live
<1>7. GateTyped /\ GateInv
  <2>1. gate = [permit |-> FALSE, fut |-> [t \in Tasks |-> "none"]]  BY DEF Init, New
  <2>2. gate \in NotifyType(Tasks) /\ ~gate.permit /\ \A t \in Tasks : gate.fut[t] = "none"
    BY <2>1 DEF NotifyType, FutureState
  <2>3. \A t \in Tasks : pc[t] = "new"  BY DEF Init
  <2>. QED  BY <2>2, <2>3 DEF GateTyped, GateInv, Unwoken
<1>. QED  BY <1>1, <1>3, <1>4, <1>5, <1>6, <1>7 DEF SchedulerInv

LEMMA SchedulerStep == SchedulerInv /\ [Next]_vars => SchedulerInv'
  BY TypedKept, CountedKept, BacklogKept, LruKept, CancelKept, GateKept DEF SchedulerInv

(* The counters of the gate, the backlog threshold, the LRU set of         *)
(* cancelled documents and the strict order of interactive before          *)
(* background work are kept by every interleaving of the editor with any   *)
(* number of tasks.                                                        *)
THEOREM BooksAreExact == Spec => []SchedulerTypeOK
<1>1. SchedulerInv => SchedulerTypeOK
  <2> SUFFICES ASSUME SchedulerInv PROVE SchedulerTypeOK
    OBVIOUS
  <2>1. inFlight = Cardinality({t \in Interactive : pc[t] \in {"run", "guard"}})
    BY DEF SchedulerInv, Counted, Holding
  <2>2. depth > 0 => Queue("interactive") = {}  BY DEF SchedulerInv, Typed, Backlog
  <2>. QED  BY <2>1, <2>2 DEF SchedulerInv, SchedulerTypeOK, Typed, Backlog, Lru, GateTyped
<1>. QED  BY SchedulerInit, SchedulerStep, <1>1, PTL DEF Spec

(* wait_for_background loses no wake-up.                                   *)
THEOREM GateLosesNoWakeup == Spec => []GateWaiterCovered
<1>1. SchedulerInv => GateWaiterCovered
  BY DEF SchedulerInv, GateInv, Unwoken, GateWaiterCovered
<1>. QED  BY SchedulerInit, SchedulerStep, <1>1, PTL DEF Spec

(* cancel_doc fires the token of every task of the document that may still *)
(* run, whatever was scheduled and cancelled before.                       *)
THEOREM CancellationReaches == Spec => []CancelReaches
<1>1. SchedulerInv => CancelReaches
  BY DEF SchedulerInv
<1>. QED  BY SchedulerInit, SchedulerStep, <1>1, PTL DEF Spec
=============================================================================
