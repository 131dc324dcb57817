---------------------------- MODULE ServiceProofs ---------------------------
(***************************************************************************)
(* What the editor keeps running beside itself, supervised actors and      *)
(* language servers.                                                       *)
(*                                                                         *)
(* The join controller, and the supervised actor that implements it, for   *)
(* any number of concurrent shutdown callers, any capacity and any restart *)
(* budget: a completed shutdown means a stopped actor, and commands are    *)
(* taken in the order they were sent.  And the command ingress, which      *)
(* keeps what it accepts in order for any staging and mailbox capacity.    *)
(*                                                                         *)
(* One start at a time and no orphaned server, for any set of documents,   *)
(* any number of start rounds and queued events, with and without dropped  *)
(* acquires and shutdown_all; and for one server's transport, no reordered *)
(* write and no abandoned request.                                         *)
(***************************************************************************)
EXTENDS Actor, LspServers, LspTransport, SequenceTheorems, TLAPS

(* Time limits; SMT has further tries. *)
USE SMTT(20), ZenonT(20), SMTT(30), SMTT(40)

-----------------------------------------------------------------------------
(* The join controller.  Its three properties support each other, but a    *)
(* caller that finds Done reports completion, so Done itself has to imply  *)
(* that the supervisor ended.                                              *)
JoinInv ==
  /\ J!JoinTypeOK /\ J!OneLeader /\ J!JoinedMeansFinished /\ J!FollowerCovered
  /\ joinState = "Done" => sup = "done"

(* Whether the supervisor has an instance, and what it knows of the last   *)
(* one; a shutdown reports completion only what the controller said.       *)
Supervised ==
  /\ sup \in {"loop", "start", "running", "exited", "backoff", "done"}
  /\ sup # "running" => inst \in {"none", "exited"}
  /\ sup \in {"exited", "backoff", "done"} => lastExit # "none"
  /\ inst \in {"stopping", "exited"} => reason # "none"
  /\ DOMAIN cpc = Callers
  /\ \A c \in Callers : cpc[c] = "completed" => sup = "done"

(* Whatever exit is recorded, and whatever exit an instance is about to    *)
(* record, MailboxClosed is only said of a closed and empty mailbox.       *)
Drained ==
  \A r \in {reason, lastExit} : r = "MailboxClosed" => closed /\ mail = <<>>

InOrder ==
  /\ mail \in Seq(Nat) /\ taken \in Seq(Nat) /\ sent \in Nat
  /\ taken \o mail = [i \in 1..sent |-> i]

ActorInv == JoinInv /\ Supervised /\ Drained /\ InOrder

LEMMA ActorInit == Init => ActorInv
<1> SUFFICES ASSUME Init PROVE ActorInv
  OBVIOUS
<1>1. JoinInv
  BY DEF Init, JoinInv, J!JoinInit, J!JoinTypeOK, J!OneLeader, J!Leaders, J!JoinedMeansFinished, J!FollowerCovered
<1>2. Supervised /\ Drained
  BY DEF Init, Supervised, Drained
<1>3. InOrder
  <2>1. <<>> \in Seq(Nat) /\ <<>> \o <<>> = <<>>  BY EmptySeq, ConcatEmptySeq
  <2>2. <<>> = [i \in 1..0 |-> i]  OBVIOUS
  <2>. QED  BY <2>1, <2>2 DEF Init, InOrder
<1>. QED  BY <1>1, <1>2, <1>3 DEF ActorInv
-----------------------------------------------------------------------------
(* The join controller by itself: its own steps keep it right, and so does *)
(* the end of the supervisor.                                              *)
LEMMA JoinStepKept ==
  ASSUME JoinInv, NEW c \in Callers, (sup = "done")' = (sup = "done"),
         J!JoinStep(c) \/ \E deadline \in BOOLEAN : J!Join(c, deadline)
  PROVE  JoinInv'
<1> USE DEF JoinInv, J!JoinTypeOK, J!OneLeader, J!Leaders, J!JoinedMeansFinished, J!FollowerCovered, J!JoinGoto
<1>1. ASSUME NEW deadline \in BOOLEAN, J!Join(c, deadline) PROVE JoinInv'
  BY <1>1 DEF J!Join
<1>2. CASE J!FindDone(c)  BY <1>2 DEF J!FindDone
<1>3. CASE J!Follow(c)  BY <1>3 DEF J!Follow
<1>4. CASE J!Lead(c)  BY <1>4 DEF J!Lead
<1>5. CASE J!LeadDone(c)  BY <1>5 DEF J!LeadDone
<1>6. CASE J!Announce(c)
  <2>1. PICK r \in {"true", "false"} : jpc' = [jpc EXCEPT ![c] = r] /\ (r = "true" <=> jpc[c] = "announce_true")
    BY <1>6 DEF J!Announce
  <2>2. UNCHANGED <<joinState, timed>> /\ jpc[c] \in {"announce_true", "announce_false"}
    BY <1>6 DEF J!Announce
  <2>3. noted' \in [Callers -> BOOLEAN]
    BY <1>6 DEF J!Announce
  <2>4. J!JoinTypeOK' /\ J!OneLeader' /\ J!JoinedMeansFinished' /\ (joinState = "Done" => sup = "done")'
    BY <2>1, <2>2, <2>3, ZenonT(20)
  <2>5. J!FollowerCovered'
    <3>1. \A d \in Callers : jpc[d] = "follow" => noted'[d]  BY <1>6, ZenonT(20) DEF J!Announce
    <3>2. \A d \in Callers : jpc'[d] = "follow" => jpc[d] = "follow"  BY <2>1
    <3>. QED  BY <3>1, <3>2
  <2>. QED  BY <2>4, <2>5
<1>7. CASE J!FollowWake(c)  BY <1>7 DEF J!FollowWake
<1>8. CASE J!LeadTimeout(c)  BY <1>8 DEF J!LeadTimeout
<1>9. CASE J!FollowTimeout(c)  BY <1>9 DEF J!FollowTimeout
<1>. QED
  BY <1>1, <1>2, <1>3, <1>4, <1>5, <1>6, <1>7, <1>8, <1>9 DEF J!JoinStep, J!JoinProgress, J!JoinExpire

LEMMA JoinUndisturbed ==
  ASSUME JoinInv, UNCHANGED <<joinState, jpc, timed, noted>>, sup = "done" => sup' = "done"
  PROVE  JoinInv'
BY DEF JoinInv, J!JoinTypeOK, J!OneLeader, J!Leaders, J!JoinedMeansFinished, J!FollowerCovered

(* The join controller over any task that ends at some point, which may be *)
(* a supervisor: one leader at a time, no completion reported before the   *)
(* task ended, and no follower left without somebody to wake it, for any   *)
(* number of callers of SupervisorJoinCtrl with and without deadlines.     *)
THEOREM JoinSafe == J!Spec => [](J!OneLeader /\ J!JoinedMeansFinished /\ J!FollowerCovered)
<1>1. J!Init => JoinInv
  BY DEF J!Init, JoinInv, J!JoinInit, J!JoinTypeOK, J!OneLeader, J!Leaders, J!JoinedMeansFinished, J!FollowerCovered
<1>2. JoinInv /\ [J!Next]_(J!vars) => JoinInv'
  <2> SUFFICES ASSUME JoinInv, [J!Next]_(J!vars) PROVE JoinInv'
    OBVIOUS
  <2> USE DEF JoinInv, J!JoinTypeOK, J!OneLeader, J!Leaders, J!JoinedMeansFinished, J!FollowerCovered
  <2>1. CASE J!Finish  BY <2>1 DEF J!Finish, J!jvars
  <2>2. CASE UNCHANGED J!vars  BY <2>2 DEF J!vars
  <2>3. ASSUME NEW c \in Callers, J!JoinStep(c) \/ \E deadline \in BOOLEAN : J!Join(c, deadline),
               (sup = "done")' = (sup = "done")
        PROVE  JoinInv'
    BY <2>3, JoinStepKept
  <2>. QED  BY <2>1, <2>2, <2>3 DEF J!Next
<1>3. JoinInv => J!OneLeader /\ J!JoinedMeansFinished /\ J!FollowerCovered  BY DEF JoinInv
<1>. QED  BY <1>1, <1>2, <1>3, PTL DEF J!Spec

(* Only the callers' steps touch the controller, and the supervisor task   *)
(* does not come back.                                                     *)
LEMMA JoinKept ==
  ASSUME ActorInv, [Next]_vars
  PROVE  JoinInv'
<1>0. JoinInv  BY DEF ActorInv
<1> USE DEF mailbox, supervisor, instance, callers
<1>1. CASE Send \/ HandleCancel \/ HandleCloseNow
  BY <1>0, <1>1, JoinUndisturbed DEF Send, HandleCancel, HandleCloseNow
<1>2. CASE SupStep
  <2>1. sup # "done" /\ UNCHANGED <<joinState, jpc, timed, noted>>
    BY <1>2 DEF SupStep, SupCancelled, SupProceed, SupStart, SupReap, SupStop, SupRestart, SupBackoff
  <2>. QED  BY <1>0, <2>1, JoinUndisturbed
<1>3. CASE InstPrompt \/ InstUser
  <2>1. UNCHANGED <<sup, joinState, jpc, timed, noted>>
    BY <1>3, ZenonT(20) DEF InstPrompt, InstUser, StartCancelled, RecvPop, RecvNone, RecvEmpty, RecvPark, RecvCancelled,
      HandleCancelled, OnStop, StartOk, StartFail, HandleContinue, HandleExit, InstGoto, InstRest
  <2>. QED  BY <1>0, <2>1, JoinUndisturbed
<1>4. ASSUME NEW c \in Callers, Shutdown(c) \/ ShutdownDone(c) \/ ShutdownTimedOut(c) PROVE JoinInv'
  <2>1. UNCHANGED <<sup, joinState, jpc, timed, noted>>
    BY <1>4, ZenonT(20) DEF Shutdown, ShutdownDone, ShutdownTimedOut
  <2>. QED  BY <1>0, <2>1, JoinUndisturbed
<1>5. ASSUME NEW c \in Callers, ShutdownClose(c) PROVE JoinInv'
  <2>1. UNCHANGED sup /\ J!Join(c, cpc[c] = "close_timed")  BY <1>5 DEF ShutdownClose
  <2>2. (cpc[c] = "close_timed") \in BOOLEAN  OBVIOUS
  <2>. QED  BY <1>0, <2>1, <2>2, JoinStepKept, ZenonT(20)
<1>6. ASSUME NEW c \in Callers, ShutdownJoin(c) \/ ShutdownExpire(c) PROVE JoinInv'
  BY <1>0, <1>6, JoinStepKept DEF ShutdownJoin, ShutdownExpire, J!JoinStep
<1>7. CASE UNCHANGED vars
  BY <1>0, <1>7, JoinUndisturbed DEF vars
<1>. QED  BY <1>1, <1>2, <1>3, <1>4, <1>5, <1>6, <1>7 DEF Next, CallerStep
-----------------------------------------------------------------------------
LEMMA SupervisedKept ==
  ASSUME ActorInv, [Next]_vars
  PROVE  Supervised' /\ Drained'
<1>0. Supervised /\ Drained /\ J!JoinedMeansFinished /\ mail \in Seq(Nat)
  BY DEF ActorInv, JoinInv, InOrder
<1> USE DEF mailbox, supervisor, instance, callers, Supervised, Drained
<1>1. CASE Send
  <2>1. mail' # mail => ~closed  BY <1>1 DEF Send
  <2>. QED  BY <1>0, <1>1, <2>1 DEF Send
<1>2. CASE HandleCancel
  BY <1>0, <1>2 DEF HandleCancel
<1>3. CASE HandleCloseNow
  BY <1>0, <1>3 DEF HandleCloseNow, CloseMailbox
<1>4. CASE SupCancelled \/ SupProceed \/ SupStart
  BY <1>0, <1>4 DEF SupCancelled, SupProceed, SupStart
<1>5. CASE SupReap
  BY <1>0, <1>5 DEF SupReap
<1>6. CASE SupStop \/ SupRestart \/ SupBackoff
  BY <1>0, <1>6 DEF SupStop, SupRestart, SupBackoff
<1>7. CASE StartOk \/ StartFail \/ StartCancelled
  BY <1>0, <1>7 DEF StartOk, StartFail, StartCancelled, Exit, InstRest
<1>8. CASE RecvPop
  BY <1>0, <1>8 DEF RecvPop, InstGoto
<1>9. CASE RecvNone \/ RecvCancelled \/ HandleCancelled
  BY <1>0, <1>9 DEF RecvNone, RecvCancelled, HandleCancelled, OnStopThenExit, InstRest
<1>10. CASE RecvEmpty \/ RecvPark
  BY <1>0, <1>10 DEF RecvEmpty, RecvPark, InstGoto
<1>11. CASE HandleContinue \/ HandleExit
  BY <1>0, <1>11 DEF HandleContinue, HandleExit, OnStopThenExit, Exit, InstRest
<1>12. CASE OnStop
  BY <1>0, <1>12 DEF OnStop, Exit, InstRest
<1>13. ASSUME NEW c \in Callers, Shutdown(c) PROVE Supervised' /\ Drained'
  BY <1>0, <1>13 DEF Shutdown, CallGoto
<1>14. ASSUME NEW c \in Callers, ShutdownClose(c) PROVE Supervised' /\ Drained'
  BY <1>0, <1>14 DEF ShutdownClose, CallGoto, CloseMailbox
<1>15. ASSUME NEW c \in Callers, ShutdownJoin(c) \/ ShutdownExpire(c) PROVE Supervised' /\ Drained'
  BY <1>0, <1>15 DEF ShutdownJoin, ShutdownExpire
<1>16. ASSUME NEW c \in Callers, ShutdownDone(c) PROVE Supervised' /\ Drained'
  <2>1. sup = "done"  BY <1>0, <1>16 DEF ShutdownDone, J!JoinedMeansFinished
  <2>. QED  BY <1>0, <1>16, <2>1 DEF ShutdownDone, CallGoto
<1>17. ASSUME NEW c \in Callers, ShutdownTimedOut(c) PROVE Supervised' /\ Drained'
  BY <1>0, <1>17 DEF ShutdownTimedOut, CallGoto
<1>18. CASE UNCHANGED vars
  BY <1>0, <1>18 DEF vars
<1>. QED
  BY <1>1, <1>2, <1>3, <1>4, <1>5, <1>6, <1>7, <1>8, <1>9, <1>10, <1>11, <1>12, <1>13, <1>14, <1>15, <1>16,
     <1>17, <1>18, ZenonT(20)
  DEF Next, SupStep, InstPrompt, InstUser, CallerStep
-----------------------------------------------------------------------------
(* A send puts a command at the end of what was taken and what waits; a    *)
(* take moves the border between the two.                                  *)
LEMMA PushedLast ==
  ASSUME NEW S, NEW t \in Seq(S), NEW m \in Seq(S), NEW x \in S
  PROVE  t \o Append(m, x) = Append(t \o m, x)
<1>1. <<x>> \in Seq(S) /\ t \o m \in Seq(S)  BY ConcatProperties
<1>2. Append(m, x) = m \o <<x>>  BY AppendIsConcat
<1>3. Append(t \o m, x) = (t \o m) \o <<x>>  BY <1>1, AppendIsConcat
<1>4. (t \o m) \o <<x>> = t \o (m \o <<x>>)  BY <1>1, ConcatAssociative
<1>. QED  BY <1>2, <1>3, <1>4

LEMMA TakenFirst ==
  ASSUME NEW S, NEW t \in Seq(S), NEW m \in Seq(S), m # <<>>
  PROVE  /\ Tail(m) \in Seq(S) /\ Append(t, Head(m)) \in Seq(S)
         /\ Append(t, Head(m)) \o Tail(m) = t \o m
<1>1. Tail(m) \in Seq(S) /\ Head(m) \in S /\ <<Head(m)>> \o Tail(m) = m  BY HeadTailProperties
<1>2. Append(t, Head(m)) = t \o <<Head(m)>> /\ Append(t, Head(m)) \in Seq(S)
  BY <1>1, AppendIsConcat, AppendProperties
<1>3. <<Head(m)>> \in Seq(S)  BY <1>1
<1>4. (t \o <<Head(m)>>) \o Tail(m) = t \o (<<Head(m)>> \o Tail(m))  BY <1>1, <1>3, ConcatAssociative
<1>. QED  BY <1>1, <1>2, <1>4

(* One more number at the end of 1, 2, .., n.                              *)
LEMMA CountingOn ==
  ASSUME NEW n \in Nat
  PROVE  Append([i \in 1..n |-> i], n + 1) = [i \in 1..(n + 1) |-> i]
<1> DEFINE s == [i \in 1..n |-> i]
<1>1. s \in Seq(Nat) /\ Len(s) = n  OBVIOUS
<1>2. Append(s, n + 1) \in Seq(Nat) /\ Len(Append(s, n + 1)) = n + 1
  BY <1>1, AppendProperties
<1>3. ASSUME NEW i \in 1..(n + 1) PROVE Append(s, n + 1)[i] = i
  BY <1>1, AppendProperties
<1>. QED  BY <1>2, <1>3

LEMMA OrderKept ==
  ASSUME ActorInv, [Next]_vars
  PROVE  InOrder'
<1>0. mail \in Seq(Nat) /\ taken \in Seq(Nat) /\ sent \in Nat /\ taken \o mail = [i \in 1..sent |-> i]
  BY DEF ActorInv, InOrder
<1> USE DEF mailbox, supervisor, instance, callers
<1>1. CASE Send
  <2>1. sent' = sent + 1 /\ mail' = Append(mail, sent + 1) /\ taken' = taken  BY <1>1 DEF Send
  <2>2. sent + 1 \in Nat  BY <1>0
  <2>3. Append(mail, sent + 1) \in Seq(Nat)  BY <1>0, <2>2, AppendProperties
  <2>4. taken \o Append(mail, sent + 1) = Append(taken \o mail, sent + 1)
    <3> DEFINE x == sent + 1
    <3>1. x \in Nat /\ taken \in Seq(Nat) /\ mail \in Seq(Nat)  BY <1>0, <2>2
    <3> HIDE DEF x
    <3>2. taken \o Append(mail, x) = Append(taken \o mail, x)  BY <3>1, PushedLast
    <3>. QED  BY <3>2 DEF x
  <2>. QED  BY <1>0, <2>1, <2>2, <2>3, <2>4, CountingOn, ZenonT(20) DEF InOrder
<1>2. CASE RecvPop
  <2>1. mail # <<>> /\ mail' = Tail(mail) /\ taken' = Append(taken, Head(mail)) /\ sent' = sent
    BY <1>2 DEF RecvPop, InstGoto
  <2>2. /\ Tail(mail) \in Seq(Nat) /\ Append(taken, Head(mail)) \in Seq(Nat)
        /\ Append(taken, Head(mail)) \o Tail(mail) = taken \o mail
    BY <1>0, <2>1, TakenFirst, ZenonT(20)
  <2>. QED  BY <1>0, <2>1, <2>2 DEF InOrder
<1>3. CASE UNCHANGED <<mail, taken, sent>>
  BY <1>0, <1>3 DEF InOrder
<1>4. CASE HandleCancel \/ HandleCloseNow \/ SupStep \/ UNCHANGED vars
  BY <1>3, <1>4, ZenonT(20) DEF HandleCancel, HandleCloseNow, SupStep, SupCancelled, SupProceed, SupStart, SupReap, SupStop,
    SupRestart, SupBackoff, vars
<1>5. CASE StartCancelled \/ RecvNone \/ RecvEmpty \/ RecvPark \/ RecvCancelled \/ HandleCancelled \/ OnStop \/ InstUser
  BY <1>3, <1>5, ZenonT(20) DEF StartCancelled, RecvNone, RecvEmpty, RecvPark, RecvCancelled, HandleCancelled, OnStop,
    InstUser, StartOk, StartFail, HandleContinue, HandleExit, InstGoto, InstRest
<1>6. ASSUME NEW c \in Callers, Shutdown(c) \/ CallerStep(c) \/ ShutdownExpire(c) PROVE InOrder'
  BY <1>3, <1>6, ZenonT(20) DEF Shutdown, CallerStep, ShutdownClose, ShutdownJoin, ShutdownDone, ShutdownTimedOut, ShutdownExpire
<1>. QED  BY <1>1, <1>2, <1>4, <1>5, <1>6 DEF Next, InstPrompt
-----------------------------------------------------------------------------
LEMMA ActorKept == ActorInv /\ [Next]_vars => ActorInv'
BY JoinKept, SupervisedKept, OrderKept DEF ActorInv

(* ActorHandle::shutdown returns `completed` only when the supervisor task *)
(* and its last instance are gone and the exit is recorded, for any number *)
(* of callers that race in the join controller, time out and lead again.   *)
THEOREM CompletionIsReal == Spec => []CompletedMeansStopped
<1>1. ActorInv => CompletedMeansStopped
  BY DEF ActorInv, JoinInv, Supervised, CompletedMeansStopped
<1>. QED  BY ActorInit, ActorKept, <1>1, PTL DEF Spec

(* Commands are taken in send order, once each, across any number of       *)
(* restarts, and an exit for MailboxClosed leaves none behind.             *)
THEOREM CommandsInOrder == Spec => []TakenInOrder
<1>1. ActorInv => TakenInOrder
  BY DEF ActorInv, InOrder, Drained, TakenInOrder
<1>. QED  BY ActorInit, ActorKept, <1>1, PTL DEF Spec

(* The actor uses the join controller as it is specified: to the callers   *)
(* the supervisor is a task that ends once, and no other step of the actor *)
(* touches the controller's state.                                         *)
THEOREM ActorImplementsJoin == Spec => J!Spec
<1>1. Init => J!Init  BY DEF Init, J!Init
<1>2. [Next]_vars => [J!Next]_(J!vars)
  <2> SUFFICES ASSUME [Next]_vars PROVE [J!Next]_(J!vars)
    OBVIOUS
  <2> USE DEF mailbox, supervisor, instance, callers
  <2>1. ASSUME UNCHANGED <<joinState, jpc, timed, noted>>, (sup = "done")' = (sup = "done")
        PROVE  [J!Next]_(J!vars)
    BY <2>1 DEF J!vars
  <2>2. CASE Send \/ HandleCancel \/ HandleCloseNow \/ UNCHANGED vars
    BY <2>1, <2>2 DEF Send, HandleCancel, HandleCloseNow, vars
  <2>3. CASE SupStep
    <3>1. sup # "done" /\ UNCHANGED <<joinState, jpc, timed, noted>>
      BY <2>3, ZenonT(20) DEF SupStep, SupCancelled, SupProceed, SupStart, SupReap, SupStop, SupRestart, SupBackoff
    <3>2. CASE sup' = "done"  BY <3>1, <3>2 DEF J!Next, J!Finish, J!jvars
    <3>3. CASE sup' # "done"  BY <2>1, <3>1, <3>3
    <3>. QED  BY <3>2, <3>3
  <2>4. CASE InstPrompt \/ InstUser
    <3>1. UNCHANGED <<sup, joinState, jpc, timed, noted>>
      BY <2>4, ZenonT(20) DEF InstPrompt, InstUser, StartCancelled, RecvPop, RecvNone, RecvEmpty, RecvPark, RecvCancelled,
        HandleCancelled, OnStop, StartOk, StartFail, HandleContinue, HandleExit, InstGoto, InstRest
    <3>. QED  BY <2>1, <3>1
  <2>5. ASSUME NEW c \in Callers, Shutdown(c) \/ ShutdownDone(c) \/ ShutdownTimedOut(c)
        PROVE  [J!Next]_(J!vars)
    BY <2>1, <2>5, ZenonT(20) DEF Shutdown, ShutdownDone, ShutdownTimedOut
  <2>6. ASSUME NEW c \in Callers, ShutdownClose(c) PROVE J!Next
    <3>1. UNCHANGED sup /\ J!Join(c, cpc[c] = "close_timed")  BY <2>6 DEF ShutdownClose
    <3>2. (cpc[c] = "close_timed") \in BOOLEAN  OBVIOUS
    <3>. QED  BY <3>1, <3>2, ZenonT(20) DEF J!Next
  <2>7. ASSUME NEW c \in Callers, ShutdownJoin(c) \/ ShutdownExpire(c) PROVE J!Next
    BY <2>7 DEF ShutdownJoin, ShutdownExpire, J!JoinStep, J!Next
  <2>. QED  BY <2>2, <2>3, <2>4, <2>5, <2>6, <2>7 DEF Next, CallerStep
<1>. QED  BY <1>1, <1>2, PTL DEF Spec, J!Spec

-----------------------------------------------------------------------------
Ids == Nat \X Nat
RealIds == Ids \ {None}
Leading == {d \in Docs : pc[d] \in {"lead", "starting", "insert", "publish", "remove"}}

ServersTyped ==
  /\ server \in Ids /\ slot \in Nat /\ generation \in Nat /\ nextSlot \in Nat
  /\ cells \in Seq(Ids) /\ inflight \in 0..Len(cells) /\ aborted \subseteq 1..Len(cells)
  /\ pc \in [Docs -> {"idle", "elect", "wait", "lead", "starting", "insert", "publish", "remove", "open"}]
  /\ mine \in [Docs -> Ids] /\ round \in [Docs -> 0..Len(cells)]
  /\ \A d \in Docs : pc[d] = "wait" => round[d] # 0
  /\ events \in Seq([server : RealIds, kind : {"exit", "progress"}])
  /\ alive \subseteq RealIds

(* The in-flight entry belongs to one leader until that leader removes it, *)
(* or to the clean-up of one dropped leader; nobody is elected meanwhile.  *)
Flight ==
  /\ \A d, e \in Leading : d = e
  /\ \A d \in Leading : inflight = round[d] /\ inflight # 0
  /\ \A k \in aborted : inflight = k
  /\ aborted # {} => Leading = {}
  /\ \A d \in Docs : pc[d] \in {"starting", "insert"} => server = None /\ mine[d] # None

(* Progress items are never kept for the absent server.                    *)
ServersInv == ServersTyped /\ Flight /\ NoOrphan /\ None \notin progress

LEMMA ServersStart == ServersInit => ServersInv
<1> SUFFICES ASSUME ServersInit PROVE ServersInv
  OBVIOUS
<1>1. /\ <<>> \in Seq(Ids) /\ Len(<<>>) = 0
      /\ <<>> \in Seq([server : RealIds, kind : {"exit", "progress"}])
  BY EmptySeq
<1>2. None \in Ids  BY DEF None, Ids
<1>3. ServersTyped  BY <1>1, <1>2 DEF ServersInit, ServersTyped
<1>. QED  BY <1>3 DEF ServersInit, ServersInv, Flight, Leading, NoOrphan

-----------------------------------------------------------------------------
(* A process that ends leaves one event behind, and only if it was alive.  *)
LEMMA ExitsFacts ==
  ASSUME ServersTyped, NEW s, Exits(s)
  PROVE  /\ alive' = alive \ {s} /\ alive' \subseteq RealIds
         /\ events' \in Seq([server : RealIds, kind : {"exit", "progress"}])
<1>1. CASE s \in alive
  <2>1. [server |-> s, kind |-> "exit"] \in [server : RealIds, kind : {"exit", "progress"}]
    BY <1>1 DEF ServersTyped
  <2>. QED  BY <1>1, <2>1, AppendProperties DEF Exits, ServersTyped
<1>2. CASE s \notin alive  BY <1>2 DEF Exits, ServersTyped
<1>. QED  BY <1>1, <1>2

LEMMA TypedKept ==
  ASSUME ServersInv, [ServersNext]_serversVars
  PROVE  ServersTyped'
<1> USE DEF ServersInv, Goto
<1>0. None \in Ids /\ Pending \in Ids  BY DEF None, Pending, Ids
<1>1. ASSUME NEW d \in Docs, AcquireRunning(d) \/ Acquire(d) \/ ElectWaiter(d) \/ LeadRunning(d)
      PROVE  ServersTyped'
  BY <1>1, ZenonT(30) DEF AcquireRunning, Acquire, ElectWaiter, LeadRunning, registry, transport, ServersTyped
<1>2. ASSUME NEW d \in Docs, ElectLeader(d) PROVE ServersTyped'
  <2>1. cells' = Append(cells, Pending)  BY <1>2 DEF ElectLeader
  <2>2. cells \in Seq(Ids) /\ Len(cells) \in Nat  BY LenProperties DEF ServersTyped
  <2>3. cells' \in Seq(Ids) /\ Len(cells') = Len(cells) + 1  BY <1>0, <2>1, <2>2, AppendProperties
  <2>. QED  BY <1>2, <2>2, <2>3 DEF ElectLeader, transport, ServersTyped
<1>3. ASSUME NEW d \in Docs, Waited(d) PROVE ServersTyped'
  <2>1. pc[d] = "wait" /\ round[d] \in 1..Len(cells)  BY <1>3 DEF Waited, ServersTyped
  <2>2. cells[round[d]] \in Ids  BY <2>1, ElementOfSeq DEF ServersTyped
  <2>. QED  BY <1>3, <2>1, <2>2, ZenonT(20) DEF Waited, registry, transport, ServersTyped
<1>4. ASSUME NEW d \in Docs, LeadNewId(d) PROVE ServersTyped'
  <2>1. slot' \in Nat /\ nextSlot' \in Nat /\ generation' \in Nat  BY <1>4 DEF LeadNewId, ServersTyped
  <2>2. <<slot', generation'>> \in Ids  BY <2>1 DEF Ids
  <2>. QED  BY <1>4, <2>1, <2>2 DEF LeadNewId, transport, ServersTyped
<1>5. ASSUME NEW d \in Docs, ServerStarts(d) PROVE ServersTyped'
  <2>1. mine[d] \in RealIds  BY <1>5 DEF ServerStarts, Flight, ServersTyped, RealIds
  <2>. QED  BY <1>5, <2>1 DEF ServerStarts, registry, ServersTyped
<1>6. ASSUME NEW d \in Docs, StartFails(d) \/ Open(d) \/ CompleteDropped(d) PROVE ServersTyped'
  BY <1>0, <1>6, ZenonT(20) DEF StartFails, Open, CompleteDropped, registry, transport, ServersTyped
<1>7. ASSUME NEW d \in Docs, Insert(d) PROVE ServersTyped'
  <2>1. server = None  BY <1>7 DEF Insert, Flight
  <2>2. server' = mine[d]  BY <1>7, <2>1 DEF Insert
  <2>3. mine[d] \in Ids  BY DEF ServersTyped
  <2>. QED  BY <1>7, <2>1, <2>2, <2>3 DEF Insert, transport, ServersTyped
<1>8. ASSUME NEW d \in Docs, Publish(d) PROVE ServersTyped'
  <2>1. cells' = [cells EXCEPT ![round[d]] = mine[d]]  BY <1>8 DEF Publish
  <2>2. cells \in Seq(Ids) /\ mine[d] \in Ids  BY DEF ServersTyped
  <2>3. round[d] \in 1..Len(cells)  BY <1>8 DEF Publish, Flight, Leading, ServersTyped
  <2>4. cells' \in Seq(Ids) /\ Len(cells') = Len(cells)  BY <2>1, <2>2, <2>3, ExceptSeq
  <2>. QED  BY <1>8, <2>4 DEF Publish, transport, ServersTyped
<1>9. ASSUME NEW d \in Docs, Remove(d) PROVE ServersTyped'
  <2>1. Len(cells) \in Nat  BY LenProperties DEF ServersTyped
  <2>. QED  BY <1>9, <2>1 DEF Remove, transport, ServersTyped
<1>10. ASSUME NEW d \in Docs, StartDropped(d) PROVE ServersTyped'
  <2>1. round[d] \in 1..Len(cells)  BY <1>10 DEF StartDropped, Flight, Leading, ServersTyped
  <2>. QED  BY <1>10, <2>1, ZenonT(20) DEF StartDropped, transport, ServersTyped
<1>11. ASSUME NEW k \in aborted, CleanUp(k) PROVE ServersTyped'
  <2>1. k \in 1..Len(cells) /\ cells \in Seq(Ids) /\ Len(cells) \in Nat  BY LenProperties DEF ServersTyped
  <2>2. cells' = [cells EXCEPT ![k] = None]  BY <1>11 DEF CleanUp
  <2>3. cells' \in Seq(Ids) /\ Len(cells') = Len(cells)  BY <1>0, <2>1, <2>2, ExceptSeq
  <2>. QED  BY <1>11, <2>1, <2>3 DEF CleanUp, transport, tasks, ServersTyped
<1>12. ASSUME NEW s \in alive, ServerExit(s) PROVE ServersTyped'
  BY <1>12, ExitsFacts, ZenonT(20) DEF ServerExit, registry, tasks, ServersTyped
<1>13. ASSUME NEW s \in alive, ServerProgress(s) PROVE ServersTyped'
  <2>1. [server |-> s, kind |-> "progress"] \in [server : RealIds, kind : {"exit", "progress"}]
    BY DEF ServersTyped
  <2>2. events' \in Seq([server : RealIds, kind : {"exit", "progress"}])
    BY <1>13, <2>1, AppendProperties DEF ServerProgress, ServersTyped
  <2>. QED  BY <1>13, <2>2 DEF ServerProgress, registry, tasks, ServersTyped
<1>14. CASE RouteStale \/ RouteProgress \/ RouteExit
  <2>1. events' \in Seq([server : RealIds, kind : {"exit", "progress"}])
    BY <1>14, HeadTailProperties, ZenonT(20) DEF RouteStale, RouteProgress, RouteExit, RouteNext, ServersTyped
  <2>. QED  BY <1>0, <1>14, <2>1, ZenonT(20) DEF RouteStale, RouteProgress, RouteExit, registry, tasks, ServersTyped
<1>15. CASE RouteStopped
  BY <1>15, ExitsFacts, ZenonT(20) DEF RouteStopped, registry, tasks, ServersTyped
<1>16. CASE ShutdownAll
  BY <1>0, <1>16, ExitsFacts, ZenonT(20) DEF ShutdownAll, tasks, ServersTyped
<1>17. CASE UNCHANGED serversVars
  BY <1>17 DEF serversVars, registry, transport, tasks, ServersTyped
<1>. QED
  BY <1>1, <1>2, <1>3, <1>4, <1>5, <1>6, <1>7, <1>8, <1>9, <1>10, <1>11, <1>12, <1>13, <1>14, <1>15, <1>16, <1>17
  DEF ServersNext, TaskStep, Router, AnyCleanUp

-----------------------------------------------------------------------------
(* Who leads changes in an election, a removal and a drop only.            *)
LEMMA FlightKept ==
  ASSUME ServersInv, [ServersNext]_serversVars
  PROVE  Flight'
<1> USE DEF ServersInv, Goto
<1>1. ASSUME NEW d \in Docs, AcquireRunning(d) \/ Acquire(d) \/ ElectWaiter(d) \/ Waited(d) \/ Open(d)
      PROVE  Flight'
  <2>1. d \notin Leading  BY <1>1 DEF AcquireRunning, Acquire, ElectWaiter, Waited, Open, Leading
  <2>2. /\ \A e \in Docs \ {d} : pc'[e] = pc[e] /\ round'[e] = round[e] /\ mine'[e] = mine[e]
        /\ pc'[d] \in {"open", "elect", "wait", "idle"}
        /\ UNCHANGED <<inflight, aborted, server>>
    BY <1>1, ZenonT(20) DEF AcquireRunning, Acquire, ElectWaiter, Waited, Open, registry, ServersTyped
  <2>3. Leading' = Leading  BY <2>1, <2>2, ZenonT(20) DEF Leading
  <2>4. \A e \in Leading : e \in Docs \ {d} /\ round'[e] = round[e]  BY <2>1, <2>2 DEF Leading
  <2>5. \A e \in Docs : pc'[e] \in {"starting", "insert"} => server' = None /\ mine'[e] # None
    BY <2>2 DEF Flight
  <2>6. \A e \in Leading : inflight' = round'[e] /\ inflight' # 0  BY <2>2, <2>4 DEF Flight
  <2>. QED  BY <2>2, <2>3, <2>5, <2>6, ZenonT(20) DEF Flight
<1>2. ASSUME NEW d \in Docs, ElectLeader(d) PROVE Flight'
  <2>1. Leading = {} /\ aborted = {}  BY <1>2 DEF ElectLeader, Flight, ServersTyped
  <2>2. cells \in Seq(Ids) /\ Pending \in Ids /\ Len(cells) \in Nat
    BY LenProperties DEF ServersTyped, Pending, Ids
  <2>3. Len(cells') = Len(cells) + 1  BY <1>2, <2>2, AppendProperties DEF ElectLeader
  <2>4. /\ pc' = [pc EXCEPT ![d] = "lead"] /\ round'[d] = inflight' /\ inflight' = Len(cells')
        /\ aborted' = aborted /\ server' = server
    BY <1>2 DEF ElectLeader, ServersTyped
  <2>5. Leading' = {d}  BY <2>1, <2>4 DEF Leading, ServersTyped
  <2>6. \A e \in Docs : pc'[e] \notin {"starting", "insert"}  BY <2>1, <2>4 DEF Leading, ServersTyped
  <2>7. inflight' # 0  BY <2>2, <2>3, <2>4
  <2>8. aborted' = {}  BY <2>1, <2>4
  <2>. QED  BY <2>4, <2>5, <2>6, <2>7, <2>8 DEF Flight
<1>3. ASSUME NEW d \in Docs,
             LeadRunning(d) \/ LeadNewId(d) \/ ServerStarts(d) \/ StartFails(d) \/ Insert(d) \/ Publish(d)
      PROVE  Flight'
  <2>1. d \in Leading
    BY <1>3, ZenonT(20) DEF LeadRunning, LeadNewId, ServerStarts, StartFails, Insert, Publish, Leading
  <2>2. \A e \in Docs \ {d} : e \notin Leading  BY <2>1, ZenonT(20) DEF Flight
  <2>3. /\ \A e \in Docs \ {d} : pc'[e] = pc[e]
        /\ pc'[d] \in {"publish", "starting", "insert", "remove"}
        /\ UNCHANGED <<inflight, aborted, round>>
    BY <1>3, ZenonT(20) DEF LeadRunning, LeadNewId, ServerStarts, StartFails, Insert, Publish, registry, ServersTyped
  <2>4. Leading' = Leading  BY <2>1, <2>3, ZenonT(20) DEF Leading
  <2>5. \A e \in Docs \ {d} : pc'[e] \notin {"starting", "insert"}  BY <2>2, <2>3 DEF Leading
  <2>6. pc'[d] \in {"starting", "insert"} => server' = None /\ mine'[d] # None
    <3>1. CASE LeadNewId(d)
      <4>1. mine'[d] = <<slot', generation'>> /\ generation' = generation + 1 /\ server' = None
        BY <3>1 DEF LeadNewId, ServersTyped
      <4>. QED  BY <4>1 DEF None, ServersTyped
    <3>2. CASE ServerStarts(d)
      BY <3>2, ZenonT(20) DEF ServerStarts, Flight, registry
    <3>3. CASE ~LeadNewId(d) /\ ~ServerStarts(d)
      BY <1>3, <3>3 DEF LeadRunning, StartFails, Insert, Publish, ServersTyped
    <3>. QED  BY <3>1, <3>2, <3>3
  <2>. QED  BY <2>1, <2>2, <2>3, <2>4, <2>5, <2>6 DEF Flight
<1>4. ASSUME NEW d \in Docs, Remove(d) \/ CompleteDropped(d) \/ StartDropped(d) PROVE Flight'
  <2>1. d \in Leading  BY <1>4 DEF Remove, CompleteDropped, StartDropped, Leading
  <2>2. \A e \in Docs \ {d} : e \notin Leading  BY <2>1 DEF Flight
  <2>3. aborted = {} /\ inflight = round[d]  BY <2>1 DEF Flight
  <2>4. /\ \A e \in Docs \ {d} : pc'[e] = pc[e]
        /\ pc'[d] \in {"idle", "open"}
        /\ aborted' \subseteq {round[d]} /\ (aborted' # {} => inflight' = inflight)
    BY <1>4, <2>3 DEF Remove, CompleteDropped, StartDropped, registry, ServersTyped
  <2>5. Leading' = {}  BY <2>2, <2>4 DEF Leading
  <2>6. \A e \in Docs : pc'[e] \notin {"starting", "insert"}  BY <2>5 DEF Leading
  <2>. QED  BY <2>3, <2>4, <2>5, <2>6, ZenonT(20) DEF Flight
<1>5. ASSUME NEW k \in aborted, CleanUp(k) PROVE Flight'
  <2>1. Leading = {} /\ aborted = {k}  BY DEF Flight
  <2>2. pc' = pc /\ aborted' = {}  BY <1>5, <2>1 DEF CleanUp, tasks
  <2>3. Leading' = {}  BY <2>1, <2>2 DEF Leading
  <2>. QED  BY <2>2, <2>3 DEF Flight, Leading
<1>6. CASE Router \/ ShutdownAll \/ (\E s \in alive : ServerExit(s) \/ ServerProgress(s)) \/ UNCHANGED serversVars
  <2>1. UNCHANGED <<pc, round, mine, inflight, aborted>> /\ (server' = server \/ server' = None)
    BY <1>6, ZenonT(20) DEF Router, RouteStale, RouteProgress, RouteExit, RouteStopped, ShutdownAll, ServerExit,
      ServerProgress, serversVars, registry, tasks
  <2>2. Leading' = Leading  BY <2>1 DEF Leading
  <2>. QED  BY <2>1, <2>2 DEF Flight
<1>. QED
  BY <1>1, <1>2, <1>3, <1>4, <1>5, <1>6 DEF ServersNext, TaskStep, AnyCleanUp

-----------------------------------------------------------------------------
(* A server changes hands from its leader to the registry and from there   *)
(* to the router; the rest only takes processes or progress items away.    *)
LEMMA OrphanKept ==
  ASSUME ServersInv, [ServersNext]_serversVars
  PROVE  NoOrphan' /\ None \notin progress'
<1> USE DEF ServersInv, Goto
<1>1. ASSUME NEW d \in Docs,
             \/ AcquireRunning(d) \/ Acquire(d) \/ ElectLeader(d) \/ ElectWaiter(d) \/ Waited(d)
             \/ LeadRunning(d) \/ LeadNewId(d) \/ StartFails(d) \/ Publish(d) \/ Remove(d) \/ Open(d)
             \/ StartDropped(d) \/ CompleteDropped(d)
      PROVE  NoOrphan' /\ None \notin progress'
  <2>1. UNCHANGED <<server, router, alive, progress, down>>
    BY <1>1, ZenonT(20) DEF AcquireRunning, Acquire, ElectLeader, ElectWaiter, Waited, LeadRunning, LeadNewId, StartFails,
      Publish, Remove, Open, StartDropped, CompleteDropped, registry, transport, routing
  <2>2. pc[d] # "insert" /\ \A e \in Docs \ {d} : pc'[e] = pc[e] /\ mine'[e] = mine[e]
    BY <1>1, ZenonT(20) DEF AcquireRunning, Acquire, ElectLeader, ElectWaiter, Waited, LeadRunning, LeadNewId, StartFails,
      Publish, Remove, Open, StartDropped, CompleteDropped, ServersTyped
  <2>. QED  BY <2>1, <2>2, ZenonT(20) DEF NoOrphan
<1>2. ASSUME NEW d \in Docs, ServerStarts(d) PROVE NoOrphan' /\ None \notin progress'
  <2>1. /\ UNCHANGED <<server, router, progress, down, mine>> /\ alive' = alive \cup {mine[d]}
        /\ pc' = [pc EXCEPT ![d] = "insert"]
    BY <1>2, ZenonT(20) DEF ServerStarts, registry, routing
  <2>. QED  BY <2>1 DEF NoOrphan, ServersTyped
<1>3. ASSUME NEW d \in Docs, Insert(d) PROVE NoOrphan' /\ None \notin progress'
  <2>1. server = None  BY <1>3 DEF Insert, Flight
  <2>2. /\ server' = mine[d] /\ UNCHANGED <<router, alive, progress, down>> /\ pc' = [pc EXCEPT ![d] = "publish"]
        /\ \A e \in Docs \ {d} : mine'[e] = mine[e]
    BY <1>3, <2>1 DEF Insert, transport, routing, ServersTyped
  <2>3. None \notin alive  BY DEF ServersTyped, RealIds
  <2>. QED  BY <2>1, <2>2, <2>3, ZenonT(20) DEF NoOrphan, ServersTyped
<1>4. CASE AnyCleanUp \/ UNCHANGED serversVars
  BY <1>4, ZenonT(20) DEF AnyCleanUp, CleanUp, serversVars, registry, transport, routing, tasks, NoOrphan
<1>5. ASSUME NEW s \in alive, ServerExit(s) \/ ServerProgress(s) PROVE NoOrphan' /\ None \notin progress'
  BY <1>5, ZenonT(20) DEF ServerExit, ServerProgress, Exits, registry, routing, tasks, NoOrphan
<1>6. CASE RouteStale
  BY <1>6, ZenonT(20) DEF RouteStale, registry, routing, tasks, NoOrphan
<1>7. CASE RouteProgress
  <2>1. Head(events) \in [server : RealIds, kind : {"exit", "progress"}]
    BY <1>7, HeadTailProperties, ZenonT(20) DEF RouteProgress, RouteNext, ServersTyped
  <2>2. server # None  BY <1>7, <2>1 DEF RouteProgress, RealIds
  <2>. QED  BY <1>7, <2>2 DEF RouteProgress, registry, tasks, NoOrphan
<1>8. CASE RouteExit
  BY <1>8 DEF RouteExit, RouteNext, tasks, NoOrphan
<1>9. CASE RouteStopped
  BY <1>9 DEF RouteStopped, Exits, registry, tasks, NoOrphan
<1>10. CASE ShutdownAll
  BY <1>10, ZenonT(20) DEF ShutdownAll, routing, NoOrphan
<1>. QED
  BY <1>1, <1>2, <1>3, <1>4, <1>5, <1>6, <1>7, <1>8, <1>9, <1>10 DEF ServersNext, TaskStep, Router

LEMMA ServersStep == ServersInv /\ [ServersNext]_serversVars => ServersInv'
  BY TypedKept, FlightKept, OrphanKept DEF ServersInv

(* Registry::acquire starts one server at a time for its key, and finds no *)
(* other one when it inserts the new one.                                  *)
THEOREM StartsOneServer == ServersSpec => []SingleFlight
<1>1. ServersInv => SingleFlight
  BY ZenonT(20) DEF ServersInv, Flight, Leading, SingleFlight, Starting
<1>. QED  BY ServersStart, ServersStep, <1>1, PTL DEF ServersSpec

(* Until shutdown_all, every running process is registered, about to be    *)
(* registered or being stopped, and no other server has progress items.    *)
THEOREM LeavesNoOrphan == ServersSpec => []NoOrphan
<1>1. ServersInv => NoOrphan
  BY DEF ServersInv
<1>. QED  BY ServersStart, ServersStep, <1>1, PTL DEF ServersSpec
-----------------------------------------------------------------------------
(***************************************************************************)
(* The transport below the registry: the order of writes and the fate of   *)
(* requests, for any set of requests and notifications of one process.     *)
(***************************************************************************)

(* What the queue and the write in progress hold, member by member.        *)
Holds(s, x) == \E k \in DOMAIN s : s[k] = x

LEMMA HoldsConcat ==
  ASSUME NEW S, NEW s \in Seq(S), NEW t \in Seq(S), NEW x
  PROVE  Holds(s \o t, x) <=> Holds(s, x) \/ Holds(t, x)
<1>1. /\ Len(s) \in Nat /\ Len(t) \in Nat /\ DOMAIN s = 1..Len(s) /\ DOMAIN t = 1..Len(t)
      /\ DOMAIN (s \o t) = 1..Len(s) + Len(t)
  BY LenProperties, ConcatProperties
<1>2. \A i \in 1..Len(s) + Len(t) : (s \o t)[i] = IF i <= Len(s) THEN s[i] ELSE t[i - Len(s)]
  BY ConcatProperties
<1>3. ASSUME NEW k \in 1..Len(t), t[k] = x PROVE Holds(s \o t, x)
  <2>1. (s \o t)[Len(s) + k] = t[k]  BY <1>1, <1>2
  <2>. QED  BY <1>1, <1>3, <2>1 DEF Holds
<1>4. ASSUME Holds(s \o t, x) PROVE Holds(s, x) \/ Holds(t, x)
  <2>1. PICK k \in 1..Len(s) + Len(t) : (s \o t)[k] = x  BY <1>1, <1>4 DEF Holds
  <2>2. CASE k <= Len(s)  BY <1>1, <1>2, <2>1, <2>2 DEF Holds
  <2>3. CASE ~(k <= Len(s))
    <3>1. k - Len(s) \in 1..Len(t) /\ t[k - Len(s)] = x  BY <1>1, <1>2, <2>1, <2>3
    <3>. QED  BY <1>1, <3>1 DEF Holds
  <2>. QED  BY <2>2, <2>3
<1>5. ASSUME NEW k \in 1..Len(s), s[k] = x PROVE Holds(s \o t, x)
  BY <1>1, <1>2, <1>5 DEF Holds
<1>. QED  BY <1>1, <1>3, <1>4, <1>5 DEF Holds

LEMMA HoldsOne ==
  ASSUME NEW y, NEW x
  PROVE  Holds(<<y>>, x) <=> x = y
BY DEF Holds

LEMMA HoldsNone == ASSUME NEW x PROVE ~Holds(<<>>, x)
BY DEF Holds

(* A queue is its head and the rest.                                       *)
LEMMA HeadThenTail ==
  ASSUME NEW S, NEW s \in Seq(S), s # <<>>
  PROVE  Tail(s) \in Seq(S) /\ Head(s) \in S /\ <<Head(s)>> \o Tail(s) = s
BY HeadTailProperties

(* NoAbandonedRequest, in terms of what is held.                           *)
LEMMA AbandonedFacts ==
  NoAbandonedRequest <=>
    \A r \in Requests : call[r] = "waiting" => r \in pending \/ Holds(writing \o outbound, r)
BY DEF NoAbandonedRequest, Holds

-----------------------------------------------------------------------------
(* The I/O task carries exactly one item when it writes and none           *)
(* otherwise; without that neither property is inductive.                  *)
TransportTyped ==
  /\ outbound \in Seq(Items) /\ inbox \in Seq(Items) /\ order \in Seq(Items)
  /\ io \in {"select", "write", "ended"}
  /\ pending \subseteq Requests
  /\ call \in [Requests -> {"idle", "waiting", "answered", "RequestTimeout", "ServiceStopped"}]
  /\ IF io = "write" THEN \E i \in Items : writing = <<i>> ELSE writing = <<>>

TransportInv == TransportTyped /\ TotalOrder /\ NoAbandonedRequest

LEMMA TransportStarts == TransportInit => TransportInv
BY DEF TransportInit, TransportInv, TransportTyped, TotalOrder, NoAbandonedRequest

LEMMA WritingIsSeq == TransportTyped => writing \in Seq(Items)
<1>1. \A i \in Items : <<i>> \in Seq(Items)  OBVIOUS
<1>2. <<>> \in Seq(Items)  OBVIOUS
<1>. QED  BY <1>1, <1>2, ZenonT(20) DEF TransportTyped

(* Queueing adds to both ends of the equation.                             *)
LEMMA EnqueueKeeps ==
  ASSUME TransportInv, NEW i \in Items, Enqueue(i)
  PROVE  TotalOrder' /\ \A x : Holds(writing \o outbound, x) \/ x = i => Holds(writing \o outbound, x)'
<1> USE DEF TransportInv
<1>1. writing \in Seq(Items) /\ outbound \in Seq(Items) /\ inbox \in Seq(Items) /\ order \in Seq(Items)
  BY WritingIsSeq DEF TransportTyped
<1>2. outbound' = outbound \o <<i>> /\ order' = order \o <<i>>
  BY <1>1, AppendIsConcat DEF Enqueue
<1>3. UNCHANGED <<writing, inbox, io>> /\ io # "ended"
  BY DEF Enqueue, ioTask, serverProcess
<1>4. <<i>> \in Seq(Items)  OBVIOUS
<1>5. TotalOrder'
  <2>1. inbox \o writing \in Seq(Items)  BY <1>1, ConcatProperties
  <2>2. (inbox \o writing) \o (outbound \o <<i>>) = ((inbox \o writing) \o outbound) \o <<i>>
    BY <1>1, <1>4, <2>1, ConcatAssociative
  <2>. QED  BY <1>2, <1>3, <2>2, ZenonT(20) DEF TotalOrder
<1>6. ASSUME NEW x, Holds(writing \o outbound, x) \/ x = i PROVE Holds(writing' \o outbound', x)
  <2>1. outbound \o <<i>> \in Seq(Items)  BY <1>1, <1>4, ConcatProperties
  <2>2. Holds(writing \o (outbound \o <<i>>), x) <=> Holds(writing, x) \/ Holds(outbound \o <<i>>, x)
    BY <1>1, <2>1, HoldsConcat, ZenonT(20)
  <2>3. Holds(outbound \o <<i>>, x) <=> Holds(outbound, x) \/ x = i
    <3>1. Holds(outbound \o <<i>>, x) <=> Holds(outbound, x) \/ Holds(<<i>>, x)  BY <1>1, <1>4, HoldsConcat, ZenonT(20)
    <3>. QED  BY <3>1, HoldsOne
  <2>4. Holds(writing \o outbound, x) <=> Holds(writing, x) \/ Holds(outbound, x)
    BY <1>1, HoldsConcat
  <2>5. writing' \o outbound' = writing \o (outbound \o <<i>>)  BY <1>2, <1>3
  <2>. QED  BY <1>6, <2>2, <2>3, <2>4, <2>5
<1>. QED  BY <1>5, <1>6 DEF Holds

(* Taking the head of the queue and finishing its write move an item from  *)
(* one term of the equation to the one before it.                          *)
LEMMA TakeKeeps ==
  ASSUME TransportInv, IoTake
  PROVE  TransportInv'
<1> USE DEF TransportInv
<1>1. outbound \in Seq(Items) /\ inbox \in Seq(Items) /\ writing = <<>> /\ outbound # <<>>
  BY DEF TransportTyped, IoTake
<1>2. /\ Tail(outbound) \in Seq(Items) /\ Head(outbound) \in Items
      /\ <<Head(outbound)>> \o Tail(outbound) = outbound
  BY <1>1, HeadThenTail
<1>3. <<Head(outbound)>> \in Seq(Items)  BY <1>2
<1>4. /\ writing' = <<Head(outbound)>> /\ outbound' = Tail(outbound) /\ io = "select" /\ io' = "write"
      /\ UNCHANGED <<pending, call, order, inbox>>
  BY DEF IoTake, serverProcess
<1>5. TransportTyped'  BY <1>2, <1>4 DEF TransportTyped
<1>6. TotalOrder'
  <2>1. inbox \o <<>> = inbox  BY <1>1, ConcatEmptySeq
  <2>2. (inbox \o <<Head(outbound)>>) \o Tail(outbound) = inbox \o outbound
    BY <1>1, <1>2, <1>3, ConcatAssociative
  <2>. QED  BY <1>1, <1>4, <2>1, <2>2, ZenonT(20) DEF TotalOrder
<1>7. writing \o outbound = writing' \o outbound'
  BY <1>1, <1>2, <1>4, ConcatEmptySeq
<1>8. NoAbandonedRequest'  BY <1>4, <1>7, ZenonT(20) DEF NoAbandonedRequest
<1>. QED  BY <1>5, <1>6, <1>8

LEMMA WrittenKeeps ==
  ASSUME TransportInv, IoWritten
  PROVE  TransportInv'
<1> USE DEF TransportInv
<1>1. PICK i \in Items : writing = <<i>>  BY DEF TransportTyped, IoWritten
<1>2. /\ writing' = <<>> /\ inbox' = inbox \o <<i>> /\ pending' = pending \cup ({i} \cap Requests)
      /\ io = "write" /\ io' = "select" /\ UNCHANGED <<outbound, order, call>>
  BY <1>1 DEF IoWritten
<1>3. outbound \in Seq(Items) /\ inbox \in Seq(Items) /\ <<i>> \in Seq(Items)  BY DEF TransportTyped
<1>4. inbox' \in Seq(Items)  BY <1>2, <1>3, ConcatProperties
<1>5. TransportTyped'  BY <1>2, <1>4 DEF TransportTyped
<1>6. TotalOrder'  BY <1>1, <1>2, <1>4, ConcatEmptySeq DEF TotalOrder
<1>7. ASSUME NEW r \in Requests, call'[r] = "waiting"
      PROVE  r \in pending' \/ Holds(writing' \o outbound', r)
  <2>1. r \in pending \/ Holds(writing \o outbound, r)  BY <1>2, <1>7, AbandonedFacts
  <2>2. Holds(writing \o outbound, r) <=> Holds(writing, r) \/ Holds(outbound, r)
    BY <1>1, <1>3, HoldsConcat, ZenonT(20)
  <2>3. Holds(writing, r) <=> r = i  BY <1>1, HoldsOne
  <2>4. writing' \o outbound' = outbound  BY <1>2, <1>3, ConcatEmptySeq
  <2>. QED  BY <1>2, <2>1, <2>2, <2>3, <2>4
<1>8. NoAbandonedRequest'  BY <1>7 DEF NoAbandonedRequest, Holds
<1>. QED  BY <1>5, <1>6, <1>8

(* The loop ends only after it has answered every caller it knows of.      *)
LEMMA EndKeeps ==
  ASSUME TransportInv, NEW s, IoEnd(s)
  PROVE  TransportInv'
BY DEF TransportInv, IoEnd, TransportTyped, TotalOrder, NoAbandonedRequest, serverProcess

LEMMA TransportStep == TransportInv /\ [TransportNext]_transportVars => TransportInv'
<1> SUFFICES ASSUME TransportInv, [TransportNext]_transportVars PROVE TransportInv'
  OBVIOUS
<1>1. ASSUME NEW r \in Requests, Request(r) PROVE TransportInv'
  <2>1. r \in Items /\ Enqueue(r)  BY <1>1 DEF Request, Items
  <2>2. TotalOrder'  BY <2>1, EnqueueKeeps
  <2>3. \A x : Holds(writing \o outbound, x) \/ x = r => Holds(writing' \o outbound', x)
    BY <2>1, EnqueueKeeps DEF Holds
  <2>4. TransportTyped'  BY <1>1, <2>1, AppendProperties DEF TransportInv, TransportTyped, Request, Enqueue, ioTask, serverProcess
  <2>5. \A q \in Requests : call'[q] = "waiting" => call[q] = "waiting" \/ q = r
    BY <1>1 DEF Request, TransportInv, TransportTyped
  <2>6. pending' = pending  BY <2>1 DEF Enqueue, ioTask
  <2>7. \A q \in Requests : call[q] = "waiting" => q \in pending \/ Holds(writing \o outbound, q)
    BY AbandonedFacts DEF TransportInv
  <2>8. NoAbandonedRequest'  BY <2>3, <2>5, <2>6, <2>7, ZenonT(20) DEF NoAbandonedRequest, Holds
  <2>. QED  BY <2>2, <2>4, <2>8 DEF TransportInv
<1>2. ASSUME NEW n \in Notifications, Notify(n) PROVE TransportInv'
  <2>1. n \in Items /\ Enqueue(n) /\ call' = call  BY <1>2 DEF Notify, Items
  <2>2. TotalOrder'  BY <2>1, EnqueueKeeps
  <2>3. \A x : Holds(writing \o outbound, x) => Holds(writing' \o outbound', x)
    BY <2>1, EnqueueKeeps, ZenonT(20) DEF Holds
  <2>4. TransportTyped'  BY <2>1, AppendProperties DEF TransportInv, TransportTyped, Enqueue, ioTask, serverProcess
  <2>6. pending' = pending  BY <2>1 DEF Enqueue, ioTask
  <2>7. \A q \in Requests : call[q] = "waiting" => q \in pending \/ Holds(writing \o outbound, q)
    BY AbandonedFacts DEF TransportInv
  <2>8. NoAbandonedRequest'  BY <2>1, <2>3, <2>6, <2>7 DEF NoAbandonedRequest, Holds
  <2>. QED  BY <2>2, <2>4, <2>8 DEF TransportInv
<1>11. ASSUME UNCHANGED <<outbound, io, writing, pending, order, inbox>>,
             call' \in [Requests -> {"idle", "waiting", "answered", "RequestTimeout", "ServiceStopped"}],
             \A r \in Requests : call'[r] = "waiting" => call[r] = "waiting"
       PROVE  TransportInv'
  <2>1. TransportTyped'  BY <1>11 DEF TransportInv, TransportTyped
  <2>2. TotalOrder'  BY <1>11 DEF TransportInv, TotalOrder
  <2>3. NoAbandonedRequest'  BY <1>11 DEF TransportInv, NoAbandonedRequest
  <2>. QED  BY <2>1, <2>2, <2>3 DEF TransportInv
<1>3. ASSUME NEW r \in Requests, RequestTimeout(r) PROVE TransportInv'
  <2>1. UNCHANGED <<outbound, io, writing, pending, order, inbox>> /\ call' = [call EXCEPT ![r] = "RequestTimeout"]
    BY <1>3 DEF RequestTimeout, ioTask, serverProcess
  <2>2. call \in [Requests -> {"idle", "waiting", "answered", "RequestTimeout", "ServiceStopped"}]
    BY DEF TransportInv, TransportTyped
  <2>. QED  BY <1>11, <2>1, <2>2
<1>6. CASE ServerExits
  <2>1. UNCHANGED <<outbound, io, writing, pending, order, inbox, call>>  BY <1>6 DEF ServerExits, ioTask
  <2>2. call \in [Requests -> {"idle", "waiting", "answered", "RequestTimeout", "ServiceStopped"}]
    BY DEF TransportInv, TransportTyped
  <2>. QED  BY <1>11, <2>1, <2>2
<1>7. CASE IoReadHeader
  <2>1. UNCHANGED <<outbound, io, writing, pending, order, inbox, call>>  BY <1>7 DEF IoReadHeader
  <2>2. call \in [Requests -> {"idle", "waiting", "answered", "RequestTimeout", "ServiceStopped"}]
    BY DEF TransportInv, TransportTyped
  <2>. QED  BY <1>11, <2>1, <2>2
<1> USE DEF TransportInv, TransportTyped, TotalOrder, NoAbandonedRequest
<1>4. CASE Refused
  BY <1>4 DEF Refused, ioTask, serverProcess
<1>5. ASSUME NEW r \in Requests, ServerBegins(r) \/ ServerEnds(r) PROVE TransportInv'
  <2>1. UNCHANGED <<outbound, ioTask, call, order, inbox>>  BY <1>5, ZenonT(20) DEF ServerBegins, ServerEnds
  <2>. QED  BY <2>1 DEF ioTask
<1>8. CASE IoReadBody
  BY <1>8, ZenonT(20) DEF IoReadBody
<1>9. CASE IoReadBad \/ IoWriteFails \/ IoEof
  BY <1>9, EndKeeps, ZenonT(20) DEF IoReadBad, IoWriteFails, IoEof
<1>10. CASE UNCHANGED transportVars
  BY <1>10 DEF transportVars
<1>12. CASE IoTake  BY <1>12, TakeKeeps
<1>13. CASE IoWritten  BY <1>13, WrittenKeeps
<1>. QED
  BY <1>1, <1>2, <1>3, <1>4, <1>5, <1>6, <1>7, <1>8, <1>9, <1>10, <1>12, <1>13, ZenonT(20) DEF TransportNext, IoStep

(* However many requests and notifications there are, what the server got, *)
(* what is being written and what waits in the queue is what was sent, in  *)
(* that order, until run_server_io ends.                                   *)
THEOREM WritesInOrder == TransportSpec => []TotalOrder
<1>1. TransportInv => TotalOrder  BY DEF TransportInv
<1>. QED  BY <1>1, TransportStarts, TransportStep, PTL DEF TransportSpec

(* No caller of LocalTransport::request waits on a channel whose other end *)
(* is gone, whatever is written, answered, timed out or ended.             *)
THEOREM RequestsAreHeld == TransportSpec => []NoAbandonedRequest
<1>1. TransportInv => NoAbandonedRequest  BY DEF TransportInv
<1>. QED  BY <1>1, TransportStarts, TransportStep, PTL DEF TransportSpec

-----------------------------------------------------------------------------
(* The command ingress.                                                    *)
CONSTANTS Staging, MaxSends
VARIABLES offered, accepted, drops, staged, fwd, held, stop, up, handled, ipc

I == INSTANCE Ingress WITH alive <- up

(* The forwarding task carries one command exactly while it sends.         *)
Carried ==
  /\ {staged, mail, handled, accepted} \subseteq Seq(Nat) /\ offered \in Nat
  /\ fwd \in {"recv", "send", "done"}
  /\ IF fwd = "send" THEN \E x \in Nat : held = <<x>> ELSE held = <<>>

(* What a caller of shutdown has passed: it goes on to the actor only once *)
(* the join controller told it that the forwarder ended, and the           *)
(* controller says so only when that is true.                              *)
Joined ==
  /\ ipc \in [Callers -> {"idle", "join", "down", "returned"}]
  /\ DOMAIN jpc = Callers
  /\ joinState = "Done" => fwd = "done"
  /\ \A c \in Callers : jpc[c] \in {"announce_true", "true"} => fwd = "done"
  /\ \A c \in Callers : ipc[c] \in {"down", "returned"} => fwd = "done"

StagedInOrder == fwd # "done" => handled \o mail \o held \o staged = accepted

IngressInv == Carried /\ Joined /\ StagedInOrder

LEMMA IngressInit == I!Init => IngressInv
<1> SUFFICES ASSUME I!Init PROVE IngressInv
  OBVIOUS
<1>1. <<>> \in Seq(Nat) /\ <<>> \o <<>> = <<>>  BY EmptySeq, ConcatEmptySeq
<1>2. Carried  BY <1>1 DEF I!Init, Carried
<1>3. Joined  BY DEF I!Init, Joined, I!J!JoinInit
<1>4. StagedInOrder  BY <1>1 DEF I!Init, StagedInOrder
<1>. QED  BY <1>2, <1>3, <1>4 DEF IngressInv

-----------------------------------------------------------------------------
(* Three ways in which a command moves one place on.                        *)
LEMMA AcceptMoves ==
  ASSUME NEW S, NEW f \in Seq(S), NEW s \in Seq(S), NEW x \in S
  PROVE  Append(s, x) \in Seq(S) /\ f \o Append(s, x) = Append(f \o s, x)
<1>1. <<x>> \in Seq(S) /\ f \o s \in Seq(S)  BY ConcatProperties
<1>2. Append(s, x) = s \o <<x>> /\ Append(s, x) \in Seq(S)  BY AppendIsConcat, AppendProperties
<1>3. Append(f \o s, x) = (f \o s) \o <<x>>  BY <1>1, AppendIsConcat
<1>4. (f \o s) \o <<x>> = f \o (s \o <<x>>)  BY <1>1, ConcatAssociative
<1>. QED  BY <1>2, <1>3, <1>4

LEMMA FetchMoves ==
  ASSUME NEW S, NEW f \in Seq(S), NEW s \in Seq(S), s # <<>>
  PROVE  /\ Tail(s) \in Seq(S) /\ Head(s) \in S
         /\ f \o <<Head(s)>> \o Tail(s) = f \o <<>> \o s
<1>1. Tail(s) \in Seq(S) /\ Head(s) \in S /\ <<Head(s)>> \o Tail(s) = s  BY HeadTailProperties
<1>2. <<Head(s)>> \in Seq(S)  BY <1>1
<1>3. (f \o <<Head(s)>>) \o Tail(s) = f \o (<<Head(s)>> \o Tail(s))  BY <1>1, <1>2, ConcatAssociative
<1>4. f \o <<>> = f  BY ConcatEmptySeq
<1>. QED  BY <1>1, <1>3, <1>4

LEMMA TakeMoves ==
  ASSUME NEW S, NEW h \in Seq(S), NEW m \in Seq(S), m # <<>>
  PROVE  /\ Tail(m) \in Seq(S) /\ Append(h, Head(m)) \in Seq(S)
         /\ Append(h, Head(m)) \o Tail(m) = h \o m
<1>1. Tail(m) \in Seq(S) /\ Head(m) \in S /\ <<Head(m)>> \o Tail(m) = m  BY HeadTailProperties
<1>2. Append(h, Head(m)) = h \o <<Head(m)>> /\ Append(h, Head(m)) \in Seq(S)
  BY <1>1, AppendIsConcat, AppendProperties
<1>3. <<Head(m)>> \in Seq(S)  BY <1>1
<1>4. (h \o <<Head(m)>>) \o Tail(m) = h \o (<<Head(m)>> \o Tail(m))  BY <1>1, <1>3, ConcatAssociative
<1>. QED  BY <1>1, <1>2, <1>4

-----------------------------------------------------------------------------
LEMMA JoinedKept ==
  ASSUME IngressInv, [I!Next]_(I!vars)
  PROVE  Joined'
<1> USE DEF IngressInv, Joined, Carried
<1>1. CASE I!PortSend \/ I!PortFull \/ I!PortClosed
  BY <1>1 DEF I!PortSend, I!PortFull, I!PortClosed, I!join
<1>2. CASE I!ForwardFetch \/ I!ForwardPush
  BY <1>2, ZenonT(20) DEF I!ForwardFetch, I!ForwardPush, I!join
<1>3. CASE I!ForwardEnd
  BY <1>3 DEF I!ForwardEnd, I!join
<1>4. CASE I!ActorTake \/ I!ActorDie \/ I!ActorCancel
  BY <1>4 DEF I!ActorTake, I!ActorDie, I!ActorCancel, I!join
<1>5. ASSUME NEW c \in Callers, I!StopForwarding(c) PROVE Joined'
  BY <1>5 DEF I!StopForwarding, I!J!Join, I!J!JoinGoto
<1>6. ASSUME NEW c \in Callers, I!StopJoin(c) PROVE Joined'
  <2>1. UNCHANGED <<fwd, ipc>>  BY <1>6 DEF I!StopJoin
  <2>2. CASE I!J!FindDone(c) \/ I!J!Follow(c) \/ I!J!Lead(c) \/ I!J!FollowWake(c)
    BY <2>1, <2>2 DEF I!J!FindDone, I!J!Follow, I!J!Lead, I!J!FollowWake, I!J!JoinGoto
  <2>3. CASE I!J!LeadDone(c)
    BY <2>1, <2>3 DEF I!J!LeadDone, I!J!JoinGoto
  <2>4. CASE I!J!Announce(c)
    BY <2>1, <2>4, ZenonT(20) DEF I!J!Announce, I!J!JoinGoto
  <2>. QED  BY <1>6, <2>2, <2>3, <2>4, ZenonT(20) DEF I!StopJoin, I!J!JoinProgress
<1>7. ASSUME NEW c \in Callers, I!ShutdownActor(c) \/ I!ShutdownReturn(c) PROVE Joined'
  <2>1. UNCHANGED <<fwd, joinState, jpc>>  BY <1>7 DEF I!ShutdownActor, I!ShutdownReturn, I!join
  <2>2. fwd = "done"  BY <1>7 DEF I!ShutdownActor, I!ShutdownReturn
  <2>3. ipc' \in [Callers -> {"idle", "join", "down", "returned"}]
    BY <1>7, ZenonT(20) DEF I!ShutdownActor, I!ShutdownReturn
  <2>. QED  BY <2>1, <2>2, <2>3
<1>8. CASE UNCHANGED I!vars
  BY <1>8 DEF I!vars, I!join
<1>. QED
  BY <1>1, <1>2, <1>3, <1>4, <1>5, <1>6, <1>7, <1>8, ZenonT(20)
  DEF I!Next, I!Forwarder, I!ForwardStop, I!ForwardRefused, I!CallerStep

LEMMA IngressOrderKept ==
  ASSUME IngressInv, [I!Next]_(I!vars)
  PROVE  Carried' /\ StagedInOrder'
<1> USE DEF IngressInv
<1>0. /\ handled \in Seq(Nat) /\ mail \in Seq(Nat) /\ staged \in Seq(Nat) /\ accepted \in Seq(Nat)
      /\ held \in Seq(Nat) /\ handled \o mail \in Seq(Nat) /\ offered \in Nat
  <2>1. handled \in Seq(Nat) /\ mail \in Seq(Nat) /\ staged \in Seq(Nat) /\ accepted \in Seq(Nat)
    BY DEF Carried
  <2>2. \A x \in Nat : <<x>> \in Seq(Nat)  OBVIOUS
  <2>3. held \in Seq(Nat)  BY <2>2, EmptySeq, ZenonT(20) DEF Carried
  <2>. QED  BY <2>1, <2>3, ConcatProperties, ZenonT(20) DEF Carried
<1>1. CASE I!PortSend
  <2>1. /\ fwd # "done" /\ offered' = offered + 1 /\ staged' = Append(staged, offered')
        /\ accepted' = Append(accepted, offered') /\ UNCHANGED <<fwd, held, mail, handled>>
    BY <1>1 DEF I!PortSend, I!Offer, I!actor
  <2>2. offered' \in Nat  BY <1>0, <2>1
  <2>3. /\ Append(staged, offered') \in Seq(Nat)
        /\ (handled \o mail \o held) \o Append(staged, offered')
             = Append((handled \o mail \o held) \o staged, offered')
    <3> DEFINE f == handled \o mail \o held
    <3>1. f \in Seq(Nat) /\ staged \in Seq(Nat)  BY <1>0, ConcatProperties
    <3> HIDE DEF f
    <3>2. Append(staged, offered') \in Seq(Nat) /\ f \o Append(staged, offered') = Append(f \o staged, offered')
      BY <2>2, <3>1, AcceptMoves
    <3>. QED  BY <3>2 DEF f
  <2>4. Append(accepted, offered') \in Seq(Nat)  BY <1>0, <2>2, AppendProperties
  <2>5. StagedInOrder'  BY <2>1, <2>3, ZenonT(20) DEF StagedInOrder
  <2>. QED  BY <2>1, <2>2, <2>3, <2>4, <2>5 DEF Carried
<1>2. CASE I!PortFull \/ I!PortClosed
  <2>1. offered' = offered + 1 /\ UNCHANGED <<accepted, staged, fwd, held, mail, handled>>
    BY <1>2 DEF I!PortFull, I!PortClosed, I!Offer, I!actor
  <2>2. offered' \in Nat  BY <1>0, <2>1
  <2>. QED  BY <2>1, <2>2 DEF Carried, StagedInOrder
<1>3. CASE I!ForwardFetch
  <2>1. /\ fwd = "recv" /\ staged # <<>> /\ fwd' = "send" /\ held' = <<Head(staged)>> /\ staged' = Tail(staged)
        /\ UNCHANGED <<offered, accepted, mail, handled>>
    BY <1>3 DEF I!ForwardFetch, I!producers, I!actor
  <2>2. held = <<>>  BY <2>1 DEF Carried
  <2>3. /\ Tail(staged) \in Seq(Nat) /\ Head(staged) \in Nat
        /\ (handled \o mail) \o <<Head(staged)>> \o Tail(staged) = (handled \o mail) \o <<>> \o staged
    BY <1>0, <2>1, FetchMoves, ZenonT(30)
  <2>. QED  BY <2>1, <2>2, <2>3, ZenonT(20) DEF Carried, StagedInOrder
<1>4. CASE I!ForwardPush
  <2>1. /\ fwd = "send" /\ fwd' = "recv" /\ mail' = mail \o held /\ held' = <<>>
        /\ UNCHANGED <<offered, accepted, staged, handled>>
    BY <1>4 DEF I!ForwardPush, I!producers
  <2>2. mail \o held \in Seq(Nat) /\ handled \o (mail \o held) \o <<>> = handled \o mail \o held
    <3>1. mail \in Seq(Nat) /\ held \in Seq(Nat) /\ handled \in Seq(Nat)  BY <1>0
    <3> HIDE DEF IngressInv
    <3>2. mail \o held \in Seq(Nat)  BY <3>1, ConcatProperties
    <3>3. handled \o (mail \o held) \in Seq(Nat)  BY <3>1, <3>2, ConcatProperties
    <3>4. handled \o (mail \o held) \o <<>> = handled \o (mail \o held)  BY <3>3, ConcatEmptySeq
    <3>5. (handled \o mail) \o held = handled \o (mail \o held)  BY <3>1, ConcatAssociative
    <3>. QED  BY <3>2, <3>4, <3>5
  <2>3. StagedInOrder'  BY <2>1, <2>2 DEF StagedInOrder
  <2>. QED  BY <2>1, <2>2, <2>3 DEF Carried
<1>5. CASE I!ForwardEnd
  BY <1>0, <1>5, EmptySeq DEF I!ForwardEnd, I!producers, I!actor, Carried, StagedInOrder
<1>6. CASE I!ActorTake
  <2>1. /\ mail # <<>> /\ mail' = Tail(mail) /\ handled' = Append(handled, Head(mail))
        /\ UNCHANGED <<offered, accepted, staged, fwd, held>>
    BY <1>6 DEF I!ActorTake, I!producers
  <2>2. /\ Tail(mail) \in Seq(Nat) /\ Append(handled, Head(mail)) \in Seq(Nat)
        /\ Append(handled, Head(mail)) \o Tail(mail) = handled \o mail
    BY <1>0, <2>1, TakeMoves, ZenonT(30)
  <2>. QED  BY <2>1, <2>2, ZenonT(20) DEF Carried, StagedInOrder
<1>7. CASE UNCHANGED <<offered, accepted, staged, fwd, held, mail, handled>>
  BY <1>7 DEF Carried, StagedInOrder
<1>8. CASE I!ActorDie \/ I!ActorCancel \/ (\E c \in Callers : I!StopForwarding(c) \/ I!CallerStep(c)) \/ UNCHANGED I!vars
  BY <1>7, <1>8, ZenonT(20) DEF I!ActorDie, I!ActorCancel, I!StopForwarding, I!CallerStep, I!StopJoin, I!ShutdownActor, I!ShutdownReturn,
    I!producers, I!actor, I!vars
<1>. QED
  BY <1>1, <1>2, <1>3, <1>4, <1>5, <1>6, <1>8 DEF I!Next, I!Forwarder, I!ForwardStop, I!ForwardRefused

(* No accepted command is lost, doubled or overtaken while the forwarding  *)
(* task of ActorCommandIngress lives, and shutdown closes the mailbox only *)
(* after that task has ended.                                              *)
THEOREM IngressKeepsOrder == I!Spec => []I!AcceptedInOrder
<1>1. IngressInv /\ [I!Next]_(I!vars) => IngressInv'
  BY JoinedKept, IngressOrderKept DEF IngressInv
<1>2. IngressInv => I!AcceptedInOrder
  BY DEF IngressInv, StagedInOrder, Joined, I!AcceptedInOrder
<1>. QED  BY IngressInit, <1>1, <1>2, PTL DEF I!Spec

(* The ingress uses the join controller as it is specified: the forwarder  *)
(* is a task that ends once, and only stop_forwarding waits for it.        *)
THEOREM IngressImplementsJoin == I!Spec => I!J!Spec
<1>1. I!Init => I!J!Init  BY DEF I!Init, I!J!Init
<1>2. [I!Next]_(I!vars) => [I!J!Next]_(I!J!vars)
  <2> SUFFICES ASSUME [I!Next]_(I!vars) PROVE [I!J!Next]_(I!J!vars)
    OBVIOUS
  <2> USE DEF I!join
  <2>1. ASSUME UNCHANGED I!join, (fwd = "done")' = (fwd = "done")  PROVE [I!J!Next]_(I!J!vars)
    BY <2>1 DEF I!J!vars
  <2>2. CASE I!PortSend \/ I!PortFull \/ I!PortClosed \/ I!ActorTake \/ I!ActorDie \/ I!ActorCancel \/ UNCHANGED I!vars
    BY <2>1, <2>2, ZenonT(20) DEF I!PortSend, I!PortFull, I!PortClosed, I!ActorTake, I!ActorDie, I!ActorCancel, I!vars
  <2>3. CASE I!ForwardFetch \/ I!ForwardPush
    BY <2>1, <2>3 DEF I!ForwardFetch, I!ForwardPush
  <2>4. CASE I!ForwardStop \/ I!ForwardRefused
    <3>1. fwd # "done" /\ fwd' = "done" /\ UNCHANGED I!join
      BY <2>4 DEF I!ForwardStop, I!ForwardRefused, I!ForwardEnd
    <3>. QED  BY <3>1 DEF I!J!Next, I!J!Finish, I!J!jvars
  <2>5. ASSUME NEW c \in Callers, I!StopForwarding(c) PROVE I!J!Next
    BY <2>5, ZenonT(20) DEF I!StopForwarding, I!J!Next
  <2>6. ASSUME NEW c \in Callers, I!StopJoin(c) PROVE I!J!Next
    BY <2>6 DEF I!StopJoin, I!J!JoinStep, I!J!Next
  <2>7. ASSUME NEW c \in Callers, I!ShutdownActor(c) \/ I!ShutdownReturn(c) PROVE [I!J!Next]_(I!J!vars)
    BY <2>1, <2>7, ZenonT(20) DEF I!ShutdownActor, I!ShutdownReturn
  <2>. QED  BY <2>2, <2>3, <2>4, <2>5, <2>6, <2>7 DEF I!Next, I!Forwarder, I!CallerStep
<1>. QED  BY <1>1, <1>2, PTL DEF I!Spec, I!J!Spec
=============================================================================
