------------------------------ MODULE JoinCtrl ------------------------------
(***************************************************************************)
(* SupervisorJoinCtrl (crates/worker/src/supervisor/join_ctrl.rs) and the  *)
(* JoinCtrl of the command ingress: any number of callers wait for one     *)
(* task.  The first one takes the JoinHandle and leads; the others follow  *)
(* on a Notify.  A leader with a deadline may put the handle back.  The    *)
(* state mutex is only held for straight-line code, so each critical       *)
(* section is one step; notify_waiters runs after the lock is released.    *)
(***************************************************************************)
CONSTANT Callers

VARIABLES
  finished,    \* the joined task has ended
  joinState,   \* JoinState: "Handle", "Joining" or "Done"
  jpc,         \* per caller: where it is in join_forever / join_with_timeout
  timed,       \* per caller: it has a deadline
  noted        \* per caller: its Notified future (made under the lock) fired

jvars == <<joinState, jpc, timed, noted>>

JoinGoto(c, l) == jpc' = [jpc EXCEPT ![c] = l]

JoinInit ==
  /\ joinState = "Handle"
  /\ jpc = [c \in Callers |-> "idle"]
  /\ timed = [c \in Callers |-> FALSE]
  /\ noted = [c \in Callers |-> FALSE]

(* A call starts: shutdown with a deadline first, then possibly, when that *)
(* one expired, the forced shutdown without (shutdown_graceful_or_force).  *)
Join(c, deadline) ==
  /\ jpc[c] \in {"idle", "false"} /\ (deadline => jpc[c] = "idle")
  /\ JoinGoto(c, "join")
  /\ timed' = [timed EXCEPT ![c] = deadline]
  /\ UNCHANGED <<joinState, noted>>

FindDone(c) ==
  /\ jpc[c] = "join" /\ joinState = "Done" /\ JoinGoto(c, "true")
  /\ UNCHANGED <<joinState, timed, noted>>

Follow(c) ==
  /\ jpc[c] = "join" /\ joinState = "Joining" /\ JoinGoto(c, "follow")
  /\ noted' = [noted EXCEPT ![c] = FALSE]
  /\ UNCHANGED <<joinState, timed>>

Lead(c) ==
  /\ jpc[c] = "join" /\ joinState = "Handle" /\ JoinGoto(c, "lead")
  /\ joinState' = "Joining"
  /\ UNCHANGED <<timed, noted>>

LeadDone(c) ==
  /\ jpc[c] = "lead" /\ finished
  /\ joinState' = "Done" /\ JoinGoto(c, "announce_true")
  /\ UNCHANGED <<timed, noted>>

\* Mutant of LeadTimeout: the handle is put back without waking the followers.
LeadTimeoutSilent(c) ==
  /\ jpc[c] = "lead" /\ timed[c]
  /\ joinState' = "Handle" /\ JoinGoto(c, "false")
  /\ UNCHANGED <<timed, noted>>

LeadTimeout(c) ==
  /\ jpc[c] = "lead" /\ timed[c]
  /\ joinState' = "Handle" /\ JoinGoto(c, "announce_false")
  /\ UNCHANGED <<timed, noted>>

(* done.notify_waiters() *)
Announce(c) ==
  /\ \/ jpc[c] = "announce_true" /\ JoinGoto(c, "true")
     \/ jpc[c] = "announce_false" /\ JoinGoto(c, "false")
  /\ noted' = [d \in Callers |-> noted[d] \/ jpc[d] = "follow"]
  /\ UNCHANGED <<joinState, timed>>

FollowWake(c) ==
  /\ jpc[c] = "follow" /\ noted[c] /\ JoinGoto(c, "join")
  /\ UNCHANGED <<joinState, timed, noted>>

FollowTimeout(c) ==
  /\ jpc[c] = "follow" /\ timed[c] /\ JoinGoto(c, "false")
  /\ UNCHANGED <<joinState, timed, noted>>

JoinProgress(c) == FindDone(c) \/ Follow(c) \/ Lead(c) \/ LeadDone(c) \/ Announce(c) \/ FollowWake(c)
JoinExpire(c) == LeadTimeout(c) \/ FollowTimeout(c)
JoinStep(c) == JoinProgress(c) \/ JoinExpire(c)
-----------------------------------------------------------------------------
(* The controller on its own, over a task that ends at some point.         *)
Finish == ~finished /\ finished' = TRUE /\ UNCHANGED jvars

Next ==
  \/ Finish
  \/ \E c \in Callers : /\ JoinStep(c) \/ \E deadline \in BOOLEAN : Join(c, deadline)
                        /\ UNCHANGED finished

vars == <<finished, joinState, jpc, timed, noted>>

Init == finished = FALSE /\ JoinInit

Spec == Init /\ [][Next]_vars

Leaders == {c \in Callers : jpc[c] = "lead"}

JoinTypeOK ==
  /\ finished \in BOOLEAN
  /\ joinState \in {"Handle", "Joining", "Done"}
  /\ jpc \in [Callers -> {"idle", "join", "lead", "follow", "announce_true", "announce_false", "true", "false"}]
  /\ timed \in [Callers -> BOOLEAN] /\ noted \in [Callers -> BOOLEAN]

(* "only one caller becomes the leader that awaits the join handle": the   *)
(* handle is with exactly one caller while the state is Joining.           *)
OneLeader ==
  /\ joinState = "Joining" <=> Leaders # {}
  /\ \A c, d \in Leaders : c = d

(* A caller that is told the task completed can rely on it.                *)
JoinedMeansFinished ==
  \A c \in Callers : jpc[c] \in {"announce_true", "true"} => finished

(* "Create Notified while lock is held to avoid lost-wakeup race": a       *)
(* follower that has not been woken still has somebody to wake it.         *)
FollowerCovered ==
  \A c \in Callers : jpc[c] = "follow" /\ ~noted[c] =>
    \E d \in Callers : jpc[d] \in {"lead", "announce_true", "announce_false"}
=============================================================================
