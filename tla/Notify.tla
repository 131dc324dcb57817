------------------------------- MODULE Notify -------------------------------
(***************************************************************************)
(* tokio::sync::Notify, the wake-up primitive under the mailbox and the    *)
(* join controllers.  It is a library type, modelled from how              *)
(* crates/worker uses it.  A Notify is a record                            *)
(*   permit : the at most one wake-up that notify_one stores               *)
(*   fut    : for every process, the state of its Notified future          *)
(*              "none"      no future                                      *)
(*              "created"   notified() called, not polled yet              *)
(*              "recalled"  created, and notify_waiters ran since          *)
(*              "waiting"   polled without success: in the waiter list     *)
(*              "one"       taken off the list by notify_one               *)
(*              "all"       taken off the list by notify_waiters           *)
(* Tokio wakes waiters in FIFO order; here notify_one may wake any of      *)
(* them, so what holds of the model does not depend on that order.         *)
(***************************************************************************)

FutureState == {"none", "created", "recalled", "waiting", "one", "all"}

NotifyType(P) == [permit : BOOLEAN, fut : [P -> FutureState]]

New(P) == [permit |-> FALSE, fut |-> [p \in P |-> "none"]]

Created(n, p) == [n EXCEPT !.fut[p] = "created"]

Waiters(n) == {p \in DOMAIN n.fut : n.fut[p] = "waiting"}

\* notify_one: wakes one waiter, or stores the permit when there is none.
NotifyOne(n) ==
  IF Waiters(n) = {}
  THEN {[n EXCEPT !.permit = TRUE]}
  ELSE {[n EXCEPT !.fut[p] = "one"] : p \in Waiters(n)}

\* notify_waiters: wakes every future that exists now and stores nothing.
NotifyWaiters(n) ==
  [n EXCEPT !.fut = [p \in DOMAIN n.fut |->
      IF n.fut[p] = "waiting" THEN "all"
      ELSE IF n.fut[p] = "created" THEN "recalled" ELSE n.fut[p]]]

\* Polling p's future completes it ...
Ready(n, p) ==
  \/ n.fut[p] \in {"one", "all", "recalled"}
  \/ n.fut[p] = "created" /\ n.permit

\* ... and a first poll takes the stored permit, even for a recalled future;
Polled(n, p) ==
  [n EXCEPT !.fut[p] = "none",
            !.permit = n.permit /\ n.fut[p] \notin {"created", "recalled"}]

\* otherwise the future joins the waiter list.
Registered(n, p) == [n EXCEPT !.fut[p] = "waiting"]

\* Dropping a future that notify_one had woken passes the wake-up on.
Dropped(n, p) ==
  LET gone == [n EXCEPT !.fut[p] = "none"]
  IN IF n.fut[p] = "one" THEN NotifyOne(gone) ELSE {gone}
=============================================================================
