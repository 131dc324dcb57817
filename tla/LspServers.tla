----------------------------- MODULE LspServers -----------------------------
(***************************************************************************)
(* The life of the language servers of one (language, root) key: the       *)
(* single-flight start of Registry::acquire (crates/lsp/src/registry), the *)
(* processes of LocalTransport, the router that consumes their events      *)
(* (LspRuntime, process_transport_event), and the documents that are       *)
(* opened with them (ensure_open_text).  Keys only share locks that are    *)
(* held for straight-line code.                                            *)
(*                                                                         *)
(* A server id is <<slot, generation>>.  A document's send task acquires a *)
(* server when the document is not marked opened or no server is           *)
(* registered (send_change).  Starting and Running events change nothing   *)
(* and are left out, as are the messages other than progress.              *)
(***************************************************************************)
EXTENDS Naturals, Sequences, FiniteSets

CONSTANTS
  Docs,         \* documents of the key, each with one send task
  CanDrop,      \* the future of an acquire may be dropped at an await
  CanShutdown,  \* LspSession::shutdown_all is called
  MaxStarts,    \* bound on the single-flight rounds
  MaxEvents     \* bound on the queued events

ASSUME LspServersAssumption ==
  {CanDrop, CanShutdown} \subseteq BOOLEAN /\ {MaxStarts, MaxEvents} \subseteq Nat

VARIABLES
  server,                   \* RegistryState.servers: the key's server
  slot, generation, nextSlot,
  inflight, cells,          \* the in-flight entry; the results of all rounds
  aborted,                  \* rounds whose dropped StartGuard has yet to clean up
  alive, procs,             \* running processes; LocalTransport.servers
  events, router,           \* the event channel; the server the router is stopping
  progress,                 \* servers with progress items
  pc, round, mine,          \* per document: its send task, its round, its server
  opened, holds,            \* documents marked opened; <<server, document>> opened
  down                      \* shutdown_all has run

registry == <<server, slot, generation, nextSlot, inflight, cells, aborted>>
transport == <<alive, procs, events>>
routing == <<router, progress>>
tasks == <<pc, round, mine>>
serversVars == <<registry, transport, routing, tasks, opened, holds, down>>

None == <<0, 0>>      \* no server; as the result of a round: it failed
Pending == <<0, 1>>   \* no result yet

ServersInit ==
  /\ server = None /\ slot = 0 /\ generation = 0 /\ nextSlot = 1
  /\ inflight = 0 /\ cells = <<>> /\ aborted = {}
  /\ alive = {} /\ procs = {} /\ events = <<>> /\ router = None /\ progress = {}
  /\ pc = [d \in Docs |-> "idle"] /\ round = [d \in Docs |-> 0] /\ mine = [d \in Docs |-> None]
  /\ opened = {} /\ holds = {} /\ down = FALSE

Goto(d, l) == pc' = [pc EXCEPT ![d] = l]
-----------------------------------------------------------------------------
(* run_server_io ends: end of file, a read or a write error.               *)
Exits(s) ==
  /\ alive' = alive \ {s} /\ holds' = {h \in holds : h[1] # s}
  /\ events' = IF s \in alive THEN Append(events, [server |-> s, kind |-> "exit"]) ELSE events
-----------------------------------------------------------------------------
(* Registry::acquire: the fast path, the election, the waiters.            *)
AcquireRunning(d) ==
  /\ pc[d] = "idle" /\ ~down /\ d \notin opened /\ server # None
  /\ Goto(d, "open") /\ mine' = [mine EXCEPT ![d] = server]
  /\ UNCHANGED <<registry, transport, routing, round, opened, holds, down>>

Acquire(d) ==
  /\ pc[d] = "idle" /\ ~down /\ server = None /\ Goto(d, "elect")
  /\ UNCHANGED <<registry, transport, routing, round, mine, opened, holds, down>>

\* Mutant of ElectLeader: the in-flight entry of another leader is replaced.
ElectLeaderAlways(d) ==
  /\ pc[d] = "elect" /\ Len(cells) < MaxStarts
  /\ cells' = Append(cells, Pending) /\ inflight' = Len(cells')
  /\ round' = [round EXCEPT ![d] = Len(cells')] /\ Goto(d, "lead")
  /\ UNCHANGED <<server, slot, generation, nextSlot, aborted, transport, routing, mine, opened, holds, down>>

ElectLeader(d) ==
  /\ pc[d] = "elect" /\ inflight = 0 /\ Len(cells) < MaxStarts
  /\ cells' = Append(cells, Pending) /\ inflight' = Len(cells')
  /\ round' = [round EXCEPT ![d] = Len(cells')] /\ Goto(d, "lead")
  /\ UNCHANGED <<server, slot, generation, nextSlot, aborted, transport, routing, mine, opened, holds, down>>

ElectWaiter(d) ==
  /\ pc[d] = "elect" /\ inflight # 0
  /\ round' = [round EXCEPT ![d] = inflight] /\ Goto(d, "wait")
  /\ UNCHANGED <<registry, transport, routing, mine, opened, holds, down>>

Waited(d) ==
  /\ pc[d] = "wait" /\ cells[round[d]] # Pending
  /\ \/ cells[round[d]] = None /\ Goto(d, "idle") /\ UNCHANGED mine
     \/ cells[round[d]] # None /\ Goto(d, "open") /\ mine' = [mine EXCEPT ![d] = cells[round[d]]]
  /\ UNCHANGED <<registry, transport, routing, round, opened, holds, down>>

(* The leader.                                                             *)
LeadRunning(d) ==
  /\ pc[d] = "lead" /\ server # None
  /\ Goto(d, "publish") /\ mine' = [mine EXCEPT ![d] = server]
  /\ UNCHANGED <<registry, transport, routing, round, opened, holds, down>>

(* get_or_create_slot_id and next_gen                                      *)
LeadNewId(d) ==
  /\ pc[d] = "lead" /\ server = None /\ Goto(d, "starting")
  /\ slot' = (IF slot = 0 THEN nextSlot ELSE slot)
  /\ nextSlot' = (IF slot = 0 THEN nextSlot + 1 ELSE nextSlot)
  /\ generation' = generation + 1
  /\ mine' = [mine EXCEPT ![d] = <<slot', generation'>>]
  /\ UNCHANGED <<server, inflight, cells, aborted, transport, routing, round, opened, holds, down>>

(* transport.start: the process runs and may exit from here on.            *)
ServerStarts(d) ==
  /\ pc[d] = "starting" /\ Goto(d, "insert")
  /\ alive' = alive \cup {mine[d]} /\ procs' = procs \cup {mine[d]}
  /\ UNCHANGED <<registry, events, routing, round, mine, opened, holds, down>>

StartFails(d) ==
  /\ pc[d] = "starting" /\ Goto(d, "publish") /\ mine' = [mine EXCEPT ![d] = None]
  /\ UNCHANGED <<registry, transport, routing, round, opened, holds, down>>

\* Mutant of Insert: the caller gets the handle, the registry does not.
InsertNothing(d) ==
  /\ pc[d] = "insert" /\ Goto(d, "publish")
  /\ UNCHANGED <<registry, transport, routing, round, mine, opened, holds, down>>

(* The insertion under the state lock.  A server that another caller has   *)
(* registered meanwhile wins and the new one is stopped; SingleFlight says *)
(* that there is none.                                                     *)
Insert(d) ==
  /\ pc[d] = "insert" /\ Goto(d, "publish")
  /\ server' = (IF server = None THEN mine[d] ELSE server)
  /\ mine' = [mine EXCEPT ![d] = server']
  /\ IF server = None THEN UNCHANGED <<transport, holds>>
     ELSE procs' = procs \ {mine[d]} /\ Exits(mine[d])
  /\ UNCHANGED <<slot, generation, nextSlot, inflight, cells, aborted, routing, round, opened, down>>

(* StartGuard::complete: publish, then remove the entry under its lock.    *)
Publish(d) ==
  /\ pc[d] = "publish" /\ Goto(d, "remove")
  /\ cells' = [cells EXCEPT ![round[d]] = mine[d]]
  /\ UNCHANGED <<server, slot, generation, nextSlot, inflight, aborted,
                 transport, routing, round, mine, opened, holds, down>>

Remove(d) ==
  /\ pc[d] = "remove" /\ inflight' = 0
  /\ Goto(d, IF mine[d] = None THEN "idle" ELSE "open")
  /\ UNCHANGED <<server, slot, generation, nextSlot, cells, aborted,
                 transport, routing, round, mine, opened, holds, down>>

\* Mutant of StartDropped: no guard cleans up after the leader.
StartDroppedNoGuard(d) ==
  /\ CanDrop /\ pc[d] = "starting" /\ Goto(d, "idle")
  /\ UNCHANGED <<registry, transport, routing, round, mine, opened, holds, down>>

(* The leader's future is dropped: at transport.start (of a transport that *)
(* yields there) its StartGuard spawns the clean-up, in complete it is     *)
(* already disarmed.                                                       *)
StartDropped(d) ==
  /\ CanDrop /\ pc[d] = "starting" /\ Goto(d, "idle")
  /\ aborted' = aborted \cup {round[d]}
  /\ UNCHANGED <<server, slot, generation, nextSlot, inflight, cells,
                 transport, routing, round, mine, opened, holds, down>>

CompleteDropped(d) ==
  /\ CanDrop /\ pc[d] = "remove" /\ Goto(d, "idle")
  /\ UNCHANGED <<registry, transport, routing, round, mine, opened, holds, down>>

CleanUp(k) ==
  /\ k \in aborted /\ aborted' = aborted \ {k}
  /\ inflight' = 0 /\ cells' = [cells EXCEPT ![k] = None]
  /\ UNCHANGED <<server, slot, generation, nextSlot, transport, routing, tasks, opened, holds, down>>
-----------------------------------------------------------------------------

(* ensure_open_text: the didOpen reaches the process as long as its I/O    *)
(* task runs; otherwise the document is unregistered.                      *)
Open(d) ==
  /\ pc[d] = "open" /\ Goto(d, "idle")
  /\ IF mine[d] \in alive \cap procs
     THEN opened' = opened \cup {d} /\ holds' = holds \cup {<<mine[d], d>>}
     ELSE opened' = opened \ {d} /\ UNCHANGED holds
  /\ UNCHANGED <<registry, transport, routing, round, mine, down>>

ServerExit(s) ==
  /\ s \in alive /\ Len(events) < MaxEvents /\ Exits(s)
  /\ UNCHANGED <<registry, procs, routing, tasks, opened, down>>

ServerProgress(s) ==
  /\ s \in alive /\ Len(events) < MaxEvents
  /\ events' = Append(events, [server |-> s, kind |-> "progress"])
  /\ UNCHANGED <<registry, alive, procs, routing, tasks, opened, holds, down>>
-----------------------------------------------------------------------------
(* The router handles one event after the other.                           *)
RouteNext == events # <<>> /\ router = None /\ events' = Tail(events)

RouteStale ==
  /\ RouteNext /\ Head(events).server # server
  /\ UNCHANGED <<registry, alive, procs, routing, tasks, opened, holds, down>>

RouteProgress ==
  /\ RouteNext /\ Head(events).server = server /\ Head(events).kind = "progress"
  /\ progress' = progress \cup {server}
  /\ UNCHANGED <<registry, alive, procs, router, tasks, opened, holds, down>>

(* process_status_event: remove_server, then transport.stop is awaited ... *)
RouteExit ==
  /\ RouteNext /\ Head(events).server = server /\ Head(events).kind = "exit"
  /\ server' = None /\ router' = server
  /\ UNCHANGED <<slot, generation, nextSlot, inflight, cells, aborted,
                 alive, procs, progress, tasks, opened, holds, down>>

(* ... and clear_server_progress.                                          *)
RouteStopped ==
  /\ router # None /\ router' = None
  /\ procs' = procs \ {router} /\ progress' = progress \ {router} /\ Exits(router)
  /\ UNCHANGED <<registry, tasks, opened, down>>

(* LspSession::shutdown_all                                                *)
ShutdownAll ==
  /\ CanShutdown /\ ~down /\ down' = TRUE
  /\ server' = None /\ slot' = 0 /\ generation' = 0
  /\ procs' = procs \ {server} /\ Exits(server)
  /\ UNCHANGED <<nextSlot, inflight, cells, aborted, routing, tasks, opened>>
-----------------------------------------------------------------------------
TaskStep(d) ==
  \/ ElectLeader(d) \/ ElectWaiter(d) \/ Waited(d) \/ LeadRunning(d) \/ LeadNewId(d)
  \/ ServerStarts(d) \/ StartFails(d) \/ Insert(d) \/ Publish(d) \/ Remove(d) \/ Open(d)

Router == RouteStale \/ RouteProgress \/ RouteExit \/ RouteStopped
AnyCleanUp == \E k \in aborted : CleanUp(k)

ServersNext ==
  \/ \E d \in Docs : \/ AcquireRunning(d) \/ Acquire(d) \/ TaskStep(d)
                     \/ StartDropped(d) \/ CompleteDropped(d)
  \/ AnyCleanUp \/ Router \/ ShutdownAll
  \/ \E s \in alive : ServerExit(s) \/ ServerProgress(s)

ServersSpec == ServersInit /\ [][ServersNext]_serversVars

(* Spawned tasks are polled, and transport.start returns.                  *)
ServersFairSpec == ServersSpec /\ WF_serversVars(AnyCleanUp) /\ WF_serversVars(Router) /\ \A d \in Docs : WF_serversVars(TaskStep(d))
-----------------------------------------------------------------------------
Starting == {d \in Docs : pc[d] \in {"lead", "starting", "insert"}}

(* "Must singleflight transport.start() per (language, root_path) key": at *)
(* most one task is between the election and the insertion, it is the one  *)
(* the in-flight entry stands for, and no server is registered meanwhile   *)
(* (the "final pathological race check" finds nothing).                    *)
SingleFlight ==
  /\ \A d, e \in Starting : d = e
  /\ \A d \in Starting : inflight = round[d]
  /\ \A d \in Docs : pc[d] \in {"starting", "insert"} => server = None

(* A server process is registered, about to be registered by the leader    *)
(* that started it, or being stopped: none is left running by a cancelled  *)
(* acquire or a crash.  And ("Must remove stopped/crashed servers and clear *)
(* their progress") only the registered server and the one being stopped   *)
(* have progress items.                                                    *)
NoOrphan ==
  ~down =>
    /\ \A s \in alive : s = server \/ s = router \/ \E d \in Docs : pc[d] = "insert" /\ mine[d] = s
    /\ progress \subseteq {server, router}

(* No waiter is left behind: it is served also when its leader is         *)
(* cancelled while the server starts.                                      *)
AcquireReturns ==
  \A d \in Docs : pc[d] = "wait" ~> pc[d] # "wait"
=============================================================================
