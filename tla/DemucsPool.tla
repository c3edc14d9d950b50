----------------------------- MODULE DemucsPool -----------------------------
(***************************************************************************)
(* The Demucs daemon and what stands before it: the adaptive slot          *)
(* semaphore (dispatcher/semaphore.go, demucs_scheduler.go), the pool of   *)
(* one daemon (dispatcher/demucs_daemon.go) and the loop of                *)
(* demucs_daemon.py.                                                       *)
(*                                                                         *)
(* A separation takes a slot, then the daemon; a mix-only decode takes the *)
(* daemon alone; Prewarm starts it.  Starting a daemon happens outside the *)
(* mutex, under the spawning flag, and waiters are woken by Broadcast.     *)
(***************************************************************************)
EXTENDS Naturals, Sequences, FiniteSets

CONSTANTS
    Separators,     \* workers in executeDemucsStage
    Mixers,         \* workers in executeMixOnlyStage
    Prewarmers,     \* Prewarm(ctx, 1), called at the start
    Clients,        \* names of daemons
    InitialLimit,   \* configured slots; the scheduler's capacity is 1 whatever it says
    TasksPerClient, \* 50 in the code
    MaxDemucsFaults,
    NoClient

DemucsUsers == Separators \cup Mixers \cup Prewarmers

ASSUME DemucsPoolAssumption ==
    /\ InitialLimit \in Nat \ {0}
    /\ TasksPerClient \in Nat \ {0}
    /\ MaxDemucsFaults \in Nat
    /\ Separators \cap (Mixers \cup Prewarmers) = {} /\ Mixers \cap Prewarmers = {}
    /\ NoClient \notin Clients

VARIABLES
    limit, inUse,   \* the semaphore
    notified,       \* sleepers whose notifyCh has been closed
    demucsClosed,   \* p.isClosed
    clients,        \* p.clients
    parked,         \* p.idle, taken from the end
    starting,       \* p.spawning
    running,        \* clients whose process lives
    alive,          \* clients with isAlive
    tasks,          \* tasks[d]: taskCount
    pipe,           \* pipe[d]: quiet, asked, answered or refused
    step,           \* step[u]: where the user is
    client,         \* client[u]: what it holds
    woken,          \* users woken from cond.Wait that have not got the mutex back
    ended,          \* users whose context is done
    demucsFaults
slotVars == <<limit, inUse, notified>>
registryVars == <<demucsClosed, clients, parked, starting>>
daemonVars == <<running, alive, tasks, pipe>>
demucsVars == <<slotVars, registryVars, daemonVars, step, client, woken, ended, demucsFaults>>

Steps ==
    {"out", "queueing", "sleeping", "entering", "waiting", "starting", "holding", "calling", "releasing",
     "recycling", "leaving"}
HoldingClient == {"holding", "calling", "releasing"}

DemucsInit ==
    /\ limit = InitialLimit /\ inUse = 0 /\ notified = {}
    /\ demucsClosed = FALSE /\ clients = {} /\ parked = <<>> /\ starting = FALSE
    /\ running = {} /\ alive = {}
    /\ tasks = [d \in Clients |-> 0] /\ pipe = [d \in Clients |-> "quiet"]
    /\ step = [u \in DemucsUsers |-> IF u \in Prewarmers THEN "entering" ELSE "out"] /\ client = [u \in DemucsUsers |-> NoClient]
    /\ woken = {} /\ ended = {} /\ demucsFaults = 0

Parked == {parked[i] : i \in 1..Len(parked)}
HeldClients == {client[u] : u \in DemucsUsers}
Goes(u, here, there) == step[u] = here /\ step' = [step EXCEPT ![u] = there]
GetsClient(u, d) == client' = [client EXCEPT ![u] = d]
DemucsFault == demucsFaults < MaxDemucsFaults /\ demucsFaults' = demucsFaults + 1
NoDemucsFault == UNCHANGED demucsFaults
\* A separation still has its slot when it has done with the daemon.
After(u) == IF u \in Separators THEN "leaving" ELSE "out"

(***************************************************************************)
(* The slots.  A waiter waits on the channel it read under the mutex.      *)
(***************************************************************************)
SlotStep(u) ==
    /\ UNCHANGED <<registryVars, daemonVars, client, woken>> /\ NoDemucsFault

\* A call begins: AcquireWithContext for a separation, the pool for the others.
Begins(u) ==
    /\ u \notin Prewarmers
    /\ Goes(u, "out", IF u \in Separators THEN "queueing" ELSE "entering")
    /\ ended' = ended \ {u}
    /\ UNCHANGED slotVars /\ SlotStep(u)

\* Under the mutex, at first or after the channel was closed.
Looks(u) == step[u] = "queueing" \/ (step[u] = "sleeping" /\ u \in notified)
SlotResult(u, there) ==
    /\ step' = [step EXCEPT ![u] = there] /\ notified' = notified \ {u}
    /\ UNCHANGED <<limit, ended>> /\ SlotStep(u)

TakeSlot(u) ==
    /\ Looks(u) /\ inUse < limit /\ inUse' = inUse + 1
    /\ SlotResult(u, "entering")

WaitForSlot(u) ==
    /\ Looks(u) /\ inUse >= limit
    /\ SlotResult(u, "sleeping") /\ UNCHANGED inUse

\* The select may take ctx.Done although the channel is closed too.
SlotExpired(u) ==
    /\ step[u] = "sleeping" /\ u \in ended
    /\ SlotResult(u, "out") /\ UNCHANGED inUse

Sleeping == {u \in DemucsUsers : step[u] = "sleeping"}
Less(n) == IF n > 0 THEN n - 1 ELSE n

\* mutant: the slot is given back without closing notifyCh
ReleaseSlotSilently(u) ==
    /\ Goes(u, "leaving", "out")
    /\ inUse' = Less(inUse)
    /\ UNCHANGED <<limit, notified, ended>> /\ SlotStep(u)

ReleaseSlot(u) ==
    /\ Goes(u, "leaving", "out")
    /\ inUse' = Less(inUse) /\ notified' = notified \cup Sleeping
    /\ UNCHANGED <<limit, ended>> /\ SlotStep(u)

\* The scheduler's tick.  Its capacity is clamped to one, so its target is one slot: the
\* configured limit is lowered at the first tick, perhaps below what is in use.
LowerLimit ==
    /\ limit > 1 /\ limit' = 1
    /\ notified' = notified \cup Sleeping
    /\ UNCHANGED <<inUse, registryVars, daemonVars, step, client, woken, ended>> /\ NoDemucsFault

(***************************************************************************)
(* The pool.  Each action is one critical section of p.mu.                 *)
(***************************************************************************)
Enters(u) == step[u] = "entering" \/ (step[u] = "waiting" /\ u \in woken)
Broadcast(u) == woken' = (woken \cup {v \in DemucsUsers : step[v] = "waiting"}) \ {u}
NoBroadcast(u) == woken' = woken \ {u}
PoolStep(u, there) ==
    /\ step' = [step EXCEPT ![u] = there]
    /\ UNCHANGED <<slotVars, ended>> /\ NoDemucsFault

\* closeLocked, or killClientProcessLocked
Ends(D) ==
    /\ running' = running \ D /\ alive' = alive \ D
    /\ tasks' = [d \in Clients |-> IF d \in D THEN 0 ELSE tasks[d]]
    /\ pipe' = [d \in Clients |-> IF d \in D THEN "quiet" ELSE pipe[d]]

\* isClosed is looked at before the context; Prewarm looks at either only while it needs a
\* daemon.
Rejected(u) ==
    /\ Enters(u) /\ (u \in Prewarmers => clients = {})
    /\ demucsClosed \/ u \in ended
    /\ PoolStep(u, After(u)) /\ NoBroadcast(u)
    /\ UNCHANGED <<registryVars, daemonVars, client>>

Admitted(u) == Enters(u) /\ ~demucsClosed /\ u \notin ended

Prewarmed(u) ==
    /\ Enters(u) /\ u \in Prewarmers /\ clients # {}
    /\ PoolStep(u, "out") /\ NoBroadcast(u)
    /\ UNCHANGED <<registryVars, daemonVars, client>>

Latest == parked[Len(parked)]
Popped == SubSeq(parked, 1, Len(parked) - 1)

TakeParked(u) ==
    /\ Admitted(u) /\ u \notin Prewarmers
    /\ parked # <<>> /\ Latest \in alive
    /\ parked' = Popped /\ GetsClient(u, Latest)
    /\ PoolStep(u, "holding") /\ NoBroadcast(u)
    /\ UNCHANGED <<demucsClosed, clients, starting, daemonVars>>

\* mutant: a dead daemon is restarted without reserving its place
RestartUnreserved(u) ==
    /\ Admitted(u) /\ u \notin Prewarmers
    /\ parked # <<>> /\ Latest \notin alive
    /\ parked' = Popped /\ clients' = clients \ {Latest} /\ Ends({Latest})
    /\ PoolStep(u, "starting") /\ NoBroadcast(u)
    /\ UNCHANGED <<demucsClosed, starting, client>>

\* An idle daemon known to be dead is killed, and its place kept while another starts.
Restart(u) ==
    /\ Admitted(u) /\ u \notin Prewarmers
    /\ parked # <<>> /\ Latest \notin alive
    /\ parked' = Popped /\ clients' = clients \ {Latest} /\ Ends({Latest})
    /\ starting' = TRUE
    /\ PoolStep(u, "starting") /\ NoBroadcast(u)
    /\ UNCHANGED <<demucsClosed, client>>

StartNew(u) ==
    /\ Admitted(u) /\ parked = <<>> /\ clients = {} /\ ~starting
    /\ starting' = TRUE
    /\ PoolStep(u, "starting") /\ NoBroadcast(u)
    /\ UNCHANGED <<demucsClosed, clients, parked, daemonVars, client>>

WaitForChange(u) ==
    /\ Admitted(u) /\ parked = <<>>
    /\ starting \/ (u \notin Prewarmers /\ clients # {})
    /\ PoolStep(u, "waiting") /\ NoBroadcast(u)
    /\ UNCHANGED <<registryVars, daemonVars, client>>

\* context.AfterFunc broadcasts when the context of a waiter ends.
WakeExpired(u) ==
    /\ u \in ended /\ step[u] = "waiting" /\ u \notin woken
    /\ woken' = {v \in DemucsUsers : step[v] = "waiting"}
    /\ UNCHANGED <<slotVars, registryVars, daemonVars, step, client, ended>> /\ NoDemucsFault

AcquireClient(u) ==
    \/ Rejected(u) \/ Prewarmed(u) \/ TakeParked(u) \/ Restart(u) \/ StartNew(u)
    \/ WaitForChange(u) \/ WakeExpired(u)

(***************************************************************************)
(* spawnReservedLocked, back under the mutex.                              *)
(***************************************************************************)
Starting(u) == step[u] \in {"starting", "recycling"}
\* Prewarm and a recycling Release park the new daemon, Acquire keeps it.
Keeps(u) == step[u] = "starting" /\ u \notin Prewarmers

Register(u, d) ==
    /\ clients' = clients \cup {d}
    /\ running' = running \cup {d} /\ alive' = alive \cup {d}
    /\ \/ Keeps(u) /\ GetsClient(u, d) /\ UNCHANGED parked /\ PoolStep(u, "holding")
       \/ /\ ~Keeps(u) /\ parked' = Append(parked, d) /\ UNCHANGED client
          /\ PoolStep(u, After(u))
    /\ UNCHANGED <<demucsClosed, tasks, pipe>>

Spare == {d \in Clients : d \notin running \cup clients \cup HeldClients}

\* mutant: the daemon joins a pool that was closed while it started
SpawnedAnyway(u) ==
    /\ Starting(u)
    /\ starting' = FALSE /\ Broadcast(u)
    /\ Spare # {} /\ Register(u, CHOOSE d \in Spare : TRUE)

Spawned(u) ==
    /\ Starting(u) /\ ~demucsClosed
    /\ starting' = FALSE /\ Broadcast(u)
    /\ Spare # {} /\ Register(u, CHOOSE d \in Spare : TRUE)

\* The daemon came up in a closed pool: it is closed again.
SpawnedTooLate(u) ==
    /\ Starting(u) /\ demucsClosed
    /\ starting' = FALSE /\ Broadcast(u)
    /\ PoolStep(u, After(u))
    /\ UNCHANGED <<demucsClosed, clients, parked, daemonVars, client>>

SpawnFails(u) ==
    /\ Starting(u)
    /\ starting' = FALSE /\ Broadcast(u)
    /\ DemucsFault
    /\ step' = [step EXCEPT ![u] = After(u)]
    /\ UNCHANGED <<slotVars, ended, demucsClosed, clients, parked, daemonVars, client>>

(***************************************************************************)
(* One request: separate or decode_mix.                                    *)
(***************************************************************************)
Asks(u) ==
    /\ step[u] = "holding" /\ client[u] \in alive /\ client[u] \in running
    /\ pipe' = [pipe EXCEPT ![client[u]] = "asked"]
    /\ PoolStep(u, "calling")
    /\ UNCHANGED <<registryVars, running, alive, tasks, client, woken>>

\* isAlive is false, or the write fails and the client is closed.
CannotAsk(u) ==
    /\ step[u] = "holding" /\ ~(client[u] \in alive /\ client[u] \in running)
    /\ Ends({client[u]}) /\ PoolStep(u, "releasing")
    /\ UNCHANGED <<registryVars, client, woken>>

\* The loop decodes, separates or not, publishes and answers.
Works(d) ==
    /\ pipe[d] = "asked" /\ d \in running
    /\ pipe' = [pipe EXCEPT ![d] = "answered"]
    /\ UNCHANGED <<slotVars, registryVars, running, alive, tasks, step, client, woken, ended>>
    /\ NoDemucsFault

\* An exception in a handler: the loop answers status error and goes on.
WorkFails(d) ==
    /\ pipe[d] = "asked" /\ d \in running
    /\ pipe' = [pipe EXCEPT ![d] = "refused"]
    /\ DemucsFault
    /\ UNCHANGED <<slotVars, registryVars, running, alive, tasks, step, client, woken, ended>>

\* Only a success is counted; an error leaves the daemon in service.
Hears(u) ==
    /\ step[u] = "calling" /\ pipe[client[u]] \in {"answered", "refused"}
    /\ pipe' = [pipe EXCEPT ![client[u]] = "quiet"]
    /\ tasks' = [tasks EXCEPT ![client[u]] = IF pipe[client[u]] = "answered" THEN @ + 1 ELSE @]
    /\ PoolStep(u, "releasing")
    /\ UNCHANGED <<registryVars, running, alive, client, woken>>

\* The end of the pipe, or the end of the context, closes the client.
GivesUp(u) ==
    /\ step[u] = "calling"
    /\ u \in ended \/ (client[u] \notin running /\ pipe[client[u]] \notin {"answered", "refused"})
    /\ Ends({client[u]}) /\ PoolStep(u, "releasing")
    /\ UNCHANGED <<registryVars, client, woken>>

(***************************************************************************)
(* Release and Close.                                                      *)
(***************************************************************************)
ReleaseClosed(u) ==
    /\ step[u] = "releasing" /\ demucsClosed
    /\ Ends({client[u]}) /\ GetsClient(u, NoClient)
    /\ PoolStep(u, After(u)) /\ NoBroadcast(u)
    /\ UNCHANGED registryVars

Recycle(u) ==
    /\ step[u] = "releasing" /\ ~demucsClosed /\ tasks[client[u]] >= TasksPerClient
    /\ Ends({client[u]}) /\ clients' = clients \ {client[u]} /\ GetsClient(u, NoClient)
    /\ starting' = TRUE
    /\ PoolStep(u, "recycling") /\ NoBroadcast(u)
    /\ UNCHANGED <<demucsClosed, parked>>

\* mutant: a worn daemon may go back as well
ParkWorn(u) ==
    /\ step[u] = "releasing" /\ ~demucsClosed
    /\ parked' = Append(parked, client[u]) /\ GetsClient(u, NoClient)
    /\ PoolStep(u, After(u)) /\ Broadcast(u)
    /\ UNCHANGED <<demucsClosed, clients, starting, daemonVars>>

\* A daemon goes back dead or alive.
Park(u) ==
    /\ step[u] = "releasing" /\ ~demucsClosed /\ tasks[client[u]] < TasksPerClient
    /\ parked' = Append(parked, client[u]) /\ GetsClient(u, NoClient)
    /\ PoolStep(u, After(u)) /\ Broadcast(u)
    /\ UNCHANGED <<demucsClosed, clients, starting, daemonVars>>

CloseDemucs ==
    /\ ~demucsClosed /\ demucsClosed' = TRUE
    /\ Ends(clients) /\ clients' = {} /\ parked' = <<>>
    /\ woken' = {v \in DemucsUsers : step[v] = "waiting"}
    /\ UNCHANGED <<slotVars, starting, step, client, ended>> /\ NoDemucsFault

ContextEnds(u) ==
    /\ step[u] # "out" /\ u \notin ended /\ ended' = ended \cup {u}
    /\ DemucsFault
    /\ UNCHANGED <<slotVars, registryVars, daemonVars, step, client, woken>>

DaemonDies(d) ==
    /\ d \in running /\ running' = running \ {d}
    /\ DemucsFault
    /\ UNCHANGED <<slotVars, registryVars, alive, tasks, pipe, step, client, woken, ended>>

DemucsNext ==
    \/ \E u \in DemucsUsers :
          \/ Begins(u) \/ TakeSlot(u) \/ WaitForSlot(u) \/ SlotExpired(u) \/ ReleaseSlot(u)
          \/ AcquireClient(u) \/ Spawned(u) \/ SpawnedTooLate(u) \/ SpawnFails(u)
          \/ Asks(u) \/ CannotAsk(u) \/ Hears(u) \/ GivesUp(u)
          \/ ReleaseClosed(u) \/ Recycle(u) \/ Park(u) \/ ContextEnds(u)
    \/ \E d \in Clients : Works(d) \/ WorkFails(d) \/ DaemonDies(d)
    \/ LowerLimit \/ CloseDemucs

DemucsSpec == DemucsInit /\ [][DemucsNext]_demucsVars

(***************************************************************************)
(* Properties.                                                             *)
(***************************************************************************)

\* Types of the pool and the semaphore; a daemon never serves more than its share.
DemucsTypeOK ==
    /\ limit \in Nat \ {0} /\ inUse \in Nat /\ notified \subseteq Sleeping
    /\ demucsClosed \in BOOLEAN /\ clients \subseteq Clients /\ parked \in Seq(Clients)
    /\ starting \in BOOLEAN /\ running \subseteq Clients /\ alive \subseteq Clients
    /\ tasks \in [Clients -> 0..TasksPerClient]
    /\ pipe \in [Clients -> {"quiet", "asked", "answered", "refused"}]
    /\ step \in [DemucsUsers -> Steps] /\ client \in [DemucsUsers -> Clients \cup {NoClient}]
    /\ \A u \in DemucsUsers : step[u] \in HoldingClient <=> client[u] # NoClient
    /\ woken \subseteq {u \in DemucsUsers : step[u] = "waiting"} /\ ended \subseteq DemucsUsers
    /\ demucsFaults \in 0..MaxDemucsFaults

\* There is one place for a daemon on the GPU: it is listed, parked, held or being started,
\* by one goroutine at a time, whatever restarts, recycling and Prewarm do
\* (demucs_daemon.go:535-563, 593-608).
OneGPUPlace ==
    /\ Cardinality(clients) + Cardinality({u \in DemucsUsers : Starting(u)}) <= 1
    /\ starting <=> \E u \in DemucsUsers : Starting(u)
    /\ Cardinality(running) <= 1
    /\ ~demucsClosed => clients = Parked \cup (HeldClients \ {NoClient})
    /\ Parked \cap HeldClients = {}

\* Nobody sleeps through a change: a waiter that has not been woken waits for a start or
\* for a holder, who will broadcast; one that waits for a slot waits for an owner of it.
\* The slots in use are those of the separations under way, over a lowered limit or not
\* (semaphore.go:50-92, demucs_daemon.go:499-507, 571-576).
NoForgottenWaiter ==
    /\ inUse = Cardinality({u \in Separators : step[u] \notin {"out", "queueing", "sleeping"}})
    /\ \A u \in DemucsUsers :
          /\ step[u] = "waiting" /\ u \notin woken =>
                ~demucsClosed /\ (starting \/ \E v \in DemucsUsers : step[v] \in HoldingClient)
          /\ step[u] = "sleeping" /\ u \notin notified => inUse >= limit

\* After Close no process lives, those held by a caller and those that were starting
\* included (demucs_daemon.go:485, 587, 656).
ClosedIsDead == demucsClosed => running = {}
=============================================================================
