----------------------------- MODULE WorkerPool -----------------------------
(***************************************************************************)
(* The pool of persistent feature daemons (dispatcher/daemon_pool.go), its *)
(* clients (dispatcher/daemon.go) and the Python processes they talk to    *)
(* (worker_cpu_daemon.py, worker_gpu_daemon.py).                           *)
(*                                                                         *)
(* A lane acquires a daemon, sends it one request and releases it.  A      *)
(* process is started outside the pool's mutex, by a goroutine that does   *)
(* not see the context of the caller; a daemon retires after maxRecycle    *)
(* requests, which the Go client and the Python loop count separately.     *)
(***************************************************************************)
EXTENDS Naturals, Sequences, FiniteSets

CONSTANTS
    Lanes,          \* goroutines that acquire, call and release, again and again
    Warmers,        \* goroutines of Prewarm, called at the start: one slot each
    Daemons,        \* names of processes; a name is used again when nobody knows it
    maxDaemons,     \* capacity of the pool
    maxRecycle,     \* 100 in the code
    MaxPoolFaults,  \* bound: contexts that end, failed starts, crashes, failed requests
    NoDaemon

Goroutines == Lanes \cup Warmers

ASSUME WorkerPoolAssumption ==
    /\ maxDaemons \in Nat \ {0}
    /\ maxRecycle \in Nat \ {0}
    /\ MaxPoolFaults \in Nat
    /\ Lanes \cap Warmers = {}
    /\ NoDaemon \notin Daemons

VARIABLES
    poolClosed,     \* p.closed
    idle,           \* p.daemons, a buffered channel
    all,            \* p.allDaemons
    spawning,       \* p.spawningCount
    process,        \* process[d]: starting, running or gone
    shut,           \* shut[d]: client.closed
    taskCount,      \* taskCount[d]: the client's count
    served,         \* served[d]: task_count of the Python loop
    wire,           \* wire[d]: the request or the answer in the pipes
    at,             \* at[g]: where the goroutine is
    has,            \* has[g]: its daemon
    expired,        \* goroutines whose context is done
    closing,        \* daemons that Close or TrimIdle has still to close
    abandoned,      \* history: starts whose caller went away
    poolFaults
clientVars == <<process, shut, taskCount, served, wire>>
bookVars == <<poolClosed, idle, all, spawning, closing>>
poolVars == <<bookVars, clientVars, at, has, expired, abandoned, poolFaults>>

Processes == {"starting", "running", "gone"}
Requests == [state : {"extract", "cleanup"}, by : Goroutines]
Answers == [state : {"done", "cleaned", "failed", "uncleaned"}, by : Goroutines]
Quiet == [state |-> "quiet", by |-> NoDaemon]
Wires == Requests \cup Answers \cup {Quiet}
GoroutineAt ==
    {"away", "looking", "checking", "retiring", "waiting", "spawning", "registered",
     "holding", "calling", "releasing"}
\* The places where a goroutine has a daemon in its hands.
Holding == {"checking", "retiring", "spawning", "registered", "holding", "calling", "releasing"}

PoolInit ==
    /\ poolClosed = FALSE /\ idle = <<>> /\ all = {} /\ spawning = 0 /\ closing = {}
    /\ process = [d \in Daemons |-> "gone"]
    /\ shut = [d \in Daemons |-> TRUE]
    /\ taskCount = [d \in Daemons |-> 0]
    /\ served = [d \in Daemons |-> 0]
    /\ wire = [d \in Daemons |-> Quiet]
    /\ at = [g \in Goroutines |-> IF g \in Lanes THEN "away" ELSE "looking"]
    /\ has = [g \in Goroutines |-> NoDaemon]
    /\ expired = {} /\ abandoned = {} /\ poolFaults = 0

Idle == {idle[i] : i \in 1..Len(idle)}
Held == {has[g] : g \in Goroutines}
Healthy(d) == ~shut[d] /\ taskCount[d] < maxRecycle
Room == Cardinality(all) + spawning < maxDaemons

Move(g, here, there) == at[g] = here /\ at' = [at EXCEPT ![g] = there]
Takes(g, d) == has' = [has EXCEPT ![g] = d]
\* The goroutine returns to its caller without a daemon; its context goes with it.
Leaves(g, here) == Move(g, here, "away") /\ Takes(g, NoDaemon) /\ expired' = expired \ {g}
PoolFault == poolFaults < MaxPoolFaults /\ poolFaults' = poolFaults + 1
NoPoolFault == UNCHANGED <<abandoned, poolFaults>>

\* closeLocked: the pipes are closed and the process is killed and reaped.  The counts of a
\* closed client are never read again; they are reset here.
Kill(D) ==
    /\ shut' = [d \in Daemons |-> shut[d] \/ d \in D]
    /\ process' = [d \in Daemons |-> IF d \in D THEN "gone" ELSE process[d]]
    /\ wire' = [d \in Daemons |-> IF d \in D THEN Quiet ELSE wire[d]]
    /\ taskCount' = [d \in Daemons |-> IF d \in D THEN 0 ELSE taskCount[d]]
    /\ served' = [d \in Daemons |-> IF d \in D THEN 0 ELSE served[d]]

(***************************************************************************)
(* Acquire.                                                                *)
(***************************************************************************)
StartCall(g) ==
    /\ g \in Lanes /\ Move(g, "away", "looking")
    /\ UNCHANGED <<bookVars, clientVars, has, expired>> /\ NoPoolFault

FailClosed(g) ==
    /\ poolClosed /\ Leaves(g, "looking")
    /\ UNCHANGED <<bookVars, clientVars>> /\ NoPoolFault

\* mutant: the daemon is handed out and stays in the channel
PeekIdle(g) ==
    /\ ~poolClosed /\ g \in Lanes
    /\ Move(g, "looking", "checking")
    /\ idle # <<>> /\ Takes(g, Head(idle))
    /\ UNCHANGED <<bookVars, clientVars, expired>> /\ NoPoolFault

\* Case 1: an idle daemon leaves the channel under the mutex, unexamined.
TakeIdle(g) ==
    /\ ~poolClosed /\ g \in Lanes
    /\ Move(g, "looking", "checking")
    /\ idle # <<>> /\ Takes(g, Head(idle)) /\ idle' = Tail(idle)
    /\ UNCHANGED <<poolClosed, all, spawning, closing, clientVars, expired>> /\ NoPoolFault

Fresh == {d \in Daemons \ (all \cup closing \cup Idle \cup Held) : process[d] = "gone"}

\* Case 2, or spawnSlot, which does not look for an idle daemon: a slot is reserved.
Reserve(g) ==
    /\ ~poolClosed /\ (g \in Lanes => idle = <<>>) /\ Room
    /\ Move(g, "looking", "spawning")
    /\ spawning' = spawning + 1
    /\ Fresh # {}
    /\ LET d == CHOOSE f \in Fresh : TRUE
       IN /\ Takes(g, d)
          /\ process' = [process EXCEPT ![d] = "starting"]
          /\ shut' = [shut EXCEPT ![d] = FALSE]
          /\ abandoned' = abandoned \ {d}
    /\ UNCHANGED <<poolClosed, idle, all, closing, taskCount, served, wire, expired, poolFaults>>

\* spawnSlot finds the pool full.
WarmerFull(g) ==
    /\ g \in Warmers /\ ~poolClosed /\ ~Room /\ Leaves(g, "looking")
    /\ UNCHANGED <<bookVars, clientVars>> /\ NoPoolFault

\* Case 3: the mutex is released and the caller waits on the channel and its context.
Wait(g) ==
    /\ g \in Lanes /\ ~poolClosed /\ idle = <<>> /\ ~Room
    /\ Move(g, "looking", "waiting")
    /\ UNCHANGED <<bookVars, clientVars, has, expired>> /\ NoPoolFault

\* What is buffered in a closed channel is still received.
WaitTake(g) ==
    /\ Move(g, "waiting", "checking")
    /\ idle # <<>> /\ Takes(g, Head(idle)) /\ idle' = Tail(idle)
    /\ UNCHANGED <<poolClosed, all, spawning, closing, clientVars, expired>> /\ NoPoolFault

WaitClosed(g) ==
    /\ poolClosed /\ idle = <<>> /\ Leaves(g, "waiting")
    /\ UNCHANGED <<bookVars, clientVars>> /\ NoPoolFault

WaitExpired(g) ==
    /\ g \in expired /\ Leaves(g, "waiting")
    /\ UNCHANGED <<bookVars, clientVars>> /\ NoPoolFault

CheckHealthy(g) ==
    /\ at[g] = "checking" /\ Healthy(has[g])
    /\ Move(g, "checking", "holding")
    /\ UNCHANGED <<bookVars, clientVars, has, expired>> /\ NoPoolFault

\* client.Close, outside the pool's mutex
CheckDead(g) ==
    /\ at[g] = "checking" /\ ~Healthy(has[g])
    /\ Move(g, "checking", "retiring") /\ Kill({has[g]})
    /\ UNCHANGED <<bookVars, has, expired>> /\ NoPoolFault

\* removeDaemon, and the loop of Acquire starts again
Forget(g) ==
    /\ Move(g, "retiring", "looking") /\ Takes(g, NoDaemon)
    /\ all' = all \ {has[g]}
    /\ UNCHANGED <<poolClosed, idle, spawning, closing, clientVars, expired>> /\ NoPoolFault

Acquire(g) ==
    \/ StartCall(g) \/ FailClosed(g) \/ TakeIdle(g) \/ Reserve(g) \/ WarmerFull(g) \/ Wait(g)
    \/ WaitTake(g) \/ WaitClosed(g) \/ WaitExpired(g)
    \/ CheckHealthy(g) \/ CheckDead(g) \/ Forget(g)

(***************************************************************************)
(* doSpawn: the process starts in a goroutine of its own.                  *)
(***************************************************************************)
ProcessReady(d) ==
    /\ process[d] = "starting" /\ process' = [process EXCEPT ![d] = "running"]
    /\ UNCHANGED <<bookVars, shut, taskCount, served, wire, at, has, expired>> /\ NoPoolFault

\* No process, a wrong ready line, or the handshake's timeout: the start closes the client.
ProcessFails(d) ==
    /\ process[d] = "starting" /\ Kill({d})
    /\ PoolFault /\ UNCHANGED <<bookVars, at, has, expired, abandoned>>

\* The context ends first: the slot is free again, the start goes on and nobody reads resCh.
SpawnExpired(g) ==
    /\ g \in expired /\ Leaves(g, "spawning")
    /\ spawning' = spawning - 1
    /\ abandoned' = abandoned \cup {has[g]}
    /\ UNCHANGED <<poolClosed, idle, all, closing, clientVars, poolFaults>>

\* mutant: the error branch gives the slot back as well as the deferred function
SpawnFailedTwice(g) ==
    /\ at[g] = "spawning" /\ process[has[g]] = "gone" /\ shut[has[g]]
    /\ Leaves(g, "spawning")
    /\ spawning' = spawning - 2
    /\ UNCHANGED <<poolClosed, idle, all, closing, clientVars>> /\ NoPoolFault

SpawnFailed(g) ==
    /\ at[g] = "spawning" /\ process[has[g]] = "gone" /\ shut[has[g]]
    /\ Leaves(g, "spawning")
    /\ spawning' = spawning - 1
    /\ UNCHANGED <<poolClosed, idle, all, closing, clientVars>> /\ NoPoolFault

Started(d) == process[d] # "starting" /\ ~shut[d]

SpawnClosed(g) ==
    /\ at[g] = "spawning" /\ Started(has[g]) /\ poolClosed
    /\ Leaves(g, "spawning") /\ Kill({has[g]})
    /\ spawning' = spawning - 1
    /\ UNCHANGED <<poolClosed, idle, all, closing>> /\ NoPoolFault

\* mutant: a daemon that was started after Close joins the pool
SpawnRegisterAlways(g) ==
    /\ at[g] = "spawning" /\ Started(has[g])
    /\ Move(g, "spawning", "registered")
    /\ all' = all \cup {has[g]}
    /\ UNCHANGED <<poolClosed, idle, spawning, closing, clientVars, has, expired>> /\ NoPoolFault

\* The daemon is listed, and its reservation is still counted.
SpawnRegister(g) ==
    /\ at[g] = "spawning" /\ Started(has[g]) /\ ~poolClosed
    /\ Move(g, "spawning", "registered")
    /\ all' = all \cup {has[g]}
    /\ UNCHANGED <<poolClosed, idle, spawning, closing, clientVars, has, expired>> /\ NoPoolFault

\* The deferred decrement.  Prewarm goes on to Release.
Unreserve(g) ==
    /\ Move(g, "registered", IF g \in Lanes THEN "holding" ELSE "releasing")
    /\ spawning' = spawning - 1
    /\ UNCHANGED <<poolClosed, idle, all, closing, clientVars, has, expired>> /\ NoPoolFault

Spawn(g) ==
    SpawnExpired(g) \/ SpawnFailed(g) \/ SpawnClosed(g) \/ SpawnRegister(g) \/ Unreserve(g)

(***************************************************************************)
(* One request.  The client's mutex is held from the write to the answer.  *)
(***************************************************************************)
Answered(g) == wire[has[g]].state \in {"done", "cleaned", "failed", "uncleaned"}

\* A write into the pipe of a process that is gone fails and closes the client.
Send(g) ==
    /\ at[g] = "holding" /\ g \notin expired /\ ~shut[has[g]] /\ process[has[g]] = "running"
    /\ Move(g, "holding", "calling")
    /\ \E action \in {"extract", "cleanup"} :
          wire' = [wire EXCEPT ![has[g]] = [state |-> action, by |-> g]]
    /\ UNCHANGED <<bookVars, process, shut, taskCount, served, has, expired>> /\ NoPoolFault

SendFails(g) ==
    /\ at[g] = "holding" /\ g \notin expired /\ ~shut[has[g]] /\ process[has[g]] = "gone"
    /\ Move(g, "holding", "releasing") /\ Kill({has[g]})
    /\ UNCHANGED <<bookVars, has, expired>> /\ NoPoolFault

\* The context is done before the write, or Close has closed the client.
Refuse(g) ==
    /\ at[g] = "holding" /\ (g \in expired \/ shut[has[g]])
    /\ Move(g, "holding", "releasing")
    /\ UNCHANGED <<bookVars, clientVars, has, expired>> /\ NoPoolFault

\* The loop answers, counts the request, and ends itself at the limit.
ServeExtract(d) ==
    /\ wire[d].state = "extract" /\ process[d] = "running"
    /\ wire' = [wire EXCEPT ![d].state = "done"]
    /\ served' = [served EXCEPT ![d] = @ + 1]
    /\ process' = [process EXCEPT ![d] = IF served[d] + 1 >= maxRecycle THEN "gone" ELSE @]
    /\ UNCHANGED <<bookVars, shut, taskCount, at, has, expired>> /\ NoPoolFault

\* The GPU daemon's cache cleanup is not counted.
ServeCleanup(d) ==
    /\ wire[d].state = "cleanup" /\ process[d] = "running"
    /\ wire' = [wire EXCEPT ![d].state = "cleaned"]
    /\ UNCHANGED <<bookVars, process, shut, taskCount, served, at, has, expired>> /\ NoPoolFault

\* An exception in the handler is answered with status error and not counted.
ServeFails(d) ==
    /\ wire[d].state \in {"extract", "cleanup"} /\ process[d] = "running"
    /\ wire' = [wire EXCEPT ![d].state = IF @ = "extract" THEN "failed" ELSE "uncleaned"]
    /\ PoolFault
    /\ UNCHANGED <<bookVars, process, shut, taskCount, served, at, has, expired, abandoned>>

\* mutant: the client does not count what it receives
ReceiveUncounted(g) ==
    /\ at[g] = "calling" /\ wire[has[g]].state \in {"done", "cleaned", "failed"}
    /\ Move(g, "calling", "releasing")
    /\ wire' = [wire EXCEPT ![has[g]] = Quiet]
    /\ UNCHANGED <<bookVars, process, shut, taskCount, served, has, expired>> /\ NoPoolFault

\* An answer.  An extraction that failed leaves the daemon in service, uncounted.
Receive(g) ==
    /\ at[g] = "calling" /\ wire[has[g]].state \in {"done", "cleaned", "failed"}
    /\ Move(g, "calling", "releasing")
    /\ wire' = [wire EXCEPT ![has[g]] = Quiet]
    /\ taskCount' = [taskCount EXCEPT ![has[g]] = IF wire[has[g]].state = "failed" THEN @ ELSE @ + 1]
    /\ UNCHANGED <<bookVars, process, shut, served, has, expired>> /\ NoPoolFault

\* A failed cleanup, or the end of the pipe, closes the client.
ReceiveBad(g) ==
    /\ at[g] = "calling"
    /\ wire[has[g]].state = "uncleaned" \/ (~Answered(g) /\ process[has[g]] = "gone")
    /\ Move(g, "calling", "releasing") /\ Kill({has[g]})
    /\ UNCHANGED <<bookVars, has, expired>> /\ NoPoolFault

\* mutant: the daemon of a timed-out call goes back with its answer still to come
CallExpiredAlive(g) ==
    /\ at[g] = "calling" /\ g \in expired
    /\ Move(g, "calling", "releasing")
    /\ UNCHANGED <<bookVars, clientVars, has, expired>> /\ NoPoolFault

\* The context ends during the call: the daemon is closed, whatever it was about to answer.
CallExpired(g) ==
    /\ at[g] = "calling" /\ g \in expired
    /\ Move(g, "calling", "releasing") /\ Kill({has[g]})
    /\ UNCHANGED <<bookVars, has, expired>> /\ NoPoolFault

Call(g) ==
    Send(g) \/ SendFails(g) \/ Refuse(g) \/ Receive(g) \/ ReceiveBad(g) \/ CallExpired(g)
Serve(d) == ServeExtract(d) \/ ServeCleanup(d)

(***************************************************************************)
(* Release, TrimIdle and Close.                                            *)
(***************************************************************************)
Unfit(d) == poolClosed \/ ~Healthy(d) \/ Len(idle) >= maxDaemons

PutBack(g) ==
    /\ Leaves(g, "releasing")
    /\ \/ /\ Unfit(has[g])
          /\ Kill({has[g]}) /\ all' = all \ {has[g]} /\ UNCHANGED idle
       \/ /\ ~Unfit(has[g])
          /\ idle' = Append(idle, has[g]) /\ UNCHANGED <<all, clientVars>>
    /\ UNCHANGED <<poolClosed, spawning, closing>> /\ NoPoolFault

\* TrimIdle: the feeder trims the CPU pool to one daemon when the queue is empty, the stage
\* and the feature join trim the GPU pool to none.
Trim(minRetain) ==
    /\ ~poolClosed /\ Len(idle) > minRetain
    /\ LET n == Len(idle) - minRetain
           out == {idle[i] : i \in 1..n}
       IN /\ idle' = SubSeq(idle, n + 1, Len(idle))
          /\ all' = all \ out /\ closing' = closing \cup out
    /\ UNCHANGED <<poolClosed, spawning, clientVars, at, has, expired>> /\ NoPoolFault

\* mutant: the registry is dropped before it is copied
ClosePoolForgets ==
    /\ ~poolClosed /\ poolClosed' = TRUE
    /\ all' = {}
    /\ UNCHANGED <<idle, spawning, closing, clientVars, at, has, expired>> /\ NoPoolFault

ClosePool ==
    /\ ~poolClosed /\ poolClosed' = TRUE
    /\ closing' = closing \cup all /\ all' = {}
    /\ UNCHANGED <<idle, spawning, clientVars, at, has, expired>> /\ NoPoolFault

InCall(d) == \E g \in Goroutines : at[g] = "calling" /\ has[g] = d

\* client.Close waits for the client's mutex.
CloseOne(d) ==
    /\ d \in closing /\ ~InCall(d)
    /\ closing' = closing \ {d} /\ Kill({d})
    /\ UNCHANGED <<poolClosed, idle, all, spawning, at, has, expired>> /\ NoPoolFault

(***************************************************************************)
(* Faults of the surroundings.                                             *)
(***************************************************************************)
Expire(g) ==
    /\ at[g] # "away" /\ g \notin expired /\ expired' = expired \cup {g}
    /\ PoolFault /\ UNCHANGED <<bookVars, clientVars, at, has, abandoned>>

CrashProcess(d) ==
    /\ process[d] = "running" /\ process' = [process EXCEPT ![d] = "gone"]
    /\ PoolFault
    /\ UNCHANGED <<bookVars, shut, taskCount, served, wire, at, has, expired, abandoned>>

PoolNext ==
    \/ \E g \in Goroutines : Acquire(g) \/ Spawn(g) \/ Call(g) \/ PutBack(g) \/ Expire(g)
    \/ \E d \in Daemons :
          ProcessReady(d) \/ ProcessFails(d) \/ Serve(d) \/ ServeFails(d) \/ CloseOne(d)
             \/ CrashProcess(d)
    \/ \E minRetain \in {0, 1} : Trim(minRetain)
    \/ ClosePool

PoolSpec == PoolInit /\ [][PoolNext]_poolVars

\* A goroutine inside a call goes on when it can; a process becomes ready or fails within
\* the handshake's 30 s, and answers or has its context ended; Close goes through its list.
PoolFairness ==
    /\ \A g \in Goroutines :
          WF_poolVars((Acquire(g) /\ at[g] # "away") \/ Spawn(g) \/ Call(g) \/ PutBack(g))
    /\ \A d \in Daemons :
          /\ WF_poolVars(ProcessReady(d))
          /\ WF_poolVars(Serve(d))
          /\ WF_poolVars(CloseOne(d))

\* A goroutine blocked in a receive gets what is sent next, before any that come later.
PoolHandOff == \A g \in Lanes : SF_poolVars(WaitTake(g))

(***************************************************************************)
(* Properties.                                                             *)
(***************************************************************************)

\* Types of the pool; the counter of reservations never goes below zero
\* (daemon_pool.go: spawningCount).
PoolTypeOK ==
    /\ poolClosed \in BOOLEAN /\ idle \in Seq(Daemons) /\ all \subseteq Daemons
    /\ spawning \in Nat /\ closing \subseteq Daemons
    /\ process \in [Daemons -> Processes] /\ shut \in [Daemons -> BOOLEAN]
    /\ taskCount \in [Daemons -> Nat] /\ served \in [Daemons -> Nat]
    /\ wire \in [Daemons -> Wires]
    /\ at \in [Goroutines -> GoroutineAt] /\ has \in [Goroutines -> Daemons \cup {NoDaemon}]
    /\ \A g \in Goroutines : at[g] \in Holding <=> has[g] # NoDaemon
    /\ expired \subseteq Goroutines /\ abandoned \subseteq Daemons
    /\ poolFaults \in 0..MaxPoolFaults

\* No daemon is in two pairs of hands, in the channel twice, or in the channel and in hands:
\* the pipes have one user (Acquire and Release, daemon_pool.go:88-222).
OneUser ==
    /\ \A g, h \in Goroutines : has[g] = has[h] /\ has[g] # NoDaemon => g = h
    /\ \A i, j \in 1..Len(idle) : idle[i] = idle[j] => i = j
    /\ Idle \cap Held = {}

\* Until Close the registry is what is idle or in hands, and it stays empty afterwards; the
\* reservations are the starts under way; together they never exceed the capacity.  A process
\* that no book names and nobody holds is one whose start was given up by a caller whose
\* context ended: no other path leaks one (daemon_pool.go:88-291, above all 181-196).
BooksMatch ==
    /\ spawning = Cardinality({g \in Goroutines : at[g] \in {"spawning", "registered"}})
    /\ ~poolClosed =>
          /\ all = Idle \cup {has[g] : g \in {h \in Goroutines : at[h] \in Holding \ {"spawning"}}}
          /\ Cardinality(all) + Cardinality({g \in Goroutines : at[g] = "spawning"}) <= maxDaemons
    /\ poolClosed => all = {}
    /\ \A d \in Daemons :
          process[d] # "gone" => d \in all \cup closing \cup Held \cup abandoned

\* A Python loop that has ended itself at its limit is never handed out again: the client's
\* own count reaches the limit with the answer it is reading (daemon.go:403, 468;
\* worker_cpu_daemon.py:112).
RetirementIsSeen ==
    \A d \in Daemons :
        served[d] >= maxRecycle /\ wire[d] = Quiet => ~Healthy(d)

\* Whatever is in the pipes of a daemon belongs to the goroutine that waits for it: the
\* answer's id is never compared, so a late answer would be taken for the next one
\* (daemon.go:372-391).
AnswersAreAwaited ==
    \A d \in Daemons :
        wire[d] # Quiet => at[wire[d].by] = "calling" /\ has[wire[d].by] = d

\* After Close every process is ended, except those whose start was abandoned.
CloseEnds ==
    poolClosed ~> \A d \in Daemons \ abandoned : process[d] = "gone"

\* What the comment of Acquire promises (daemon_pool.go:87): a caller that waits gets a
\* daemon, "spawning a new one if necessary", unless its context or the pool ends.
WaitersAreServed ==
    \A g \in Lanes :
        at[g] = "waiting" ~> (at[g] # "waiting" \/ g \in expired \/ poolClosed)
=============================================================================
