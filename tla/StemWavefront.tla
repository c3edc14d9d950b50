--------------------------- MODULE StemWavefront ---------------------------
(***************************************************************************)
(* One run of executeDemucsStage: the storage, slot, lease, daemon and GPU *)
(* it takes, the goroutine that reads the daemon's events, the wavefront   *)
(* whose lane consumers analyse each stem as soon as it is published, and  *)
(* the join, cleanup and error paths that end the stage                    *)
(* (dispatcher/pipeline_demucs.go, stem_lifecycle.go, demucs_daemon.go,    *)
(* pipeline_features.go), in the shared-memory mode.                       *)
(*                                                                         *)
(* An error is "retry" when it wraps ErrRetryableTimeout and "error" when  *)
(* it does not: the pipeline parks the task for the first and fails it for *)
(* the second.                                                             *)
(***************************************************************************)
EXTENDS Integers, Sequences, FiniteSets

CONSTANTS
    Stems,          \* the requested stems
    CPUConsumers,   \* the consumers of the CPU lane
    GPUConsumer,    \* the one consumer of the GPU lane
    MaxFaults,      \* bound: failures, timeouts and cancellations of a behaviour
    None            \* "no stem", "no error", "nobody"

ASSUME StemWavefrontAssumption ==
    /\ IsFiniteSet(Stems) /\ Stems # {}
    /\ None \notin Stems \cup {GPUConsumer, "stage", "retry", "error", "ok"}
    /\ IsFiniteSet(CPUConsumers) /\ CPUConsumers # {}
    /\ GPUConsumer \notin CPUConsumers
    /\ GPUConsumer # "stage"
    /\ MaxFaults \in Nat

Consumers == CPUConsumers \cup {GPUConsumer}
LaneOf(c) == IF c = GPUConsumer THEN "gpu" ELSE "cpu"
Lanes == {"cpu", "gpu"}

VARIABLES
    \* executeDemucsStage
    pc,         \* where the stage is
    held,       \* held[r]: times it has taken resource r, less times it has given it back
    deferred,   \* resources with a deferred release whose ...Released flag is not set
    arbiter,    \* who holds the GPU arbiter: "stage", GPUConsumer or None
    sepErr, waveErr, cleanupErr,    \* its local errors
    result,     \* what it returned: "ok", "retry" or "error", None before
    \* SeparateWithEvents
    reader,     \* [pc, stem, seen]: the reader goroutine; seen: the stems it has read
    answer,     \* what it left in respChan or errChan: [err, stems], or None
    \* the contexts and the lifecycle
    done,       \* contexts that are done: "demucs", "post", "wave"
    cause,      \* the cause of waveCtx, once done
    afterFunc,  \* failAll: "unset", "armed" or "over"
    stem,       \* stem[s]: [state, refs, acquired]
    frozen,     \* stems whose arena is read-only
    \* stemWavefront
    jobs,       \* jobs[lane]: cpuJobs and gpuJobs
    closed,     \* CloseInput has closed them
    published,  \* the published map
    features,   \* features[lane]: the stems merged into the lane's response
    err,        \* w.err
    consumer,   \* consumer[c]: [pc, stem, err]
    panicked,   \* a goroutine has sent on a closed channel, which ends the process
    faults

holds == <<held, deferred>>
stage == <<pc, held, deferred, sepErr, waveErr, cleanupErr, result>>
daemon == <<reader, answer>>
contexts == <<done, cause, afterFunc>>
wave == <<jobs, closed, published, features, err>>
vars == <<pc, held, deferred, arbiter, sepErr, waveErr, cleanupErr, result, reader, answer,
          done, cause, afterFunc, stem, frozen, jobs, closed, published, features, err,
          consumer, panicked, faults>>

ErrorClass == {"retry", "error"}
Resources == {"arena", "slot", "lease", "daemon", "gpu"}
StagePC == {"alloc", "slot", "lease", "daemon", "wave", "arbiter", "separate", "release",
            "fail", "close", "wait", "cleanup", "cleaning", "finish", "returned"}
ReaderPC == {"off", "read", "freeze", "publish", "ready", "cpu", "gpu", "gone"}
ConsumerPC == {"off", "select", "acquire", "arbiter", "run", "release", "gone"}
StemState == {"pending", "frozen", "consuming", "released", "failed"}
ReadersPerStem == 2

IdleReader == [pc |-> "off", stem |-> None, seen |-> {}]
IdleConsumer == [pc |-> "off", stem |-> None, err |-> None]

Init ==
    /\ pc = "alloc" /\ arbiter = None
    /\ held = [r \in Resources |-> 0] /\ deferred = {}
    /\ sepErr = None /\ waveErr = None /\ cleanupErr = None /\ result = None
    /\ reader = IdleReader /\ answer = None
    /\ done = {} /\ cause = None /\ afterFunc = "unset"
    /\ stem = [s \in Stems |-> [state |-> "pending", refs |-> 0, acquired |-> 0]]
    /\ frozen = {}
    /\ jobs = [l \in Lanes |-> <<>>] /\ closed = FALSE
    /\ published = {} /\ features = [l \in Lanes |-> {}] /\ err = None
    /\ consumer = [c \in Consumers |-> IdleConsumer]
    /\ panicked = FALSE /\ faults = 0

Fault == faults < MaxFaults /\ faults' = faults + 1
NoFault == UNCHANGED faults

\* Cancelling waveCtx; only the first cause counts.
Cancel(e) ==
    /\ done' = done \cup {"wave"}
    /\ cause' = IF "wave" \in done THEN cause ELSE e
    /\ UNCHANGED afterFunc

\* stemWavefront.fail: the first error is kept and the lifecycle is cancelled.
Fail(e) ==
    /\ err' = IF err = None THEN e ELSE err
    /\ Cancel(e)

(***************************************************************************)
(* The stage.  Every early return gives back by hand what no defer covers: *)
(* the arenas (closeArenaOnError) and, until the separation has run, the   *)
(* Demucs process.  The slot, the lease and the GPU have defers.           *)
(***************************************************************************)
StageStep(here) ==
    /\ ~panicked /\ pc = here
    /\ UNCHANGED <<stem, published, features, jobs, panicked>>

Goto(there) == pc' = there /\ UNCHANGED result
Take(resource) == held' = [held EXCEPT ![resource] = @ + 1]
Takes(resource, there) == Take(resource) /\ UNCHANGED deferred /\ Goto(there)
TakesDeferred(resource, there) ==
    Take(resource) /\ deferred' = deferred \cup {resource} /\ Goto(there)

\* arenaSet.  A second closeArenaOnError finds none.
ArenaOpen == held["arena"] > 0
Returnable(given) == IF ArenaOpen THEN given ELSE given \ {"arena"}
Less(rs, r) == IF r \in rs THEN 1 ELSE 0

\* return, after the statement has given back `given': then the defers run.
\* lifecycle.Close disarms failAll first.
Return(e, given) ==
    /\ pc' = "returned"
    /\ result' = IF e = None THEN "ok" ELSE e
    /\ held' = [r \in Resources |-> held[r] - Less(Returnable(given), r) - Less(deferred, r)]
    /\ deferred' = {}
    /\ arbiter' = IF "gpu" \in deferred THEN None ELSE arbiter
    /\ frozen' = IF "arena" \in given THEN {} ELSE frozen
    /\ done' = {"demucs", "post", "wave"}
    /\ cause' = IF "wave" \in done THEN cause ELSE "error"
    /\ afterFunc' = IF "wave" \in done THEN afterFunc ELSE "over"

AllocateArena ==
    /\ StageStep("alloc")
    /\ \/ NoFault /\ Takes("arena", "slot") /\ UNCHANGED <<arbiter, frozen, contexts>>
       \/ (Fault \/ ("demucs" \in done /\ NoFault)) /\ Return("error", {"arena"})
    /\ UNCHANGED <<sepErr, waveErr, cleanupErr, daemon, closed, err, consumer>>

AcquireSlot ==
    /\ StageStep("slot")
    /\ \/ NoFault /\ TakesDeferred("slot", "lease") /\ UNCHANGED <<arbiter, frozen, contexts>>
       \/ (Fault \/ ("demucs" \in done /\ NoFault)) /\ Return("retry", {"arena"})
    /\ UNCHANGED <<sepErr, waveErr, cleanupErr, daemon, closed, err, consumer>>

ReserveLease ==
    /\ StageStep("lease")
    /\ \/ NoFault /\ TakesDeferred("lease", "daemon")
          /\ UNCHANGED <<arbiter, frozen, contexts>>
       \/ Fault /\ Return("retry", {"arena"})
    /\ UNCHANGED <<sepErr, waveErr, cleanupErr, daemon, closed, err, consumer>>

AcquireDaemon ==
    /\ StageStep("daemon")
    /\ \/ /\ NoFault /\ "demucs" \notin done
          /\ Takes("daemon", "wave") /\ UNCHANGED <<arbiter, frozen, contexts>>
       \/ (Fault \/ ("demucs" \in done /\ NoFault)) /\ Return("error", {"arena"})
    /\ UNCHANGED <<sepErr, waveErr, cleanupErr, daemon, closed, err, consumer>>

\* The lifecycle and the wavefront: the consumers start before the stage has the GPU.
StartWave ==
    /\ StageStep("wave")
    /\ \/ /\ NoFault
          /\ Goto("arbiter")
          /\ afterFunc' = "armed"
          /\ consumer' = [c \in Consumers |-> [IdleConsumer EXCEPT !.pc = "select"]]
          /\ UNCHANGED <<holds, arbiter, frozen, done, cause>>
       \/ Fault /\ Return("error", {"daemon", "arena"}) /\ UNCHANGED consumer
    /\ UNCHANGED <<sepErr, waveErr, cleanupErr, daemon, closed, err>>

\* mutant: the return for want of the GPU keeps the Demucs process
AcquireArbiterOrKeepDaemon ==
    /\ StageStep("arbiter")
    /\ \/ /\ NoFault /\ arbiter = None
          /\ arbiter' = "stage" /\ TakesDeferred("gpu", "separate")
          /\ reader' = [reader EXCEPT !.pc = "read"]
          /\ UNCHANGED <<frozen, contexts>>
       \/ /\ Fault \/ ("demucs" \in done /\ NoFault)
          /\ \E e \in ErrorClass : Return(e, {"arena"})
          /\ UNCHANGED reader
    /\ UNCHANGED <<sepErr, waveErr, cleanupErr, answer, closed, err, consumer>>

\* A deadline makes the wait retryable, a cancelled parent does not.
AcquireArbiter ==
    /\ StageStep("arbiter")
    /\ \/ /\ NoFault /\ arbiter = None
          /\ arbiter' = "stage" /\ TakesDeferred("gpu", "separate")
          /\ reader' = [reader EXCEPT !.pc = "read"]
          /\ UNCHANGED <<frozen, contexts>>
       \/ /\ Fault \/ ("demucs" \in done /\ NoFault)
          /\ \E e \in ErrorClass : Return(e, {"daemon", "arena"})
          /\ UNCHANGED reader
    /\ UNCHANGED <<sepErr, waveErr, cleanupErr, answer, closed, err, consumer>>

\* SeparateWithEvents returns what its reader left, or kills the daemon when the context
\* is done; the reader may then still be in the middle of an event.
Separated ==
    /\ StageStep("separate")
    /\ \/ answer # None /\ sepErr' = answer.err
       \/ "demucs" \in done /\ sepErr' = "error"
    /\ Goto("release")
    /\ UNCHANGED <<holds, arbiter, waveErr, cleanupErr, daemon, contexts, frozen, closed, err,
                   consumer, faults>>

\* The explicit releases after the separation; each sets its flag, so that no defer
\* releases a second time.
GivesBack(rs) ==
    /\ held' = [r \in Resources |-> held[r] - Less(rs, r)]
    /\ deferred' = deferred \ rs

\* mutant: the GPU stays with the stage until the join
ReleaseCapacityButArbiter ==
    /\ StageStep("release")
    /\ GivesBack({"daemon", "slot", "lease"})
    /\ Goto("fail")
    /\ UNCHANGED <<arbiter, sepErr, waveErr, cleanupErr, daemon, contexts, frozen, closed,
                   err, consumer, faults>>

ReleaseCapacity ==
    /\ StageStep("release")
    /\ arbiter' = None
    /\ GivesBack({"gpu", "daemon", "slot", "lease"})
    /\ Goto("fail")
    /\ UNCHANGED <<sepErr, waveErr, cleanupErr, daemon, contexts, frozen, closed, err,
                   consumer, faults>>

FailWave ==
    /\ StageStep("fail")
    /\ \/ sepErr # None /\ Fail(sepErr)
       \/ sepErr = None /\ UNCHANGED <<err, contexts>>
    /\ Goto("close")
    /\ UNCHANGED <<holds, arbiter, sepErr, waveErr, cleanupErr, daemon, frozen, closed,
                   consumer, faults>>

CloseInput ==
    /\ StageStep("close")
    /\ closed' = TRUE
    /\ Goto("wait")
    /\ UNCHANGED <<holds, arbiter, sepErr, waveErr, cleanupErr, daemon, contexts, frozen, err,
                   consumer, faults>>

\* mutant: the join does not wait for the lanes
WaitForNobody ==
    /\ StageStep("wait")
    /\ waveErr' = IF err # None THEN err
                  ELSE IF "wave" \in done \/ published = {} THEN "error" ELSE None
    /\ Goto("cleanup")
    /\ UNCHANGED <<holds, arbiter, sepErr, cleanupErr, daemon, contexts, frozen, closed, err,
                   consumer, faults>>

\* Wait: every consumer has returned; a cause of waveCtx is never retryable by itself.
Wait ==
    /\ StageStep("wait")
    /\ \A c \in Consumers : consumer[c].pc = "gone"
    /\ waveErr' = IF err # None THEN err
                  ELSE IF "wave" \in done \/ published = {} THEN "error" ELSE None
    /\ Goto("cleanup")
    /\ UNCHANGED <<holds, arbiter, sepErr, cleanupErr, daemon, contexts, frozen, closed, err,
                   consumer, faults>>

\* The cleanup takes the arbiter, or gives up when another task has it until ctxPost is
\* done.
AcquireForCleanup ==
    /\ StageStep("cleanup")
    /\ \/ /\ arbiter = None /\ NoFault
          /\ arbiter' = "stage" /\ Takes("gpu", "cleaning") /\ UNCHANGED cleanupErr
       \/ /\ Fault \/ ("post" \in done /\ NoFault)
          /\ cleanupErr' = "error" /\ Goto("finish")
          /\ UNCHANGED <<arbiter, holds>>
    /\ UNCHANGED <<sepErr, waveErr, daemon, contexts, frozen, closed, err, consumer>>

CleanupGPU ==
    /\ StageStep("cleaning")
    /\ \/ NoFault /\ UNCHANGED cleanupErr
       \/ (Fault \/ ("post" \in done /\ NoFault)) /\ cleanupErr' = "error"
    /\ arbiter' = None /\ GivesBack({"gpu"})
    /\ Goto("finish")
    /\ UNCHANGED <<sepErr, waveErr, daemon, contexts, frozen, closed, err, consumer>>

\* mutant: the final stems are not compared with the published ones
StemsMatchOrNot == TRUE
StemsMatch == answer.stems = published

\* Separation, wavefront and cleanup errors in that order, then the checks of the final
\* response, of the joined features and of the arenas.
Finish ==
    /\ StageStep("finish")
    /\ \/ sepErr # None /\ NoFault /\ Return(sepErr, {"arena"})
       \/ sepErr = None /\ waveErr # None /\ NoFault /\ Return(waveErr, {"arena"})
       \/ /\ sepErr = None /\ waveErr = None
          /\ \/ cleanupErr # None /\ NoFault /\ Return("error", {"arena"})
             \/ /\ cleanupErr = None
                /\ \/ ((~StemsMatch /\ NoFault) \/ Fault) /\ Return("error", {"arena"})
                   \/ StemsMatch /\ NoFault /\ Return(None, {})
    /\ UNCHANGED <<sepErr, waveErr, cleanupErr, daemon, closed, err, consumer>>

Stage ==
    \/ AllocateArena \/ AcquireSlot \/ ReserveLease \/ AcquireDaemon \/ StartWave
    \/ AcquireArbiter \/ Separated \/ ReleaseCapacity \/ FailWave \/ CloseInput \/ Wait
    \/ AcquireForCleanup \/ CleanupGPU \/ Finish

(***************************************************************************)
(* The reader goroutine of SeparateWithEvents.  The daemon sends one       *)
(* stem_ready line for every stem it has written and a final answer; lines *)
(* it wrote before it was killed can still be read.                        *)
(***************************************************************************)
ReaderStep(here) ==
    /\ ~panicked /\ reader.pc = here
    /\ UNCHANGED <<stage, arbiter, closed, features, consumer>>

ReaderAt(there) == reader' = [reader EXCEPT !.pc = there]
Answers(e, stems) ==
    /\ reader' = [reader EXCEPT !.pc = "gone", !.stem = None]
    /\ answer' = [err |-> e, stems |-> stems]

\* A stem that comes twice is a fault of the daemon; the lifecycle refuses it.
ReadEvent ==
    /\ ReaderStep("read")
    /\ \E s \in Stems :
          /\ (s \notin reader.seen /\ NoFault) \/ (s \in reader.seen /\ Fault)
          /\ reader' = [pc |-> "freeze", stem |-> s, seen |-> reader.seen \cup {s}]
    /\ UNCHANGED <<answer, contexts, stem, frozen, jobs, published, err, panicked>>

\* The answer comes after the last stem, early and short from a faulty daemon, or not at
\* all from one that fails or has been killed.
ReadAnswer ==
    /\ ReaderStep("read")
    /\ \/ reader.seen = Stems /\ NoFault /\ Answers(None, Stems)
       \/ Fault /\ \E ss \in SUBSET Stems : Answers(None, ss)
       \/ (Fault \/ (pc # "separate" /\ NoFault)) /\ Answers("error", {})
    /\ UNCHANGED <<contexts, stem, frozen, jobs, published, err, panicked>>

\* The arenas may have been closed under a reader that has outlived its call: it then
\* finds none and goes on, or fails.
FreezeStem ==
    /\ ReaderStep("freeze")
    /\ \/ /\ ArenaOpen /\ NoFault
          /\ frozen' = frozen \cup {reader.stem}
          /\ ReaderAt("publish") /\ UNCHANGED answer
       \/ /\ ~ArenaOpen /\ NoFault
          /\ ReaderAt("publish") /\ UNCHANGED <<answer, frozen>>
       \/ /\ Fault \/ (~ArenaOpen /\ NoFault)
          /\ Answers("error", {}) /\ UNCHANGED frozen
    /\ UNCHANGED <<contexts, stem, jobs, published, err, panicked>>

\* lifecycle.Publish.  Its ready queue has room: this goroutine drains it at once.
PublishStem ==
    /\ ReaderStep("publish")
    /\ LET s == reader.stem
       IN  \/ /\ stem[s].state = "pending"
              /\ stem' = [stem EXCEPT ![s].state = "frozen"]
              /\ ReaderAt("ready") /\ UNCHANGED answer
           \/ /\ stem[s].state # "pending"
              /\ Answers("error", {}) /\ UNCHANGED stem
    /\ UNCHANGED <<contexts, frozen, jobs, published, err, panicked, faults>>

\* The ready event is taken back and its metadata recorded, or differs from the others'.
RecordStem ==
    /\ ReaderStep("ready")
    /\ \/ /\ NoFault
          /\ published' = published \cup {reader.stem}
          /\ ReaderAt("cpu") /\ UNCHANGED <<answer, err, contexts>>
       \/ /\ Fault
          /\ Fail("error") /\ Answers("error", {}) /\ UNCHANGED published
       \/ /\ "wave" \in done /\ NoFault
          /\ Answers(cause, {}) /\ UNCHANGED <<published, err, contexts>>
    /\ UNCHANGED <<stem, frozen, jobs, panicked>>

\* The channels hold every stem, so that a send never waits; on a closed channel it
\* panics, unless the select prefers ctx.Done.
SendJob(lane, there) ==
    /\ ReaderStep(lane)
    /\ \/ /\ ~closed
          /\ jobs' = [jobs EXCEPT ![lane] = Append(@, reader.stem)]
          /\ ReaderAt(there) /\ UNCHANGED <<answer, panicked>>
       \/ /\ closed
          /\ panicked' = TRUE
          /\ UNCHANGED <<reader, answer, jobs>>
       \/ /\ "wave" \in done
          /\ Answers(cause, {}) /\ UNCHANGED <<jobs, panicked>>
    /\ UNCHANGED <<contexts, stem, frozen, published, err, faults>>

Reader ==
    \/ ReadEvent \/ ReadAnswer \/ FreezeStem \/ PublishStem \/ RecordStem
    \/ SendJob("cpu", "gpu") \/ SendJob("gpu", "read")

(***************************************************************************)
(* The lane consumers, and failAll, which runs in a goroutine of its own   *)
(* once waveCtx is done.                                                   *)
(***************************************************************************)
ConsumerStep(c, here) ==
    /\ ~panicked /\ consumer[c].pc = here
    /\ UNCHANGED <<stage, daemon, frozen, closed, published, panicked>>

ConsumerAt(c, there) == consumer' = [consumer EXCEPT ![c].pc = there]
ConsumerEnds(c) == consumer' = [consumer EXCEPT ![c] = [IdleConsumer EXCEPT !.pc = "gone"]]
RunEnds(c, e) == consumer' = [consumer EXCEPT ![c] = [@ EXCEPT !.pc = "release", !.err = e]]

TakeJob(c) ==
    /\ ConsumerStep(c, "select") /\ jobs[LaneOf(c)] # <<>>
    /\ consumer' = [consumer EXCEPT ![c] = [pc |-> "acquire", stem |-> Head(jobs[LaneOf(c)]),
                                            err |-> None]]
    /\ jobs' = [jobs EXCEPT ![LaneOf(c)] = Tail(@)]
    /\ UNCHANGED <<arbiter, contexts, stem, features, err, faults>>

Quit(c) ==
    /\ ConsumerStep(c, "select")
    /\ "wave" \in done \/ (closed /\ jobs[LaneOf(c)] = <<>>)
    /\ ConsumerEnds(c)
    /\ UNCHANGED <<arbiter, contexts, stem, jobs, features, err, faults>>

AcquireStem(c) ==
    /\ ConsumerStep(c, "acquire")
    /\ LET s == consumer[c].stem
       IN  \/ /\ stem[s].state \in {"frozen", "consuming"}
              /\ stem[s].acquired < ReadersPerStem
              /\ stem' = [stem EXCEPT ![s] = [state |-> "consuming", refs |-> @.refs + 1,
                                              acquired |-> @.acquired + 1]]
              /\ ConsumerAt(c, IF c = GPUConsumer THEN "arbiter" ELSE "run")
              /\ UNCHANGED <<err, contexts>>
           \/ /\ stem[s].state \notin {"frozen", "consuming"}
                 \/ stem[s].acquired >= ReadersPerStem
              /\ Fail("error") /\ ConsumerEnds(c) /\ UNCHANGED stem
    /\ UNCHANGED <<arbiter, jobs, features, faults>>

\* The GPU lane waits for the arbiter, which the stage or another task holds, 120 seconds
\* at most; a deadline of ctxPost makes the failure retryable as well, a cancellation does
\* not.
AwaitArbiter(c) ==
    /\ ConsumerStep(c, "arbiter")
    /\ \/ /\ arbiter = None /\ NoFault
          /\ arbiter' = c /\ ConsumerAt(c, "run")
       \/ /\ Fault
          /\ RunEnds(c, "retry") /\ UNCHANGED arbiter
       \/ /\ "wave" \in done /\ NoFault
          /\ \E e \in IF "post" \in done THEN ErrorClass ELSE {"error"} : RunEnds(c, e)
          /\ UNCHANGED arbiter
    /\ UNCHANGED <<contexts, stem, jobs, features, err>>

\* The daemon of the lane answers, fails, or is abandoned when waveCtx is done.
Run(c) ==
    /\ ConsumerStep(c, "run")
    /\ \/ NoFault /\ RunEnds(c, None)
       \/ (Fault \/ ("wave" \in done /\ NoFault)) /\ RunEnds(c, "error")
    /\ arbiter' = IF c = GPUConsumer THEN None ELSE arbiter
    /\ UNCHANGED <<contexts, stem, jobs, features, err>>

\* mutant: a release without a reference is not refused
ReadableOrNot(s) == s \in Stems
Readable(s) == stem[s].state = "consuming" /\ stem[s].refs > 0

\* mutant: a stem is released although the other lane has not read it yet
ReleasedEarly(s) ==
    [stem[s] EXCEPT !.refs = @ - 1, !.state = IF stem[s].refs = 1 THEN "released" ELSE @]
Released(s) ==
    [stem[s] EXCEPT !.refs = @ - 1,
                    !.state = IF stem[s].refs = 1 /\ stem[s].acquired = ReadersPerStem
                              THEN "released" ELSE @]

\* lifecycle.Release, then the response is merged, or the wavefront fails.
ReleaseStem(c) ==
    /\ ConsumerStep(c, "release")
    /\ LET s == consumer[c].stem
           runErr == consumer[c].err
       IN  /\ stem' = IF Readable(s) THEN [stem EXCEPT ![s] = Released(s)] ELSE stem
           /\ \/ /\ Readable(s) /\ runErr = None
                 /\ features' = [features EXCEPT ![LaneOf(c)] = @ \cup {s}]
                 /\ consumer' = [consumer EXCEPT ![c] = [IdleConsumer EXCEPT !.pc = "select"]]
                 /\ UNCHANGED <<err, contexts>>
              \/ /\ ~Readable(s) \/ runErr # None
                 /\ Fail(IF runErr = None THEN "error" ELSE runErr)
                 /\ ConsumerEnds(c)
                 /\ UNCHANGED features
    /\ UNCHANGED <<arbiter, jobs, faults>>

Consume(c) ==
    \/ TakeJob(c) \/ Quit(c) \/ AcquireStem(c) \/ AwaitArbiter(c) \/ Run(c) \/ ReleaseStem(c)

FailAll ==
    /\ ~panicked /\ afterFunc = "armed" /\ "wave" \in done
    /\ afterFunc' = "over"
    /\ stem' = [s \in Stems |-> IF stem[s].state = "released" THEN stem[s]
                                ELSE [state |-> "failed", refs |-> 0,
                                      acquired |-> stem[s].acquired]]
    /\ UNCHANGED <<stage, arbiter, daemon, done, cause, frozen, wave, consumer, panicked,
                   faults>>

(***************************************************************************)
(* The contexts: ctxDemucs expires before ctxPost, which has the longer    *)
(* deadline, and a cancelled parent ends both.                             *)
(***************************************************************************)
Expire(contextsDone) ==
    /\ ~panicked /\ pc # "returned" /\ Fault
    /\ ~(contextsDone \subseteq done)
    /\ done' = done \cup contextsDone
    /\ cause' = IF "wave" \in contextsDone \ done THEN "error" ELSE cause
    /\ UNCHANGED <<stage, arbiter, daemon, afterFunc, stem, frozen, wave, consumer, panicked>>

Next ==
    \/ Stage \/ Reader \/ FailAll
    \/ \E c \in Consumers : Consume(c)
    \/ Expire({"demucs"}) \/ Expire({"demucs", "post", "wave"})

Spec == Init /\ [][Next]_vars

\* Goroutines are scheduled, a daemon answers or its context expires, and the arbiter is
\* released by whoever holds it.
Fairness ==
    /\ WF_vars(Stage) /\ WF_vars(Reader) /\ WF_vars(FailAll)
    /\ \A c \in Consumers : WF_vars(Consume(c))
FairSpec == Spec /\ Fairness

(***************************************************************************)
(* Correctness.                                                            *)
(***************************************************************************)
\* Every variable holds a value of its kind.
TypeOK ==
    /\ pc \in StagePC /\ held \in [Resources -> Int] /\ deferred \subseteq Resources
    /\ arbiter \in {"stage", GPUConsumer, None}
    /\ sepErr \in ErrorClass \cup {None} /\ waveErr \in ErrorClass \cup {None}
    /\ cleanupErr \in {"error", None} /\ result \in ErrorClass \cup {"ok", None}
    /\ reader \in [pc : ReaderPC, stem : Stems \cup {None}, seen : SUBSET Stems]
    /\ answer \in [err : ErrorClass \cup {None}, stems : SUBSET Stems] \cup {None}
    /\ done \subseteq {"demucs", "post", "wave"} /\ cause \in ErrorClass \cup {None}
    /\ afterFunc \in {"unset", "armed", "over"}
    /\ stem \in [Stems -> [state : StemState, refs : 0..ReadersPerStem,
                           acquired : 0..ReadersPerStem]]
    /\ frozen \subseteq Stems /\ published \subseteq Stems
    /\ jobs \in [Lanes -> Seq(Stems)] /\ closed \in BOOLEAN
    /\ features \in [Lanes -> SUBSET Stems] /\ err \in ErrorClass \cup {None}
    /\ consumer \in [Consumers -> [pc : ConsumerPC, stem : Stems \cup {None},
                                  err : ErrorClass \cup {None}]]
    /\ panicked \in BOOLEAN /\ faults \in 0..MaxFaults

\* A stage that succeeds returns the features of every stem of the final answer from both
\* lanes, and every stem has been released by both its readers: a late event, a lane that
\* quit, a short answer or a cancellation never becomes a shorter result.
FeaturesAreComplete ==
    result = "ok" =>
        /\ answer.stems # {}
        /\ \A l \in Lanes : features[l] = answer.stems
        /\ \A s \in answer.stems : stem[s].state = "released"

\* A lane reads a stem only while its arena is mapped and read-only, whatever has been
\* cancelled and whoever has failed.
ReadersAreSafe ==
    \A c \in Consumers :
        consumer[c].pc = "run" => ArenaOpen /\ consumer[c].stem \in frozen

\* The references of a stem are its readers, unless failAll has dropped them; a released
\* stem has none left to come.
Reading(s) == {c \in Consumers : consumer[c].stem = s
                                 /\ consumer[c].pc \in {"arbiter", "run", "release"}}
RefsAreReaders ==
    \A s \in Stems :
        /\ stem[s].state # "failed" => stem[s].refs = Cardinality(Reading(s))
        /\ stem[s].state = "released" => stem[s].acquired = ReadersPerStem

\* Whichever of its dozen returns it takes, the stage has given back its slot, lease,
\* Demucs process and GPU exactly once, by hand or by a defer, and keeps its arenas exactly
\* when it succeeds.
HoldsAreReturned ==
    pc = "returned" =>
        /\ \A r \in Resources : held[r] = IF r = "arena" /\ result = "ok" THEN 1 ELSE 0
        /\ arbiter # "stage"

\* The stage returns and its consumers end, although the GPU lane waits for an arbiter
\* that the stage holds and the stage waits for its lanes, unless the process panics.
StageEnds ==
    <>(panicked \/ (pc = "returned" /\ \A c \in Consumers : consumer[c].pc \in {"off", "gone"}))

(***************************************************************************)
(* What the documents say and the code does not do.                        *)
(***************************************************************************)
\* A timeout fails closed (docs/post_demucs_multitask_requirements.lrf, "failure"): it
\* does not end the process.
FailsClosed == ~panicked

\* Exhausting a wait is retryable (docs/post_demucs_multitask_requirements.lrf, "retry"):
\* when a lane has run out of its wait for the GPU while every deadline of the stage
\* stands, the separation does not turn that into a terminal failure.
WaitStaysRetryable ==
    pc = "finish" /\ err = "retry" /\ "demucs" \notin done => sepErr # "error"

=============================================================================
