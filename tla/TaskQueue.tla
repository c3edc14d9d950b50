----------------------------- MODULE TaskQueue -----------------------------
(***************************************************************************)
(* The durable task queue of the orchestrator: HTTP intake, the SQLite     *)
(* row of every track, the single writer goroutine that owns the rows, the *)
(* feeder that claims rows one at a time and hands them to waiting         *)
(* workers, the pipeline of a worker seen from outside, the asynchronous   *)
(* ingest worker, the dead-letter queue, and stop, crash and restart of    *)
(* the process (state/db.go, dispatcher/durable_queue.go, dispatcher.go,   *)
(* pipeline_step.go, ingest_pgx.go, admission.go, gatekeeper.go).          *)
(*                                                                         *)
(* A track (file_path, track_number) is one SQLite row; its audio hash is  *)
(* the key of its PostgreSQL row, so two copies of a file share one.  The  *)
(* version of a PostgreSQL row stands for its id and xmin, 0 for no row.   *)
(* A worker's analysis is a choice of outcome; the stages inside it are    *)
(* the subject of other modules.                                           *)
(***************************************************************************)
EXTENDS Naturals, Sequences, FiniteSets

CONSTANTS
    Tracks,             \* the (file_path, track_number) keys
    Hashes,             \* audio hashes
    Hash,               \* Hash[t]: the audio hash of a track's samples
    Legacy,             \* tracks whose PostgreSQL row is incomplete from the start
    Workers,            \* the NumWorkers worker goroutines
    Size,               \* Size[t]: bytes of the FLAC file, which order the claims
    DownstreamTracks,   \* capacity of the downstream ticket; 1 in the code
    IngestCap,          \* capacity of ingestQueue; 1000 in the code
    SkipDupByHash,      \* the configuration flag
    None,               \* "no task", "no track", "no request"
    Requests,           \* bound: the HTTP requests of a behaviour
    MaxFaults,          \* bound: outages, refusals and failures of the environment
    MaxRestarts         \* bound: crashes plus graceful stops

ASSUME TaskQueueAssumption ==
    /\ Hash \in [Tracks -> Hashes]
    /\ Legacy \subseteq Tracks
    /\ \A t, u \in Legacy : Hash[t] = Hash[u] => t = u
    /\ Size \in [Tracks -> Nat]
    /\ DownstreamTracks \in Nat \ {0}
    /\ IngestCap \in Nat \ {0}
    /\ SkipDupByHash \in BOOLEAN
    /\ None \notin Tracks /\ None \notin Requests
    /\ MaxFaults \in Nat /\ MaxRestarts \in Nat

VARIABLES
    \* orchestrator.db, which survives the process
    status,         \* status[t]: the status column, "ABSENT" when there is no row
    payload,        \* payload[t]: the request whose payload_json the row holds
    cooled,         \* FAILED_MAYBE_RETRY rows whose cooldown has passed
    \* PostgreSQL and send_failed.db
    pg,             \* pg[h]: [version, track, complete]
    dlq,            \* dlq[h]: [track, full], the payload in send_failed.db, or None
    \* HTTP handlers and the state writer
    request,        \* request[r]: [pc, batch, force, required]
    opQueue,        \* dbWriteOps sent and not yet applied
    \* the feeder goroutine
    feeder,         \* [pc, task, ready]: ready is the local readyWorkers
    wake,           \* taskWakeCh holds a token
    readyCh,        \* tokens in workerReadyCh
    \* the worker goroutines and the ingest queue
    worker,         \* worker[w]: [pc, task, ticket, admitted]
    ingestQueue,    \* payloads waiting for the ingest worker
    \* admission
    taskLeases,     \* keys of taskLeases: tickets taken by the feeder, not yet by a worker
    ramAdmissions,  \* keys of ramAdmissions
    used,           \* DownstreamTracks in use in the admission controller
    \* the process, and the counters behind the bounds
    mode,           \* "up", "stopping" (Stop has cancelled the feeder) or "down"
    faults, restarts

rows == <<status, payload, cooled>>
remote == <<pg, dlq>>
channels == <<wake, readyCh>>
admission == <<taskLeases, ramAdmissions, used>>
process == <<mode, restarts>>
vars == <<status, payload, cooled, pg, dlq, request, opQueue, feeder, wake, readyCh, worker,
          ingestQueue, taskLeases, ramAdmissions, used, mode, faults, restarts>>

RowStatus == {"PENDING", "QUEUED", "RUNNING", "COMPLETED", "FAILED", "FAILED_MAYBE_RETRY"}
Task == [track : Tracks, req : Requests, snap : Nat]
Payload == [track : Tracks, full : BOOLEAN]
LibraryRow == [version : Nat, track : Tracks \cup {None}, complete : BOOLEAN]
RequestPC == {"none", "planned", "sent", "accepted", "done"}
FeederPC == {"select", "loop", "retrying", "retried", "claiming", "preflight", "reserve",
             "recheck", "parking", "handoff", "gone"}
WorkerPC == {"idle", "waiting", "begin", "hash", "analyse", "send", "cleanup", "report",
             "gone"}

\* The messages of the state writer.
CheckOp(r) == [kind |-> "check", req |-> r]
StatusOp(t, s) == [kind |-> "status", track |-> t, status |-> s]
ClaimOp == [kind |-> "claim"]
RequeueOp == [kind |-> "requeue"]
ParkOp(t) == [kind |-> "park", track |-> t]
Op == {CheckOp(r) : r \in Requests} \cup {StatusOp(t, s) : t \in Tracks, s \in RowStatus}
        \cup {ClaimOp, RequeueOp} \cup {ParkOp(t) : t \in Tracks}

Send(op) == opQueue' = Append(opQueue, op)
Fault == faults < MaxFaults /\ faults' = faults + 1
NoFault == UNCHANGED faults
Alive == mode # "down"
IntSafeSub(a, b) == IF a < b THEN 0 ELSE a - b

\* What the preflight lookup by path returns: the version of the row, 0 when absent.
Snapshot(t) == IF pg[Hash[t]].track = t THEN pg[Hash[t]].version ELSE 0
CompleteOrHalf(t) == pg[Hash[t]].track = t                 \* mutant: half a row counts
Complete(t) == pg[Hash[t]].track = t /\ pg[Hash[t]].complete
Written(t, complete) ==
    [pg EXCEPT ![Hash[t]] = [version |-> @.version + 1, track |-> t, complete |-> complete]]
\* DecideAnalysis plans a full analysis unless it finds an incomplete row to fill; the
\* payload of such a mix_only or stems_only run carries one half of the features.
FullAnalysis(task) == request[task.req].force \/ task.snap = 0

IdleFeeder == [pc |-> "select", task |-> None, ready |-> 0]
IdleWorker == [pc |-> "idle", task |-> None, ticket |-> FALSE, admitted |-> FALSE]
NoRequest == [pc |-> "none", batch |-> {}, force |-> FALSE, required |-> {}]

FeederAt(pc) == feeder' = [feeder EXCEPT !.pc = pc]
FeederDrops(pc) == feeder' = [feeder EXCEPT !.pc = pc, !.task = None]

Init ==
    /\ status = [t \in Tracks |-> "ABSENT"]
    /\ payload = [t \in Tracks |-> None]
    /\ cooled = {}
    /\ pg = [h \in Hashes |->
          IF \E t \in Legacy : Hash[t] = h
          THEN [version |-> 1, track |-> CHOOSE t \in Legacy : Hash[t] = h,
                complete |-> FALSE]
          ELSE [version |-> 0, track |-> None, complete |-> FALSE]]
    /\ dlq = [h \in Hashes |-> None]
    /\ request = [r \in Requests |-> NoRequest]
    /\ opQueue = <<>>
    /\ feeder = IdleFeeder
    /\ wake = TRUE
    /\ readyCh = 0
    /\ worker = [w \in Workers |-> IdleWorker]
    /\ ingestQueue = <<>>
    /\ taskLeases = {} /\ ramAdmissions = {} /\ used = 0
    /\ mode = "up"
    /\ faults = 0 /\ restarts = 0

(***************************************************************************)
(* HTTP intake: POST /task looks the tracks up, has the writer check the   *)
(* whole batch in one transaction, and wakes the feeder.                   *)
(***************************************************************************)
Plan(r, batch, forced) ==
    /\ mode = "up" /\ request[r].pc = "none"
    /\ request' = [request EXCEPT ![r] =
          [pc |-> "planned", batch |-> batch, force |-> forced,
           required |-> {t \in batch : forced \/ ~Complete(t)}]]
    /\ UNCHANGED <<rows, remote, opQueue, feeder, channels, worker, ingestQueue, admission,
                   process, faults>>

SendCheck(r) ==
    /\ Alive /\ request[r].pc = "planned"
    /\ request' = [request EXCEPT ![r].pc = "sent"]
    /\ Send(CheckOp(r))
    /\ UNCHANGED <<rows, remote, feeder, channels, worker, ingestQueue, admission, process,
                   faults>>

Notify(r) ==
    /\ Alive /\ request[r].pc = "accepted"
    /\ request' = [request EXCEPT ![r].pc = "done"]
    /\ wake' = TRUE
    /\ UNCHANGED <<rows, remote, opQueue, feeder, readyCh, worker, ingestQueue, admission,
                   process, faults>>

(***************************************************************************)
(* The state writer: one goroutine applies the operations in the order in  *)
(* which they were sent, and answers those that wait.                      *)
(***************************************************************************)
Write(kind) ==
    /\ Alive /\ opQueue # <<>> /\ Head(opQueue).kind = kind
    /\ opQueue' = Tail(opQueue)
    /\ UNCHANGED <<remote, channels, worker, ingestQueue, admission, process, faults>>

SetStatus(ts, s) ==
    /\ status' = [t \in Tracks |-> IF t \in ts THEN s ELSE status[t]]
    /\ cooled' = cooled \ ts

Takes(r, t) ==
    \/ request[r].force /\ status[t] # "ABSENT"
    \/ status[t] \in {"ABSENT", "FAILED", "FAILED_MAYBE_RETRY"}
    \/ status[t] = "COMPLETED" /\ t \in request[r].required

\* mutant: the payload is not stored
WriteCheckWithoutPayload ==
    /\ Write("check")
    /\ LET r == Head(opQueue).req
           taken == {t \in request[r].batch : Takes(r, t)}
       IN  /\ SetStatus(taken, "PENDING")
           /\ request' = [request EXCEPT ![r].pc =
                             IF taken = {} THEN "done" ELSE "accepted"]
    /\ UNCHANGED <<payload, feeder>>

WriteCheck ==
    /\ Write("check")
    /\ LET r == Head(opQueue).req
           taken == {t \in request[r].batch : Takes(r, t)}
       IN  /\ SetStatus(taken, "PENDING")
           /\ payload' = [t \in Tracks |-> IF t \in taken THEN r ELSE payload[t]]
           /\ request' = [request EXCEPT ![r].pc =
                             IF taken = {} THEN "done" ELSE "accepted"]
    /\ UNCHANGED feeder

WriteStatus ==
    /\ Write("status")
    /\ SetStatus({Head(opQueue).track} \cap {t \in Tracks : status[t] # "ABSENT"},
                 Head(opQueue).status)
    /\ UNCHANGED <<payload, request, feeder>>

\* The oldest cooled row in the code; any of them here.
WriteRequeue ==
    /\ Write("requeue")
    /\ \/ \E t \in cooled : SetStatus({t}, "PENDING")
       \/ cooled = {} /\ UNCHANGED <<status, cooled>>
    /\ FeederAt("retried")
    /\ UNCHANGED <<payload, request>>

Pending == {t \in Tracks : status[t] = "PENDING"}

WriteClaim ==
    /\ Write("claim")
    /\ \/ \E t \in Pending :
             /\ \A u \in Pending : Size[t] <= Size[u]
             /\ SetStatus({t}, "QUEUED")
             /\ feeder' = [feeder EXCEPT !.pc = "preflight",
                                        !.task = [track |-> t, req |-> payload[t], snap |-> 0]]
       \/ Pending = {} /\ FeederAt("select") /\ UNCHANGED <<status, cooled>>
    /\ UNCHANGED <<payload, request>>

\* A row that is no longer QUEUED stays as it is; the feeder logs the error.
WritePark ==
    /\ Write("park")
    /\ LET t == Head(opQueue).track
       IN  SetStatus(IF status[t] = "QUEUED" THEN {t} ELSE {}, "FAILED_MAYBE_RETRY")
    /\ FeederDrops("loop")
    /\ UNCHANGED <<payload, request>>

Writer == WriteCheck \/ WriteStatus \/ WriteRequeue \/ WriteClaim \/ WritePark

(***************************************************************************)
(* The feeder: claims one row while a worker waits, plans it again, books  *)
(* its admission, and hands it to a worker or parks it.                    *)
(***************************************************************************)
FeederStep(pc) ==
    /\ Alive /\ feeder.pc = pc
    /\ UNCHANGED <<rows, remote, request, ingestQueue, process>>

FeederWake ==
    /\ FeederStep("select") /\ mode = "up" /\ wake
    /\ wake' = FALSE
    /\ FeederAt("loop")
    /\ UNCHANGED <<opQueue, readyCh, worker, admission, faults>>

FeederReady ==
    /\ FeederStep("select") /\ mode = "up" /\ readyCh > 0
    /\ readyCh' = readyCh - 1
    /\ feeder' = [feeder EXCEPT !.pc = "loop", !.ready = @ + 1]
    /\ UNCHANGED <<opQueue, wake, worker, admission, faults>>

FeederTick ==
    /\ FeederStep("select") /\ mode = "up" /\ feeder.ready > 0
    /\ FeederAt("loop")
    /\ UNCHANGED <<opQueue, channels, worker, admission, faults>>

FeederLoop ==
    /\ FeederStep("loop")
    /\ \/ /\ feeder.ready > 0 /\ mode = "up"
          /\ Send(RequeueOp) /\ FeederAt("retrying")
       \/ /\ feeder.ready = 0 \/ mode = "stopping"
          /\ FeederAt("select") /\ UNCHANGED opQueue
    /\ UNCHANGED <<channels, worker, admission, faults>>

FeederClaim ==
    /\ FeederStep("retried")
    /\ Send(ClaimOp) /\ FeederAt("claiming")
    /\ UNCHANGED <<channels, worker, admission, faults>>

FeederPreflight ==
    /\ FeederStep("preflight")
    /\ LET t == feeder.task.track
           skip == Complete(t) /\ ~request[feeder.task.req].force
       IN  \/ /\ (mode = "stopping" /\ NoFault) \/ Fault   \* the lookup fails
             /\ Send(StatusOp(t, "FAILED_MAYBE_RETRY")) /\ FeederDrops("select")
          \/ /\ skip /\ NoFault
             /\ Send(StatusOp(t, "COMPLETED")) /\ FeederDrops("loop")
          \/ /\ ~skip /\ NoFault
             /\ feeder' = [feeder EXCEPT !.pc = "reserve", !.task.snap = Snapshot(t)]
             /\ UNCHANGED opQueue
    /\ UNCHANGED <<channels, worker, admission>>

FitsOneMore(t) == used <= DownstreamTracks /\ t \notin ramAdmissions   \* mutant: off by one
Fits(t) == used < DownstreamTracks /\ t \notin ramAdmissions /\ t \notin taskLeases

FeederReserve ==
    /\ FeederStep("reserve")
    /\ LET t == feeder.task.track
       IN  \/ /\ Fits(t) /\ NoFault
             /\ used' = used + 1
             /\ ramAdmissions' = ramAdmissions \cup {t}
             /\ taskLeases' = taskLeases \cup {t}
             /\ FeederAt("recheck") /\ UNCHANGED opQueue
          \/ /\ (~Fits(t) /\ NoFault) \/ Fault             \* no capacity or no telemetry
             /\ Send(ParkOp(t)) /\ FeederAt("parking")
             /\ UNCHANGED admission
          \/ /\ Fault                                      \* larger than the machine
             /\ Send(StatusOp(t, "FAILED")) /\ FeederDrops("loop")
             /\ UNCHANGED admission
    /\ UNCHANGED <<channels, worker>>

ReleaseUnstarted(t) ==
    /\ ramAdmissions' = ramAdmissions \ {t}
    /\ taskLeases' = taskLeases \ {t}
    /\ used' = IF t \in taskLeases THEN IntSafeSub(used, 1) ELSE used

\* mutant: a task refused at the last mile keeps its admission
FeederRecheckLeaks ==
    /\ FeederStep("recheck")
    /\ \/ NoFault /\ FeederAt("handoff") /\ UNCHANGED opQueue
       \/ Fault /\ Send(ParkOp(feeder.task.track)) /\ FeederAt("parking")
    /\ UNCHANGED <<channels, worker, admission>>

FeederRecheck ==
    /\ FeederStep("recheck")
    /\ \/ NoFault /\ FeederAt("handoff") /\ UNCHANGED <<opQueue, admission>>
       \/ /\ Fault                                         \* last-mile NOGO
          /\ ReleaseUnstarted(feeder.task.track)
          /\ Send(ParkOp(feeder.task.track)) /\ FeederAt("parking")
    /\ UNCHANGED <<channels, worker>>

\* mutant: readyWorkers is not decremented
HandoffKeepsReady(w) ==
    /\ FeederStep("handoff")
    /\ worker[w].pc = "waiting"
    /\ worker' = [worker EXCEPT ![w].pc = "begin", ![w].task = feeder.task]
    /\ FeederDrops("loop")
    /\ UNCHANGED <<opQueue, channels, admission, faults>>

Handoff(w) ==
    /\ FeederStep("handoff")
    /\ worker[w].pc = "waiting"
    /\ worker' = [worker EXCEPT ![w].pc = "begin", ![w].task = feeder.task]
    /\ feeder' = [feeder EXCEPT !.pc = "loop", !.task = None, !.ready = @ - 1]
    /\ UNCHANGED <<opQueue, channels, admission, faults>>

\* mutant: the row of an abandoned task stays QUEUED
FeederAbandonsRow ==
    /\ FeederStep("handoff") /\ mode = "stopping"
    /\ ReleaseUnstarted(feeder.task.track)
    /\ FeederDrops("select")
    /\ UNCHANGED <<opQueue, channels, worker, faults>>

FeederAbandon ==
    /\ FeederStep("handoff") /\ mode = "stopping"
    /\ ReleaseUnstarted(feeder.task.track)
    /\ Send(StatusOp(feeder.task.track, "PENDING"))
    /\ FeederDrops("select")
    /\ UNCHANGED <<channels, worker, faults>>

FeederExit ==
    /\ FeederStep("select") /\ mode = "stopping"
    /\ FeederAt("gone")
    /\ UNCHANGED <<opQueue, channels, worker, admission, faults>>

Feeder ==
    \/ FeederWake \/ FeederReady \/ FeederTick \/ FeederLoop \/ FeederClaim
    \/ FeederPreflight \/ FeederReserve \/ FeederRecheck \/ FeederAbandon \/ FeederExit
    \/ \E w \in Workers : Handoff(w)

(***************************************************************************)
(* A worker: announces itself, receives a task, and runs the pipeline.     *)
(***************************************************************************)
WorkerStep(w, pc) ==
    /\ Alive /\ worker[w].pc = pc
    /\ UNCHANGED <<rows, remote, request, feeder, wake, process>>

WorkerAt(w, pc) == worker' = [worker EXCEPT ![w].pc = pc]

Announce(w) ==
    /\ WorkerStep(w, "idle") /\ readyCh < Cardinality(Workers)
    /\ readyCh' = readyCh + 1
    /\ WorkerAt(w, "waiting")
    /\ UNCHANGED <<opQueue, ingestQueue, admission, faults>>

\* mutant: taskQueue is never closed
LeaveWhenIdle(w) ==
    /\ WorkerStep(w, "idle") /\ mode = "stopping"
    /\ WorkerAt(w, "gone")
    /\ UNCHANGED <<opQueue, readyCh, ingestQueue, admission, faults>>

\* taskFeederCtx is done, or Stop has closed taskQueue after the feeder's exit.
Leave(w) ==
    /\ \/ WorkerStep(w, "idle") /\ mode = "stopping"
       \/ WorkerStep(w, "waiting") /\ feeder.pc = "gone"
    /\ WorkerAt(w, "gone")
    /\ UNCHANGED <<opQueue, readyCh, ingestQueue, admission, faults>>

Begin(w) ==
    /\ WorkerStep(w, "begin")
    /\ LET t == worker[w].task.track
           admitted == t \in ramAdmissions
       IN  /\ worker' = [worker EXCEPT ![w] =
                 [@ EXCEPT !.pc = IF admitted THEN "hash" ELSE "cleanup",
                           !.ticket = t \in taskLeases, !.admitted = admitted]]
           /\ taskLeases' = taskLeases \ {t}
           /\ Send(StatusOp(t, IF admitted THEN "RUNNING" ELSE "FAILED"))
    /\ UNCHANGED <<readyCh, ingestQueue, ramAdmissions, used, faults>>

\* The duplicate check is the second safety net for tracks without a row by path.
HashCheck(w) ==
    /\ WorkerStep(w, "hash")
    /\ LET task == worker[w].task
           checked == SkipDupByHash /\ ~request[task.req].force /\ task.snap = 0
           dup == checked /\ pg[Hash[task.track]].version > 0
       IN  \/ /\ (~dup /\ NoFault) \/ (dup /\ Fault)       \* the check fails open
             /\ WorkerAt(w, "analyse") /\ UNCHANGED opQueue
          \/ /\ dup /\ NoFault
             /\ Send(StatusOp(task.track, "COMPLETED")) /\ WorkerAt(w, "cleanup")
          \/ /\ checked /\ Fault                          \* no hash
             /\ Send(StatusOp(task.track, "FAILED")) /\ WorkerAt(w, "cleanup")
    /\ UNCHANGED <<readyCh, ingestQueue, admission>>

\* mutant: a failed stage returns without a status
AnalyseSilently(w) ==
    /\ WorkerStep(w, "analyse")
    /\ \/ NoFault /\ WorkerAt(w, "send")
       \/ Fault /\ WorkerAt(w, "cleanup")
    /\ UNCHANGED <<opQueue, readyCh, ingestQueue, admission>>

Analyse(w) ==
    /\ WorkerStep(w, "analyse")
    /\ \/ NoFault /\ WorkerAt(w, "send") /\ UNCHANGED opQueue
       \/ /\ Fault
          /\ \E s \in {"FAILED", "FAILED_MAYBE_RETRY"} : Send(StatusOp(worker[w].task.track, s))
          /\ WorkerAt(w, "cleanup")
    /\ UNCHANGED <<readyCh, ingestQueue, admission>>

SendIngest(w) ==
    /\ WorkerStep(w, "send") /\ Len(ingestQueue) < IngestCap
    /\ ingestQueue' = Append(ingestQueue, worker[w].task)
    /\ WorkerAt(w, "cleanup")
    /\ UNCHANGED <<opQueue, readyCh, admission, faults>>

\* Storage first, then the RAM admission and the ticket, whatever the cleanup returned.
Cleanup(w) ==
    /\ WorkerStep(w, "cleanup")
    /\ ramAdmissions' = IF worker[w].admitted THEN ramAdmissions \ {worker[w].task.track}
                        ELSE ramAdmissions
    /\ used' = IF worker[w].ticket THEN IntSafeSub(used, 1) ELSE used
    /\ \/ NoFault /\ worker' = [worker EXCEPT ![w] = IdleWorker]
       \/ /\ Fault                                         \* cleanup failed
          /\ worker' = [worker EXCEPT ![w] = [IdleWorker EXCEPT !.pc = "report",
                                                               !.task = worker[w].task]]
    /\ UNCHANGED <<opQueue, readyCh, ingestQueue, taskLeases>>

ReportCleanupFailure(w) ==
    /\ WorkerStep(w, "report")
    /\ Send(StatusOp(worker[w].task.track, "FAILED"))
    /\ worker' = [worker EXCEPT ![w] = IdleWorker]
    /\ UNCHANGED <<readyCh, ingestQueue, admission, faults>>

Pipeline(w) ==
    \/ Begin(w) \/ HashCheck(w) \/ Analyse(w) \/ SendIngest(w) \/ Cleanup(w)
    \/ ReportCleanupFailure(w)

(***************************************************************************)
(* The ingest worker, the replay of send_failed.db by retry_ingest.py, and *)
(* the passing of a cooldown.                                              *)
(***************************************************************************)
IngestStep(s) ==
    /\ Alive /\ ingestQueue # <<>>
    /\ ingestQueue' = Tail(ingestQueue)
    /\ Send(StatusOp(Head(ingestQueue).track, s))
    /\ UNCHANGED <<rows, request, feeder, channels, worker, admission, process>>

Ingested == Head(ingestQueue)
Unchanged(task) == pg[Hash[task.track]].version = task.snap
SaveToDLQ(task) ==
    dlq' = [dlq EXCEPT ![Hash[task.track]] = [track |-> task.track, full |-> FullAnalysis(task)]]

IngestCommit ==
    /\ IngestStep("COMPLETED") /\ Unchanged(Ingested)
    /\ pg' = Written(Ingested.track, TRUE)
    /\ UNCHANGED <<dlq, faults>>

IngestConflict ==
    /\ IngestStep("FAILED_MAYBE_RETRY") /\ ~Unchanged(Ingested)
    /\ UNCHANGED <<remote, faults>>

\* mutant: a payload in send_failed.db counts as done
IngestToDLQCompletes ==
    /\ IngestStep("COMPLETED") /\ Fault
    /\ SaveToDLQ(Ingested)
    /\ UNCHANGED pg

\* An error or a timeout leaves the row as it was, or hides the commit.
FailOrHide ==
    \/ UNCHANGED pg
    \/ Unchanged(Ingested) /\ pg' = Written(Ingested.track, TRUE)

IngestToDLQ ==
    /\ IngestStep("FAILED_MAYBE_RETRY") /\ Fault
    /\ SaveToDLQ(Ingested)
    /\ FailOrHide

\* The JSON cannot be merged, or PostgreSQL and send_failed.db both fail.
IngestFailed ==
    /\ IngestStep("FAILED") /\ Fault
    /\ FailOrHide
    /\ UNCHANGED dlq

Ingest == IngestCommit \/ IngestConflict \/ IngestToDLQ \/ IngestFailed

\* The payload replaces the row.  A crash after the commit leaves it in send_failed.db.
ReplayDLQ(h) ==
    /\ Alive /\ dlq[h] # None
    /\ pg' = Written(dlq[h].track, dlq[h].full)
    /\ \/ NoFault /\ dlq' = [dlq EXCEPT ![h] = None]
       \/ Fault /\ UNCHANGED dlq
    /\ UNCHANGED <<rows, request, opQueue, feeder, channels, worker, ingestQueue, admission,
                   process>>

Cool(t) ==
    /\ status[t] = "FAILED_MAYBE_RETRY" /\ t \notin cooled
    /\ cooled' = cooled \cup {t}
    /\ UNCHANGED <<status, payload, remote, request, opQueue, feeder, channels, worker,
                   ingestQueue, admission, process, faults>>

(***************************************************************************)
(* The process.  An exit closes the state database with operations still   *)
(* buffered; a crash may come anywhere.  Restarts reset interrupted rows.  *)
(***************************************************************************)
Stop ==
    /\ mode = "up" /\ restarts < MaxRestarts
    /\ mode' = "stopping" /\ restarts' = restarts + 1
    /\ UNCHANGED <<rows, remote, request, opQueue, feeder, channels, worker, ingestQueue,
                   admission, faults>>

Die ==
    /\ mode' = "down"
    /\ opQueue' = <<>> /\ ingestQueue' = <<>>
    /\ request' = [r \in Requests |->
          IF request[r].pc = "none" THEN request[r] ELSE [request[r] EXCEPT !.pc = "done"]]
    /\ feeder' = IdleFeeder
    /\ wake' = FALSE /\ readyCh' = 0
    /\ worker' = [w \in Workers |-> IdleWorker]
    /\ taskLeases' = {} /\ ramAdmissions' = {} /\ used' = 0
    /\ UNCHANGED <<rows, remote, faults>>

Exit ==
    /\ mode = "stopping" /\ feeder.pc = "gone" /\ ingestQueue = <<>>
    /\ \A w \in Workers : worker[w].pc = "gone"
    /\ Die
    /\ UNCHANGED restarts

Crash ==
    /\ Alive /\ restarts < MaxRestarts
    /\ Die
    /\ restarts' = restarts + 1

\* mutant: claimed rows are forgotten
ResetStaleTasksRunningOnly ==
    status' = [t \in Tracks |-> IF status[t] = "RUNNING" THEN "FAILED_MAYBE_RETRY"
                               ELSE status[t]]

ResetStaleTasks ==
    status' = [t \in Tracks |-> CASE status[t] = "QUEUED"  -> "PENDING"
                                 [] status[t] = "RUNNING" -> "FAILED_MAYBE_RETRY"
                                 [] OTHER -> status[t]]

Restart ==
    /\ mode = "down"
    /\ ResetStaleTasks
    /\ mode' = "up" /\ wake' = TRUE
    /\ UNCHANGED <<payload, cooled, remote, request, opQueue, feeder, readyCh, worker,
                   ingestQueue, admission, restarts, faults>>

Next ==
    \/ \E r \in Requests :
          \/ \E batch \in SUBSET Tracks \ {{}}, forced \in BOOLEAN : Plan(r, batch, forced)
          \/ SendCheck(r) \/ Notify(r)
    \/ Writer \/ Feeder
    \/ \E w \in Workers : Announce(w) \/ Leave(w) \/ Pipeline(w)
    \/ Ingest
    \/ \E h \in Hashes : ReplayDLQ(h)
    \/ \E t \in Tracks : Cool(t)
    \/ Stop \/ Exit \/ Crash \/ Restart

Spec == Init /\ [][Next]_vars

(***************************************************************************)
(* Fairness.  Goroutines are scheduled, every stage of an analysis runs    *)
(* under a timeout, cooldowns pass, and a supervisor restarts the process. *)
(* Nothing obliges the environment to post, fail, stop or crash, nor       *)
(* retry_ingest.py to replay.                                              *)
(***************************************************************************)
Fairness ==
    /\ WF_vars(Writer) /\ WF_vars(Feeder) /\ WF_vars(Ingest)
    /\ \A w \in Workers : WF_vars(Announce(w) \/ Leave(w)) /\ WF_vars(Pipeline(w))
    /\ \A r \in Requests : WF_vars(SendCheck(r) \/ Notify(r))
    /\ \A t \in Tracks : WF_vars(Cool(t))
    /\ WF_vars(Exit) /\ WF_vars(Restart)

FairSpec == Spec /\ Fairness

(***************************************************************************)
(* Correctness.                                                            *)
(***************************************************************************)
\* Every variable holds a value of its kind: the types of the Go structs and columns.
TypeOK ==
    /\ status \in [Tracks -> RowStatus \cup {"ABSENT"}]
    /\ payload \in [Tracks -> Requests \cup {None}]
    /\ cooled \in SUBSET Tracks
    /\ pg \in [Hashes -> LibraryRow]
    /\ dlq \in [Hashes -> Payload \cup {None}]
    /\ request \in [Requests -> [pc : RequestPC, batch : SUBSET Tracks, force : BOOLEAN,
                                required : SUBSET Tracks]]
    /\ opQueue \in Seq(Op)
    /\ feeder \in [pc : FeederPC, task : Task \cup {None}, ready : Nat]
    /\ wake \in BOOLEAN /\ readyCh \in Nat
    /\ worker \in [Workers -> [pc : WorkerPC, task : Task \cup {None}, ticket : BOOLEAN,
                              admitted : BOOLEAN]]
    /\ ingestQueue \in Seq(Task)
    /\ taskLeases \in SUBSET Tracks /\ ramAdmissions \in SUBSET Tracks /\ used \in Nat
    /\ mode \in {"up", "stopping", "down"}
    /\ faults \in Nat /\ restarts \in Nat

\* A COMPLETED row, or one about to be reported COMPLETED, has a row in the library for
\* its audio, whichever of preflight, duplicate check and ingest reported it and
\* whatever was forced, replayed, lost or restarted in between.
ReportedCompleted(t) ==
    \/ status[t] = "COMPLETED"
    \/ \E i \in 1..Len(opQueue) : opQueue[i] = StatusOp(t, "COMPLETED")
CompletedIsStored == \A t \in Tracks : ReportedCompleted(t) => pg[Hash[t]].version > 0

\* A track reported COMPLETED whose library row is its own has a complete row: a half row
\* that was there before sends the track through the analysis and not past the preflight
\* or the duplicate check.  It holds as long as no half payload is replayed.
CompletedIsComplete ==
    \A t \in Tracks : ReportedCompleted(t) /\ pg[Hash[t]].track = t => pg[Hash[t]].complete

\* The admission books match their owners exactly: the RAM admissions, the ticket
\* handed over in taskLeases and the DownstreamTracks count belong to the task the
\* feeder has booked and to the tasks of workers that have not released them, so no
\* early return, park, abandon or cleanup failure strands or doubles a lease.
Booked == IF feeder.pc \in {"recheck", "handoff"} THEN {feeder.task.track} ELSE {}
Running == {w \in Workers : worker[w].pc \in {"begin", "hash", "analyse", "send", "cleanup"}}
Starting == {w \in Workers : worker[w].pc = "begin"}
TracksOf(ws) == {worker[w].task.track : w \in ws}
AdmissionsAreOwned ==
    /\ ramAdmissions = Booked \cup TracksOf(Running)
    /\ taskLeases = Booked \cup TracksOf(Starting)
    /\ used = Cardinality(Booked) + Cardinality(Running)

\* No more than DownstreamTracks tasks are past the reservation at once, counting a
\* task until its storage is cleaned up, and never two of them on one track.
OneDownstreamTrack ==
    /\ Cardinality(Booked) + Cardinality(Running) <= DownstreamTracks
    /\ \A v, w \in Running : worker[v].task.track = worker[w].task.track => v = w

\* Every waiting worker is known to the feeder, as a token or in readyWorkers, and a
\* task in the feeder's hand always has a waiting worker, so that the handoff on the
\* unbuffered taskQueue cannot hang.
WaitingWorkersAreCounted ==
    LET waiting == {w \in Workers : worker[w].pc = "waiting"}
    IN  feeder.pc # "gone" => /\ feeder.ready + readyCh = Cardinality(waiting)
                              /\ feeder.task # None => feeder.ready > 0

\* A row that nobody may claim any more has an owner that will settle it.  A QUEUED row
\* is in the hand of the feeder, of a worker that begins, or a status is on its way; a
\* RUNNING row is at work, waits for the ingest worker, or a status other than RUNNING
\* is on its way.
Holding == {"preflight", "reserve", "recheck", "parking", "handoff"}
Working == {w \in Workers : worker[w].pc \in {"hash", "analyse", "send"}}
StatusSent(i, t) == opQueue[i].kind = "status" /\ opQueue[i].track = t
Settles(i, t) == StatusSent(i, t) /\ opQueue[i].status \notin {"QUEUED", "RUNNING"}
NoOrphanedRow ==
    \A t \in Tracks :
        /\ Alive /\ status[t] = "QUEUED" =>
              \/ feeder.pc \in Holding /\ feeder.task.track = t
              \/ t \in TracksOf(Starting)
              \/ \E i \in 1..Len(opQueue) : StatusSent(i, t)
        /\ Alive /\ status[t] = "RUNNING" =>
              \/ t \in TracksOf(Working)
              \/ \E i \in 1..Len(ingestQueue) : ingestQueue[i].track = t
              \/ \E i \in 1..Len(opQueue) : Settles(i, t)

\* The queue keeps the promise of the durable shelf: accepted tracks survive parks,
\* conflicts, outages, crashes and restarts, a track is COMPLETED only with its audio in
\* the library, which never shrinks, and every open track is settled in the end.
Promise == INSTANCE Shelf WITH
    state <- [t \in Tracks |-> CASE status[t] = "ABSENT" -> "absent"
                                 [] status[t] = "COMPLETED" -> "done"
                                 [] status[t] = "FAILED" -> "failed"
                                 [] OTHER -> "open"],
    library <- {h \in Hashes : pg[h].version > 0}
ImplementsShelf == Promise!FairSpec

\* A graceful stop ends: nobody in the feeder, the workers and the ingest worker waits
\* for somebody who has left.
StopEnds == mode = "stopping" ~> mode = "down"

(***************************************************************************)
(* What the documents say and the code does not do.                        *)
(***************************************************************************)
\* A forced request re-runs the whole analysis of its tracks (README.md): while its
\* payload is on the shelf, a worker will analyse the track for it, unless a later
\* request replaces the payload or the row says FAILED.
OnShelf(r, t) == payload[t] = r /\ request[r].force /\ status[t] = "PENDING"
AnalysedFor(r, t) ==
    \E w \in Workers : /\ worker[w].pc = "analyse"
                       /\ worker[w].task.track = t /\ worker[w].task.req = r
ForcedIsAnalysed ==
    \A r \in Requests, t \in Tracks :
        OnShelf(r, t) ~> AnalysedFor(r, t) \/ payload[t] # r \/ status[t] = "FAILED"

\* A forced request ends with its result in the library (README.md), or FAILED, unless
\* a later request replaces it.
ForcedIsSettled ==
    \A r \in Requests, t \in Tracks :
        OnShelf(r, t) ~> payload[t] # r \/ status[t] \in {"COMPLETED", "FAILED"}

\* Replaying send_failed.db is safe however often it is done (docs/dlq_error_recovery.md):
\* a complete row of the library stays complete.
ReplayIsSafe == [][\A h \in Hashes : pg[h].complete => pg'[h].complete]_pg

\* A restart resets the RUNNING and PENDING rows to FAILED (docs/dlq_error_recovery.md).
RestartFailsInterrupted ==
    [][mode = "down" /\ mode' = "up" =>
          \A t \in Tracks : status[t] \in {"RUNNING", "PENDING"} => status'[t] = "FAILED"]_vars

=============================================================================
