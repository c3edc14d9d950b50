# Verification of the flac analyzer

TLA+ models of the Go orchestrator (`orchestrator/`), of the Python daemons as the orchestrator sees
them, and of the Python programs that write FLAC files and the library; TLC configurations that check
them on small instances; TLAPS proofs for instances of every size. All paths are relative to the
repository.

1. The system
2. Modules and how they correspond to the code
3. Runs: bounds, fairness, what they show
4. Proofs
5. What disagrees with the documents
6. What is not modelled, and why
7. Plan

## 1. The system

A client posts tracks to the HTTP server. The orchestrator writes them to SQLite
(`orchestrator.db`), which is the acceptance boundary; a feeder claims rows one by one and hands them
to worker goroutines, which separate the audio (Demucs daemon), analyse each stem on a CPU and a GPU
lane (worker daemons), and queue the result for one ingest goroutine, which updates PostgreSQL or
saves the payload in `send_failed.db`, from which `zig/retry_ingest.py` replays it. Beside it run
tools that repair or migrate the library and the tags of the files.

| component | state it keeps | operations | talks to | correct when |
|---|---|---|---|---|
| state database, writer goroutine (`state/db.go`) | the `task_state` rows; the channel `opQueue` | check/insert batch, set status, claim, requeue, park, reset at start | handlers, feeder, workers, ingest | no row is lost, every claimed row has an owner, COMPLETED implies stored |
| HTTP intake (`http_server.go`, `EnqueueDurableBatch`) | one handler per request | preflight lookup, write the batch, wake the feeder | PostgreSQL, writer, `taskWakeCh` | an accepted batch is durable and will be settled |
| durable feeder (`durable_queue.go`) | `readyWorkers`, the claimed task | wake, count ready workers, requeue, claim, preflight, reserve, recheck, park, hand over, abandon | writer, `workerReadyCh`, `taskQueue`, admission | it never blocks on a worker that is not there, never keeps a row or booking it gives up |
| worker pipeline (`dispatcher.go`, `pipeline_step.go`) | one task each | announce, begin, duplicate check, analyse, send to ingest, clean up | feeder, stages, writer, ingest queue | every path ends in one settled status and returns ticket and RAM |
| planning (`analysis_decision.go`, `analysis_preflight.go`) | none | skip, full, mix only, stems only | PostgreSQL | a skipped track is complete |
| ingest and DLQ (`ingest_pgx.go`, `zig/retry_ingest.py`, `zig/ingester.py`) | `ingestQueue`, PostgreSQL rows, `send_failed.db`, result files | compare-and-set update, insert, save, replay, clean up | writer, library | nothing stored or analysed is lost |
| lifecycle (`main.go`, `Stop`) | process mode | graceful stop, exit, crash, restart | all | interrupted work resumes, a stop ends |
| GPU arbiter (`gpu_arbiter.go`) | owner flag, FIFO of channels | acquire, cancel, release | Demucs stage, GPU lane, cleanup | one holder, no lost or starving waiter |
| Demucs stage, wavefront, stem lifecycle (`pipeline_demucs.go`, `stem_lifecycle.go`, `pipeline_features.go`) | arenas, slot, lease, daemon, arbiter; lanes; stem states and references | allocate, acquire, separate, publish, consume, join, clean up | Demucs and worker daemons, arbiter, contexts | success is complete, nobody reads an unmapped arena, everything is given back, it ends |
| admission and gatekeeper (`admission.go`, `gatekeeper.go`) | leases, RAM ledger, receipts by key, capacities | plan, reserve, undo, hand over, take, release, shrink | feeder, workers | the books balance and nothing is granted beyond the capacity |
| Demucs pool and slots (`demucs_daemon.go`, `demucs_scheduler.go`, `semaphore.go`, `demucs_daemon.py`) | limit, slots in use, sleepers; the listed, idle and starting daemon | acquire, prewarm, start, ask, restart, recycle, release, close | stages | one process on the GPU, no forgotten waiter, none alive after Close |
| feature daemon pool (`daemon_pool.go`, `daemon.go`, `worker_cpu_daemon.py`, `worker_gpu_daemon.py`) | idle channel, registry, reservations; pipes and request counts of each process | acquire, spawn, call, release, prewarm, trim, close | lanes | one user per daemon, counts match, no answer reaches a stranger, no process leaks |
| writers of tags (`flac_tagger.py`, `zig/repair_flac_tags.py`, `zig/check_tag_consistency.py`, `zig/migrate_hnr.py`) | the file, its lock file, temporary copies | lock, read again, decide, copy, rename, move, unlock | each other | no update is lost, a success stays true, a crash leaves a whole file |
| decoding and hashing (`flac_decode.py`, `worker_hash.py`) | slices, the hash of each | cut by the cue sheet, four decoders | files | a sample belongs to one slice, the identity of a track is its own audio and does not change |
| library tools (`ingester.py`, `retry_ingest.py`, `fix_empty_json.py`, `migrate_hnr.py`, `fix_empty_meta.py`, trigger of `sql/schema.sql`) | rows and their history, DLQ, uncommitted batches | see above | PostgreSQL | a guarded write replaces only what it has seen, no result is lost between its file, the DLQ and the row |
| the rest | | single-task and direct modes, configuration, planner, statistics, signal processing, dashboards | | section 6 |

What makes it hard: a forced request overtakes a run of the same track; statuses of one task come
from several goroutines through one queue; PostgreSQL may commit without an acknowledgement; what was
read is written back much later (snapshots, the DLQ, batches); stop cancels the feeder between claim
and hand-over; a timed-out separation leaves its reader goroutine behind; daemons are started outside
the lock that counts them and retire by two counts; capacity shrinks below what is in use; a lock file
is removed while others open it. `PROJECT.json` lists each such hazard at its line with the properties
that cover it.

## 2. Modules

| module | what it is |
|---|---|
| `Shelf` | abstract promise of the queue: tracks are absent, open, done or failed; done needs a stored result; open tracks settle |
| `TaskQueue` | intake, rows, writer, feeder, workers, ingest, DLQ, process; implements `Shelf` by a refinement mapping (`Promise`) |
| `StemWavefront` | one run of `executeDemucsStage` in shared-memory mode with its reader, consumers, lifecycle and contexts |
| `GPUArbiter` | every branch of `Acquire` and `Release` |
| `WorkerPool` | the pool of feature daemons, its clients and the loops of the Python processes |
| `DemucsPool` | slot semaphore, scheduler, pool of one daemon, loop of the Python process |
| `Admission` | leases, RAM ledger and receipts in machine words |
| `FlacTagger` | the programs that write tags into one file, with the lock file as a name and as a file |
| `FlacDecode` | cutting by cue sheet, the chain of decoders, what each of them hashes |
| `Library` | rows and DLQ with every program that writes them |
| `MCComponents` | the components that share no variable, side by side: `part` says which one a behaviour explores |
| `MCTaskQueue`, `MCStemWavefront` | constants and symmetry for TLC |
| `TaskQueueProofs`, `StemWavefrontProofs`, `WorkerPoolProofs`, `AdmissionProofs`, `LibraryProofs` | theorems about the module of that name |
| `GPUProofs`, `FlacProofs` | theorems about `GPUArbiter` and `DemucsPool`, about `FlacTagger` and `FlacDecode` |
| `Induction` | induction over finite sets and numbers, and what folds compute: lemmas that `AdmissionProofs` and `FlacProofs` use |

**TaskQueue.** A row is `status[t]`, `payload[t]`, `cooled`. The writer's channel is `opQueue`; one
action per operation (`WriteCheck`, `WriteStatus`, `WriteRequeue`, `WriteClaim`, `WritePark`) applies
its head. The feeder is a program counter whose steps end where another goroutine can intervene: a
send, a receive, a lookup. `Handoff` is the rendezvous on the unbuffered `taskQueue`. The PostgreSQL
row is reduced to a version (`id` and `xmin`), the path it is stored under and whether both halves of
the features are there. `Analyse` is one choice of outcome: the stages inside are `StemWavefront`.
A reservation either fits or not: the numbers are in `Admission`. `Fault` stands for an outage, a lost
acknowledgement, a refused reservation, a stage that fails. The single-row fast path `EnqueueDurable`
has the effect of a batch of one.

**StemWavefront.** One action per step of the stage in the order of the code. `held[r]` counts how often
resource `r` has been taken less how often it was given back, and `deferred` are the resources whose
release a defer will make. `Return(e, given)` is one `return`: `given` is what the code gives back by hand
just before it (`closeArenaOnError`, and the daemon before its defer is in force), the defers do the
rest. What each return must give differs from place to place, and one that forgets or repeats a release
leaves a count other than zero. `arbiter` is the GPU holder.
The reader goroutine of `SeparateWithEvents` (`ReadEvent`, `ReadAnswer`, `FreezeStem`, `PublishStem`,
`RecordStem`, `SendJob`) lives on after the call has returned. Consumers run
`TakeJob`/`Quit`, `AcquireStem`, `AwaitArbiter`, `Run`, `ReleaseStem`; `FailAll` is the `AfterFunc`.
An error is reduced to what decides the task's fate: retryable or not. Shared-memory mode only (in
disk mode freezing is a no-op); the branches for a full ready queue and an unexpected event cannot be
reached and are left out, as are `MarkReady` and `Freeze`, which only tests call; `fail` sets `w.err` and
cancels the lifecycle in one step; other tasks appear as faults that keep arbiter, slot or lease from
the stage; one stage at a time, as the downstream ticket of capacity 1 prescribes. The comment at
`pipeline_demucs.go:20` (one consumer per lane) is out of date; the model follows the code.

**GPUArbiter.** `Acquire` is split at its unlocks: enqueue, wait, see the grant or the cancellation,
then lock again. A context may end at any moment; the `select` may take either ready case.

**WorkerPool.** `Acquire` and `doSpawn` are split at every unlock: reserve, start outside the mutex, register,
or find that the caller's context has ended or the pool has closed. A process is starting, running
or gone; `wire` is what is in its pipes, `taskCount` the count of the Go client and `served` that of the
Python loop. The id of an answer is never compared, so that a late answer would reach the next
caller; `AnswersAreAwaited` shows that a daemon with something in its pipes is never handed on.

**DemucsPool.** A separation takes a slot and then the daemon, a mix-only decode the daemon alone.
`sync.Cond` is `woken`, the channel of the semaphore `notified`. The scheduler's only effect, to lower
the limit to its clamped capacity of 1, is `LowerLimit`. Restart after a crash and recycling after
`TasksPerClient` requests start the next daemon from within `Release`, outside the mutex.

**Admission.** One action per call of the feeder and the worker. Sums and differences are those of
`uint64`, with `MaxWord + 1` values, `intSafeSub` included; the plan of a task replaces the capacity by
what the machine has at the moment. `taskLease` and `ramEntry` are filed by key, which two runs of
one track share.

**FlacTagger.** `lockName` is the file the name `<file>.tagger.lock` leads to, `lockFile[p]` the file that
process `p` has open: after a removal they differ. The file is whole or broken; `MoveBegins` and
`MoveEnds` are the copy that `shutil.move` falls back to when the rename is refused. `overtaken[p]` is a
history variable: who wrote since `p` decided. `Posix` says whether an open file can be removed.

**FlacDecode.** A file is its two cue sheets (text tag and block), its bit depth and where its stream
breaks off (what can be read is a prefix; damage in the middle is not told apart). A hash is the set
of byte positions, of one channel, that were hashed and their sample format. The last fallback reads
the stream itself: `ReadHeader` takes what the buffer of the WAV header holds, `SkipChunk` and
`ReadChunk` one `read` each, whose ends need not be those of a sample, until `StreamEnds`. The flac
program and libsndfile are external and return what they are asked for as far as the file goes. `flac`
runs with `-F` and nothing compares the length of the audio, so `FlacSucceeds`, `LongSucceeds` and
`StreamEnds` accept a short decode, an empty one included, as the code does. Recursion over the lines
of a sheet is written with folds. The stable sort and the filter of the slices are stated by what they
return (`InOrder`, `Proper`), so that theorems can be proved of them.

**Library.** A document is the two halves of the features, each named by the run that made it, and its
tags. `Write(docs)` is a committed statement, after which no snapshot of the row is current. A batch keeps
its updates in `pending`, whose rows are locked until `CommitBatch`. `stored` is a history variable (what
was ever committed), by which a delete from the DLQ is judged. Writers that must wait for a lock use
`Free`. The history table and its trigger are not modelled.

Operators whose comment begins with "mutant" are plausible bugs, kept to show that the properties
notice them; the specifications do not use them.

## 3. Runs

| run | instance | distinct states | shows |
|---|---|---|---|
| `task_queue` | 2 copies of one recording, 2 workers, 1 request, 1 fault, 1 stop or crash | 1,423,779 | `TypeOK`, `CompletedIsStored`, `OneDownstreamTrack`, `AdmissionsAreOwned`, `WaitingWorkersAreCounted`, `NoOrphanedRow` |
| `task_queue_live` | 2 tracks, one with an incomplete row, 2 workers, 1 stop or crash, fair | 165,156 | `CompletedIsComplete`, `ImplementsShelf` (safety and liveness), `StopEnds` |
| `stem_wavefront` | 2 stems, 2 CPU consumers, the GPU consumer, 1 fault, fair | 526,812 | `TypeOK`, `FeaturesAreComplete`, `ReadersAreSafe`, `RefsAreReaders`, `HoldsAreReturned`, `StageEnds` |
| `components` | each of the seven parts alone, below | 526,578 | the invariants and action properties of the seven parts |
| `components_live` | 3 callers of the arbiter; 2 lanes of a pool of 1 daemon; fair | 16,111 | `NoStarvation`, `CloseEnds` |
| `forced_lost`, `forced_copy`, `replay`, `wavefront_panic`, `wavefront_retry`, `pool_stranded`, `dlq_unsent` | the smallest instances that show it | | section 5 |

The parts of `components`:

| part | instance | states | properties |
|---|---|---|---|
| `gpu` | 4 callers | 5,425 | `TypeOK`, `OneHolder`, `NoLostWaiter` |
| `workers` | 2 lanes, 1 warmer, capacity 1, 2 names of processes, recycling after 2 requests, 1 fault | 42,602 | `PoolTypeOK`, `OneUser`, `BooksMatch`, `RetirementIsSeen`, `AnswersAreAwaited` |
| `demucs` | 2 separations, 1 mix-only decode, 1 prewarm, limit 2 lowered to 1, recycling after 2, 1 fault | 73,156 | `OneGPUPlace`, `NoForgottenWaiter`, `ClosedIsDead` |
| `admission` | 2 runs, 2 keys, words of 2 bits, 4 leases | 19,805 | `BooksBalance`, `NoOvercommit` |
| `tagger` | 2 taggers, 1 repair tool, 1 migration, 2 tags, 2 attempts, 1 fault | 217,493 | `TaggerTypeOK`, `NoLostUpdate`, `SuccessIsWritten`, `BrokenInPlaceOnly` |
| `decode` | sheets of up to 2 tracks in any order, past the end, without index, with one number; 4 samples of 2 or 3 bytes, a stream that ends after 1, 2 or 4 of them, a first buffer of 3 bytes, chunks of 4 | 130,146 | `SlicesPartitionTheFile`, `HashIsOfItsSlice`, `HashIsStable` |
| `library` | 1 audio, one program of each kind, programs and faults together at most 3 | 37,951 | `ResultsSurvive`, `SnapshotHolds`, `RepairsFillGaps` |

**Bounds and why they suffice.** Two tracks, two workers and two requests are what a conflict between
runs takes: every hazard of the queue is about two parties and one row, ticket, hash or token. One
ticket is the code's own capacity. `IngestCap = 1` instead of 1000 makes the queue full. One fault
(`MaxFaults`, `MaxPoolFaults`, `MaxDemucsFaults`, `MaxTagFaults`), because the code treats each
failure by itself; the fault may be at any of its places. Two copies of one recording make the two
tracks meet in every table. Four callers give the arbiter a queue of three, so that head, middle and
tail can be cancelled. A pool of one daemon makes the second lane wait, and a limit of two requests
retires a daemon within a behaviour. Words of two bits make every sum able to wrap. `TrackCapacity` is
2 in `components` instead of the code's 1, so that two runs hold leases together. `RetryCount = 2`
instead of 5 leaves one attempt after a failure. `Decodings = 2` compares two hashes of one slice.
`HeaderBytes = 3` and `ChunkBytes = 4` put the end of the first buffer and of a chunk before, at and
inside the sample a slice begins with, and make a slice take several reads; slices start at the
beginning of the file, after one sample (in the first buffer for 16 bits, and where it ends for 24),
after three, and past the end. In the library one audio suffices, because no statement relates two;
`LibraryBudget = 3` lets any two writers meet with a fault between them, or any three without. The
components share no variable and are explored apart in one run, which is the sum and not the product
of their states. The invariants that are proved (section 4) depend on none of these bounds.

Deadlock is checked except where the modelled thing ends: one stage with its reader and consumers,
and the components, whose goroutines and programs end.

**Fairness.** Weak fairness of goroutines (the Go scheduler), of a pipeline (each of its stages has a
timeout), of cooldowns (the clock) and of the restart (a supervisor, without which nothing can be said
after a crash). In `StemWavefront` a reader blocked on a silent daemon is covered by the context that
kills the daemon, so that its next step is fair. In `WorkerPool` (`PoolFairness`) a process becomes ready or fails
within the handshake's 30 s, and a call is answered or ends with its context; a lane outside a call
need not come back. There is no fairness for posting, faults, stop, crash or the replay. Strong
fairness appears only in `PoolHandOff`, for the run `pool_stranded`: a value sent on a channel goes to the
goroutine that has waited longest, so that a waiting lane is not passed over for ever. The lane is
stranded nevertheless.

**The refinement.** `Promise` maps ABSENT, COMPLETED and FAILED to absent, done and failed, the rest
to open, and the library to the hashes that have a row. Every step of the queue must be a step of the
shelf: a batch opens its tracks together, done needs a stored result, the library never loses a hash.
Its liveness holds with no faults in the run: with an outage at each attempt a track may be retried
for ever, which the code intends.

## 4. Proofs

Checked by TLAPS for all constants that satisfy the named assumptions of the modules
(`TaskQueueAssumption`, `WorkerPoolAssumption` and so on; the arbiter needs none).

**TaskQueueProofs.**
- `TypeCorrect`, `CompletionIsSound`. A COMPLETED status is sent by preflight, duplicate check or ingest
  when the row exists, and applied much later, so the invariant ranges over the operations in flight.
  Inductive are the types together with `AnswersOK`: at most one operation whose answer the feeder
  awaits is in the queue, and only while the feeder waits. Without it, `WriteClaim` could meet a feeder
  that holds a task.
- `CompletionIsWhole` (`CompletedIsComplete`), for any incomplete rows of earlier versions (`Legacy`), as long
  as no half payload is replayed from `send_failed.db`. The premise is needed: run `replay` shows that
  such a replay replaces a complete row. `HalfInv`: until an incomplete row is
  complete nothing reports its track COMPLETED, because the preflight passes the track on with the version
  it saw, the duplicate check is only for tasks that saw none, and what the ingest writes is whole.
- `AdmissionsHaveOwners`, `DownstreamIsBounded`, `WorkersAreCounted`: the books are functions of the program
  counters (`BooksInv`: what each place of feeder and worker holds, that empty hands hold nothing, that
  a token of `workerReadyCh` is a waiting worker). Counting goes over finite sets whose members change
  one at a time.
- `RowsHaveOwners` (`NoOrphanedRow`): a QUEUED or RUNNING row has an owner now, or an operation in `opQueue`
  that gives or settles it. The invariant needs that no QUEUED status is ever queued, that whatever is running will
  send a settled status, and that a park in flight is of the task the feeder holds.
- `KeepsThePromise`: every step of the queue is a step of `Shelf` or a stutter, and so is the initial state: the
  safety half of the refinement. It rests on `CompletionIsSound`.

**GPUProofs.** Of the arbiter: `ArbiterTypes`, `Exclusion`, `QueueIntegrity`. The three together are inductive:
exclusion after a release needs the head of the queue to be a live waiter without a grant.
Of the Demucs pool: `PoolTypes`, `OnePlace`, `DeadAfterClose`, `WaitersAreRemembered`. At most one daemon is listed and
none while a start is under way; this is why the idle list never holds two, why the start that a
restart or a recycling reserves is the only one, and why a waiter has somebody to wait for. The slots
in use are counted in a second invariant (`Count`).

**StemWavefrontProofs.** `TypeCorrect`, `SafeReading`, `Returning`, `References`, `Completeness`. The
invariant says that `held`, `deferred` and the arbiter are functions of the stage's program counter
(`HeldAt`, `ArbiterAt`), so that what a `return` gives by hand and what its defers give are together
what has been taken (`GPULane` because a lane must not free an arbiter it does not own), that nobody
works before the separation or after the join (`Lifetimes`), that the lanes are closed exactly from
`CloseInput` on (`ClosedAt`), and that every stem on its way to a consumer is frozen (`Mapped`): a
late reader passes stems on without freezing, but only once the arenas are closed, when the lanes are,
too. `InHand` bounds references by acquisitions. `References` (`RefsAreReaders`) needs only the counts
(`Counted`). `Completeness` (`FeaturesAreComplete`) follows a stem through its lanes: it is published
once and is in one place of a lane, in the queue, with one consumer or in the features (`OnceEach`);
until the wavefront fails each published stem is somewhere in each lane, and its acquisitions are the
lanes that have begun to read it (`NothingLost`); a separation that ends without an error has no
reader left (`SeparationEnds`). So when the consumers have quit, the features of both lanes are the
published stems and all are released (`AllRead`), which a late `failAll` cannot undo (`AfterJoin`).
TLC checked each of these parts on the instance of `stem_wavefront` first.

**WorkerPoolProofs.** `TypeCorrect`, `OneUserPerDaemon`, `BooksAgree`, `AnswersHaveAWaiter`, `RetirementIsNoticed`,
from one invariant: a daemon is in the channel, in one pair of hands or in neither (`OneUser`); the count
of reservations is the number of goroutines that start one (`Count`); the registry is what is idle or
in hands (`Registry`), within the capacity (`Capacity`); a process that runs is known to somebody
(`Known`); what is in its pipes is awaited; the Python loop is ahead of the client by at most the answer
in the pipe (`Abreast`), which is why a retired loop is never taken for healthy.

**AdmissionProofs.** `TypeCorrect`, `ReservationsFit` (`NoOvercommit`), for words of any width. The latter does not
need balanced books: the free amount is a clamped difference, so no wrapped sum passes the
comparison. `Balance` (`BooksBalance`): what is used is the exact sum of the leases. `Books` adds to the
balance where a run keeps its receipts (`LeasesHeld`), that a key has the receipts of one run (`Filed`,
`Entries`) and that the feeder handles one task at a time (`FeedsAlone`); by the last, no task files its
receipts under a key where those of another still wait to be handed over. A step changes
one term of a sum (`Sums`), and a term is never more than the sum, so that neither the addition wraps nor
the subtraction is clamped. Sums are over finite sets, hence the assumption that `Keys` is finite.

**FlacProofs.** Of the tags: `TaggerTypes`, `CrashSafe`, and, assuming `~Posix`, `NothingIsLost` (`NoLostUpdate`) and
`SuccessHolds` (`SuccessIsWritten`). On Windows an open lock file cannot be removed, so that whoever holds a
lock holds it on the file the name leads to (`Exclusive`); what a success has reported is kept unless the
file was clobbered or broken (`KeptUnlessBroken`).
Of decoding, for sheets of any length: `Partition` (`SlicesPartitionTheFile`), `OwnSamples`
(`HashIsOfItsSlice`), `StableHash` (`HashIsStable`). The fold over the lines of a sheet yields typed tracks; the
sort is a permutation, its result ascends, and a cut of ascending starts puts each sample into one slice
(`SampleInOneSlice`). `DecodeInv` adds that the slices are those of the file's sheet, wherever the decoding is,
and that the hashes of a short 16-bit slice are one (`OneHash`). `OwnSamples` follows the bytes of a stream
(`StreamAt`): while it skips, its position and what is left to skip add up to the first byte of the slice;
while it reads, it has kept the bytes from there to its position, and the rest of the slice is left. That
holds for any size of the first buffer and the chunks, and for a stream that ends anywhere, in the skip
too. What is kept at the end is all that can be read of the slice (`BytesRead`).

**LibraryProofs.** `SnapshotsAreCurrent`, `ResultsAreKept`, `RepairsAreGuarded`. `Typed` says that
rows never go and what was read stands. Every step leaves the rows alone or is one `Write` of
documents (`StepWrites`), which ends the currency of every snapshot of its rows; so a snapshot that is
still current is the row (`SnapshotInv`), and what an ingest merges into it is not older than the row.
For the repairs, `GapInv`: what is sent, saved, read to be sent again or converted is not a repair's;
a document with an old half is not either; a batch that writes tags writes the halves its row still
has, because it holds the lock (`LockedRows`).

**Induction.** The library's induction theorems take an operator as a parameter, which the provers cannot
instantiate. `SubsetInduction` and `NaturalInduction` take what is to be shown as a set instead, and follow from
the minimal element of a well-founded order (`WFMin`). A fold of the community modules is a function that is
chosen: `FoldExists` shows that there is one, `FoldStays` that a property of its values is kept from step to
step, `FoldSame` that its value depends on nothing but its steps.

**Only model-checked.** All liveness (`NoStarvation`, `CloseEnds`, `StopEnds`, `StageEnds`, the fair part of
`ImplementsShelf`): temporal properties under fairness are out of the prover's reach. Every other property
of the passing runs is a theorem, some under the premises stated above. That the models have the violations of section 5 is shown by TLC's
counterexamples.

## 5. What disagrees with the documents

| run | document | code |
|---|---|---|
| `forced_lost` | README: `-Force` re-analyses processed tracks | a forced batch makes the row PENDING while another run of the track is in hand; that run's RUNNING and COMPLETED overwrite it and the request is never served |
| `forced_copy` | the same | a forced copy under a new path conflicts on the audio hash at every ingest and is re-analysed for ever |
| `replay` | `docs/dlq_error_recovery.md:77`: replaying is always safe | a half payload saved earlier replaces a row that has since become complete |
| `wavefront_panic` | `docs/post_demucs_multitask_requirements.lrf:10`: a timeout fails closed | when the context ends while the reader is publishing, the stage closes the lanes under it and the reader's `select` can send on a closed channel, which ends the process |
| `wavefront_retry` | the same file, line 11: exhausting a wait is retryable | a lane's retryable error fails the next publication; the separation's terminal error then hides it and the task becomes FAILED |
| `pool_stranded` | `daemon_pool.go:87`: Acquire spawns a new daemon if necessary | a lane that waits for a full pool is not woken when a start is given up or an unfit daemon is closed: it waits, with the pool empty, until its context ends |
| `dlq_unsent` | `decisions.md:50`: only records that succeeded are deleted from the DLQ | the delete is by audio hash; a newer payload saved since the read is deleted unsent |

Seen while modelling, without a run:

- `docs/dlq_error_recovery.md:92` and `docs/state_diagram.md:40`: after a restart RUNNING and PENDING become
  FAILED; `ResetStaleTasks` makes QUEUED PENDING and RUNNING FAILED_MAYBE_RETRY.
- `docs/dlq_error_recovery.md:39`: a payload saved to the DLQ makes the task COMPLETED;
  `ingest_pgx.go:310` makes it FAILED_MAYBE_RETRY.
- `docs/dlq_error_recovery.md:80`: nothing is sent twice; a crash between the commit and the delete from
  `send_failed.db` sends again.
- `docs/workload_scheduler_requirements.lrf:4` asks for aging; claims are ordered by file size alone.
- `flac_tagger.py:339`: lost updates are prevented completely. Where an open file can be removed, they are
  not: the lock file is removed after it is unlocked (391), and with three processes two of them hold a
  lock on different files. `FlacTagger` with `Posix = TRUE` shows it; the program runs on Windows.
- `migrate_hnr.py` saves tags without the lock, and its features may be stale when it writes them, so that
  `sql/schema.sql:8` ("always latest") does not hold of them; what it replaces is in the history. A change
  of the predictions alone is not archived by the trigger.
- `repair_flac_tags.py --force` is not passed on to the writer.
- `migrate_features.py` selects columns that the schema lacks and ends there; `fix_empty_meta.py` logs
  success for rows of a transaction that has been aborted.

## 6. What is not modelled, and why

- SQLite statement errors (logged or returned, the row stays as it was), `count_waiting` and flush
  operations, schema migration; `NoOrphanedRow` holds only while statements succeed.
- Panic recovery of the ingest worker, predictions and flat columns, roles and indexes, dry runs.
- The mix-only stage: a straight line that takes an arena and a daemon; its half of the features is a
  value of `TaskQueue`, its use of the daemon is in `DemucsPool`.
- Byte layout and access control of shared memory, `VerifyIntegrity`: system calls; a failure is an
  outcome of `Finish`.
- The gatekeeper's GO/NOGO table, the disk and the handling of memory pressure, which closes the cache of
  idle arenas;
  the policy table of `scheduler.go`; the order of the deferred closes and the lock file of the process.
- The single-task and unregistered modes: the same pipeline without the queue.
- `worker_daemon.py`, the earlier loop with the protocol of the two lane daemons that are modelled, and
  the direct mode of `main.py` and `pipeline.py` (`process_single_flac_file_directly`), the earlier program for one
  file. The latter's `write_flac_tags_atomic` takes no lock, and `process_single_flac_file` calls an
  `insert_to_postgres_dummy` that is defined nowhere.
- The signal processing in Python: floating-point arrays and neural networks; what the daemons compute
  is one choice of outcome.
- Configuration parsing, the planner's arithmetic, statistics, metrics, logging: no control that the
  modelled parts depend on. The dashboards (11,764 lines that print JSON) and one-off scripts have no
  state. Together with the signal processing they are most of the repository's Python lines, which is
  why the models stand for a small share of them.

## 7. Plan

Done: the queue and its abstract shelf; the stage with its goroutines; the arbiter; both pools; the
books of admission; the writers of tags; decoding; the library; proofs of the safety of each.

| next | question |
|---|---|
| `StemWavefront` and `GPUArbiter` together | the stage over the real FIFO instead of a holder variable |
| `StemWavefront` and `DemucsPool` together | Close of the pool at a stop, under a stage that is separating |
| `TaskQueue` with failing SQLite statements | which rows need the next start to find an owner |
| theorems | the safety of the compositions above; what holds in spite of the disagreements of section 5, for instance which of a forced request's orders are served |
