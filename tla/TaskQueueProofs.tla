-------------------------- MODULE TaskQueueProofs --------------------------
(* The types of the task queue, the soundness of COMPLETED, the books and  *)
(* the owners of rows, and that the queue keeps what the Shelf promises,   *)
(* for every set of tracks, hashes, workers and requests and every bound.  *)
EXTENDS TaskQueue, TLAPS, FiniteSetTheorems

(***************************************************************************)
(* The inductive invariant: TypeOK in parts, and with each part what makes *)
(* it inductive.                                                           *)
(***************************************************************************)
\* A row that exists carries the payload of a request, and only a row that waits for its
\* cooldown can have passed it.
RowsOK ==
    /\ status \in [Tracks -> RowStatus \cup {"ABSENT"}]
    /\ payload \in [Tracks -> Requests \cup {None}]
    /\ cooled \in SUBSET Tracks
    /\ \A t \in Tracks : status[t] # "ABSENT" => payload[t] \in Requests
    /\ \A t \in cooled : status[t] = "FAILED_MAYBE_RETRY"

\* A library row that belongs to a track has a version.
RemoteOK ==
    /\ pg \in [Hashes -> LibraryRow]
    /\ dlq \in [Hashes -> Payload \cup {None}]
    /\ \A h \in Hashes : pg[h].track \in Tracks => pg[h].version > 0

RequestsOK ==
    request \in [Requests -> [pc : RequestPC, batch : SUBSET Tracks, force : BOOLEAN,
                             required : SUBSET Tracks]]

QueuesOK == opQueue \in Seq(Op) /\ ingestQueue \in Seq(Task)

\* Past the claim the feeder has a task, and it claims only while it counts a worker.
FeederOK ==
    /\ feeder \in [pc : FeederPC, task : Task \cup {None}, ready : Nat]
    /\ feeder.pc \in {"preflight", "reserve", "recheck", "parking", "handoff"} =>
          feeder.task \in Task
    /\ feeder.pc \notin {"select", "loop", "gone"} => feeder.ready > 0

\* A worker past the receive has a task.
WorkersOK ==
    /\ worker \in [Workers -> [pc : WorkerPC, task : Task \cup {None}, ticket : BOOLEAN,
                              admitted : BOOLEAN]]
    /\ \A w \in Workers : worker[w].pc \notin {"idle", "waiting", "gone"} =>
                             worker[w].task \in Task

AdmissionOK ==
    taskLeases \in SUBSET Tracks /\ ramAdmissions \in SUBSET Tracks /\ used \in Nat

ProcessOK ==
    /\ wake \in BOOLEAN /\ readyCh \in Nat
    /\ mode \in {"up", "stopping", "down"}
    /\ faults \in Nat /\ restarts \in Nat

Types == /\ RowsOK /\ RemoteOK /\ RequestsOK /\ QueuesOK /\ FeederOK /\ WorkersOK
         /\ AdmissionOK /\ ProcessOK

\* The feeder waits for the answer to at most one message of its own.
Asking == {"retrying", "claiming", "parking"}
Asked(i) == opQueue[i].kind \in {"requeue", "claim", "park"}
AnswersOK ==
    /\ \A i \in 1..Len(opQueue) : Asked(i) => feeder.pc \in Asking
    /\ \A i, j \in 1..Len(opQueue) : Asked(i) /\ Asked(j) => i = j

IInv == Types /\ AnswersOK /\ CompletedIsStored

(***************************************************************************)
(* Lemmas about the messages of the state writer and about its queue.      *)
(***************************************************************************)
LEMMA Messages ==
  /\ \A r \in Requests : CheckOp(r) \in Op /\ CheckOp(r).kind = "check"
  /\ \A t \in Tracks, s \in RowStatus : /\ StatusOp(t, s) \in Op
                                        /\ StatusOp(t, s).kind = "status"
                                        /\ StatusOp(t, s).status = s
  /\ ClaimOp \in Op /\ ClaimOp.kind = "claim"
  /\ RequeueOp \in Op /\ RequeueOp.kind = "requeue"
  /\ \A t \in Tracks : ParkOp(t) \in Op /\ ParkOp(t).kind = "park"
<1>1. /\ \A r \in Requests : CheckOp(r) \in Op
      /\ \A t \in Tracks, s \in RowStatus : StatusOp(t, s) \in Op
      /\ ClaimOp \in Op /\ RequeueOp \in Op
      /\ \A t \in Tracks : ParkOp(t) \in Op
  BY DEF Op
<1>2. /\ \A r \in Requests : CheckOp(r).kind = "check"
      /\ \A t \in Tracks, s \in RowStatus : StatusOp(t, s).kind = "status"
      /\ \A t \in Tracks, s \in RowStatus : StatusOp(t, s).status = s
      /\ \A t \in Tracks : ParkOp(t).kind = "park"
  BY DEF CheckOp, StatusOp, ParkOp
<1>3. ClaimOp.kind = "claim" /\ RequeueOp.kind = "requeue"
  BY DEF ClaimOp, RequeueOp
<1> QED
  BY <1>1, <1>2, <1>3

LEMMA MessageShapes ==
  ASSUME NEW op \in Op
  PROVE  /\ op.kind = "check" => op.req \in Requests
         /\ op.kind = "status" => /\ op.track \in Tracks /\ op.status \in RowStatus
                                  /\ op = StatusOp(op.track, op.status)
         /\ op.kind = "park" => op.track \in Tracks
<1>1. CASE \E r \in Requests : op = CheckOp(r)
  BY <1>1 DEF CheckOp
<1>2. CASE \E t \in Tracks, s \in RowStatus : op = StatusOp(t, s)
  BY <1>2 DEF StatusOp
<1>3. CASE op \in {ClaimOp, RequeueOp}
  BY <1>3 DEF ClaimOp, RequeueOp
<1>4. CASE \E t \in Tracks : op = ParkOp(t)
  BY <1>4 DEF ParkOp
<1> QED
  BY <1>1, <1>2, <1>3, <1>4 DEF Op

LEMMA SentQueue ==
  ASSUME QueuesOK, NEW op \in Op, Send(op)
  PROVE  /\ opQueue' \in Seq(Op)
         /\ Len(opQueue') = Len(opQueue) + 1 /\ Len(opQueue) \in Nat
         /\ \A i \in 1..Len(opQueue) : opQueue'[i] = opQueue[i]
         /\ opQueue'[Len(opQueue) + 1] = op
BY DEF QueuesOK, Send

LEMMA WrittenQueue ==
  ASSUME QueuesOK, opQueue # <<>>, opQueue' = Tail(opQueue)
  PROVE  /\ opQueue' \in Seq(Op) /\ Head(opQueue) \in Op /\ Head(opQueue) = opQueue[1]
         /\ Len(opQueue') = Len(opQueue) - 1 /\ Len(opQueue) \in Nat \ {0}
         /\ \A i \in 1..(Len(opQueue) - 1) : opQueue'[i] = opQueue[i + 1]
BY DEF QueuesOK

\* Messages that the feeder does not wait for leave its bookkeeping alone.
LEMMA AnswersSent ==
  ASSUME QueuesOK, AnswersOK, NEW op \in Op, Send(op),
         op.kind \notin {"requeue", "claim", "park"},
         feeder.pc \in Asking => feeder'.pc \in Asking
  PROVE  AnswersOK'
<1>1. \A i \in 1..Len(opQueue') : Asked(i)' => i \in 1..Len(opQueue) /\ Asked(i)
  BY SentQueue DEF Asked
<1> QED
  BY <1>1 DEF AnswersOK

LEMMA AnswersAsked ==
  ASSUME QueuesOK, AnswersOK, NEW op \in Op, Send(op),
         feeder.pc \notin Asking, feeder'.pc \in Asking
  PROVE  AnswersOK'
<1>1. \A i \in 1..Len(opQueue) : ~Asked(i)
  BY DEF AnswersOK
<1>2. \A i \in 1..Len(opQueue') : Asked(i)' => i = Len(opQueue) + 1
  BY <1>1, SentQueue DEF Asked
<1> QED
  BY <1>2 DEF AnswersOK

LEMMA AnswersQuiet ==
  ASSUME AnswersOK, UNCHANGED opQueue, feeder.pc \in Asking => feeder'.pc \in Asking
  PROVE  AnswersOK'
BY DEF AnswersOK, Asked

LEMMA AnswersWritten ==
  ASSUME QueuesOK, AnswersOK, opQueue # <<>>, opQueue' = Tail(opQueue),
         feeder'.pc = feeder.pc \/ Asked(1)
  PROVE  AnswersOK'
<1>1. \A i \in 1..Len(opQueue') : Asked(i)' => i + 1 \in 1..Len(opQueue) /\ Asked(i + 1)
  BY WrittenQueue DEF Asked
<1>2. \A i \in 1..Len(opQueue') : i \in Nat \ {0}
  BY WrittenQueue
<1>3. 1 \in 1..Len(opQueue)
  BY WrittenQueue
<1>4. CASE Asked(1)
  <2>1. \A i \in 1..Len(opQueue') : ~Asked(i)'
    BY <1>1, <1>2, <1>3, <1>4 DEF AnswersOK
  <2> QED
    BY <2>1 DEF AnswersOK
<1>5. CASE feeder'.pc = feeder.pc
  <2>1. ASSUME NEW i \in 1..Len(opQueue'), NEW j \in 1..Len(opQueue'), Asked(i)', Asked(j)'
        PROVE  i = j
    <3>1. i + 1 = j + 1
      BY <1>1, <2>1 DEF AnswersOK
    <3> QED
      BY <3>1, <1>2
  <2> QED
    BY <1>1, <1>5, <2>1 DEF AnswersOK
<1> QED
  BY <1>4, <1>5

(***************************************************************************)
(* Lemmas about what is reported COMPLETED.                                *)
(***************************************************************************)
LEMMA StoredStep ==
  ASSUME CompletedIsStored,
         \A h \in Hashes : pg[h].version > 0 => pg'[h].version > 0,
         \A t \in Tracks : ReportedCompleted(t)' =>
             ReportedCompleted(t) \/ pg'[Hash[t]].version > 0
  PROVE  CompletedIsStored'
BY TaskQueueAssumption DEF CompletedIsStored

LEMMA ReportsSent ==
  ASSUME QueuesOK, NEW op \in Op, Send(op), UNCHANGED status
  PROVE  \A t \in Tracks : ReportedCompleted(t)' =>
             ReportedCompleted(t) \/ op = StatusOp(t, "COMPLETED")
<1> SUFFICES ASSUME NEW t \in Tracks, NEW i \in 1..Len(opQueue'),
                    opQueue'[i] = StatusOp(t, "COMPLETED"), op # StatusOp(t, "COMPLETED")
             PROVE  ReportedCompleted(t)
  BY DEF ReportedCompleted, StatusOp
<1>1. i \in 1..Len(opQueue) /\ opQueue[i] = StatusOp(t, "COMPLETED")
  BY SentQueue
<1> QED
  BY <1>1 DEF ReportedCompleted

LEMMA StoredSent ==
  ASSUME QueuesOK, CompletedIsStored, NEW op \in Op, Send(op), UNCHANGED <<status, pg>>,
         \A t \in Tracks : op = StatusOp(t, "COMPLETED") => pg[Hash[t]].version > 0
  PROVE  CompletedIsStored'
<1>1. \A t \in Tracks : ReportedCompleted(t)' => ReportedCompleted(t) \/ pg[Hash[t]].version > 0
  BY ReportsSent
<1> QED
  BY <1>1, StoredStep

LEMMA StoredQuiet ==
  ASSUME CompletedIsStored, UNCHANGED <<status, opQueue, pg>>
  PROVE  CompletedIsStored'
BY DEF CompletedIsStored, ReportedCompleted

LEMMA ReportsWritten ==
  ASSUME QueuesOK, opQueue # <<>>, opQueue' = Tail(opQueue)
  PROVE  \A t \in Tracks : ReportedCompleted(t)' =>
             \/ status'[t] = "COMPLETED"
             \/ ReportedCompleted(t)
<1> SUFFICES ASSUME NEW t \in Tracks, NEW i \in 1..Len(opQueue'),
                    opQueue'[i] = StatusOp(t, "COMPLETED")
             PROVE  ReportedCompleted(t)
  BY DEF ReportedCompleted, StatusOp
<1>1. i + 1 \in 1..Len(opQueue) /\ opQueue[i + 1] = StatusOp(t, "COMPLETED")
  BY WrittenQueue
<1> QED
  BY <1>1 DEF ReportedCompleted

\* The writer reports COMPLETED only what a message had reported before.
LEMMA StoredWritten ==
  ASSUME QueuesOK, CompletedIsStored, opQueue # <<>>, opQueue' = Tail(opQueue),
         UNCHANGED pg,
         \A t \in Tracks : status'[t] = "COMPLETED" =>
             status[t] = "COMPLETED" \/ Head(opQueue) = StatusOp(t, "COMPLETED")
  PROVE  CompletedIsStored'
<1>1. 1 \in 1..Len(opQueue) /\ Head(opQueue) = opQueue[1]
  BY WrittenQueue
<1>2. \A t \in Tracks : ReportedCompleted(t)' => ReportedCompleted(t)
  BY <1>1, ReportsWritten DEF ReportedCompleted
<1> QED
  BY <1>2, StoredStep

(***************************************************************************)
(* Every action keeps the invariant.                                       *)
(***************************************************************************)
LEMMA InitIInv == Init => IInv
<1> SUFFICES ASSUME Init PROVE IInv
  OBVIOUS
<1>1. RowsOK
  BY DEF Init, RowsOK
<1>2. RemoteOK
  <2>1. \A t \in Legacy : t \in Tracks
    BY TaskQueueAssumption
  <2>2. \A h \in Hashes : /\ pg[h] \in LibraryRow
                          /\ pg[h].track \in Tracks => pg[h].version > 0
    <3> SUFFICES ASSUME NEW h \in Hashes
                 PROVE  pg[h] \in LibraryRow /\ (pg[h].track \in Tracks => pg[h].version > 0)
      OBVIOUS
    <3>1. CASE \E t \in Legacy : Hash[t] = h
      <4> DEFINE l == CHOOSE t \in Legacy : Hash[t] = h
      <4>1. l \in Tracks
        BY <3>1, <2>1
      <4>2. pg[h] = [version |-> 1, track |-> l, complete |-> FALSE]
        BY <3>1 DEF Init
      <4> QED
        BY <4>1, <4>2 DEF LibraryRow
    <3>2. CASE ~ \E t \in Legacy : Hash[t] = h
      <4>1. pg[h] = [version |-> 0, track |-> None, complete |-> FALSE]
        BY <3>2 DEF Init
      <4> QED
        BY <4>1, TaskQueueAssumption DEF LibraryRow
    <3> QED
      BY <3>1, <3>2
  <2>3. pg \in [Hashes -> LibraryRow]
    <3>1. pg = [h \in Hashes |-> pg[h]]
      BY DEF Init
    <3> QED
      BY <2>2, <3>1
  <2>4. dlq \in [Hashes -> Payload \cup {None}]
    BY DEF Init
  <2> QED
    BY <2>2, <2>3, <2>4 DEF RemoteOK
<1>3. RequestsOK
  BY DEF Init, RequestsOK, NoRequest, RequestPC
<1>4. QueuesOK
  BY DEF Init, QueuesOK
<1>5. FeederOK
  BY DEF Init, FeederOK, IdleFeeder, FeederPC
<1>6. WorkersOK
  BY DEF Init, WorkersOK, IdleWorker, WorkerPC
<1>7. AdmissionOK /\ ProcessOK
  BY DEF Init, AdmissionOK, ProcessOK
<1>8. AnswersOK
  BY DEF Init, AnswersOK
<1>9. CompletedIsStored
  <2>1. \A t \in Tracks : status[t] = "ABSENT" /\ Len(opQueue) = 0
    BY DEF Init
  <2> QED
    BY <2>1 DEF CompletedIsStored, ReportedCompleted
<1> QED
  BY <1>1, <1>2, <1>3, <1>4, <1>5, <1>6, <1>7, <1>8, <1>9 DEF IInv, Types

\* What an action does not touch keeps its part of the invariant.
LEMMA Frame ==
  ASSUME IInv
  PROVE  /\ UNCHANGED rows => RowsOK'
         /\ UNCHANGED remote => RemoteOK'
         /\ UNCHANGED request => RequestsOK'
         /\ UNCHANGED <<opQueue, ingestQueue>> => QueuesOK'
         /\ UNCHANGED feeder => FeederOK'
         /\ UNCHANGED worker => WorkersOK'
         /\ UNCHANGED admission => AdmissionOK'
         /\ UNCHANGED <<channels, process, faults>> => ProcessOK'
BY DEF IInv, Types, RowsOK, RemoteOK, RequestsOK, QueuesOK, FeederOK, WorkersOK, AdmissionOK,
       ProcessOK, rows, remote, admission, channels, process

\* A message other than COMPLETED that the feeder does not wait for.
LEMMA SentPart ==
  ASSUME IInv, NEW op \in Op, Send(op), UNCHANGED <<ingestQueue, status, pg>>,
         op.kind \notin {"requeue", "claim", "park"},
         op.kind = "status" => op.status # "COMPLETED",
         feeder.pc \in Asking => feeder'.pc \in Asking
  PROVE  QueuesOK' /\ AnswersOK' /\ CompletedIsStored'
<1>1. QueuesOK'
  BY SentQueue DEF IInv, Types, QueuesOK
<1>2. AnswersOK'
  BY AnswersSent DEF IInv, Types
<1>3. \A t \in Tracks : op # StatusOp(t, "COMPLETED")
  BY DEF StatusOp
<1>4. CompletedIsStored'
  BY <1>3, StoredSent DEF IInv, Types
<1> QED
  BY <1>1, <1>2, <1>4

LEMMA QuietPart ==
  ASSUME IInv, UNCHANGED <<opQueue, status, pg>>,
         feeder.pc \in Asking => feeder'.pc \in Asking
  PROVE  AnswersOK' /\ CompletedIsStored'
BY AnswersQuiet, StoredQuiet DEF IInv

LEMMA RequestsIInv ==
  ASSUME IInv, NEW r \in Requests,
         \/ \E batch \in SUBSET Tracks \ {{}}, forced \in BOOLEAN : Plan(r, batch, forced)
         \/ SendCheck(r) \/ Notify(r)
  PROVE  IInv'
<1>1. ASSUME NEW batch \in SUBSET Tracks, NEW forced \in BOOLEAN, Plan(r, batch, forced)
      PROVE  IInv'
  <2>1. /\ UNCHANGED <<rows, remote, opQueue, feeder, channels, worker, ingestQueue, admission,
                       process, faults>>
        /\ UNCHANGED <<status, pg>>
    BY <1>1 DEF Plan, rows, remote
  <2>2. RequestsOK'
    BY <1>1 DEF Plan, IInv, Types, RequestsOK, RequestPC
  <2> QED
    BY <2>1, <2>2, Frame, QuietPart DEF IInv, Types
<1>2. ASSUME SendCheck(r) PROVE IInv'
  <2>1. /\ UNCHANGED <<rows, remote, feeder, channels, worker, ingestQueue, admission, process,
                       faults>>
        /\ UNCHANGED <<status, pg>> /\ Send(CheckOp(r))
    BY <1>2 DEF SendCheck, rows, remote
  <2>2. RequestsOK'
    BY <1>2 DEF SendCheck, IInv, Types, RequestsOK, RequestPC
  <2>3. QueuesOK' /\ AnswersOK' /\ CompletedIsStored'
    BY <2>1, SentPart, Messages
  <2> QED
    BY <2>1, <2>2, <2>3, Frame DEF IInv, Types
<1>3. ASSUME Notify(r) PROVE IInv'
  <2>1. /\ UNCHANGED <<rows, remote, opQueue, feeder, worker, ingestQueue, admission>>
        /\ UNCHANGED <<status, pg>>
    BY <1>3 DEF Notify, rows, remote
  <2>2. RequestsOK'
    BY <1>3 DEF Notify, IInv, Types, RequestsOK, RequestPC
  <2>3. ProcessOK'
    BY <1>3 DEF Notify, IInv, Types, ProcessOK, process
  <2> QED
    BY <2>1, <2>2, <2>3, Frame, QuietPart DEF IInv, Types
<1> QED
  BY <1>1, <1>2, <1>3

LEMMA WriteIInv ==
  ASSUME IInv, Writer
  PROVE  IInv'
<1> DEFINE op == Head(opQueue)
<1>0. /\ Alive /\ opQueue # <<>> /\ opQueue' = Tail(opQueue)
      /\ UNCHANGED <<remote, channels, worker, ingestQueue, admission, process, faults>>
      /\ UNCHANGED pg
  BY DEF Writer, WriteCheck, WriteStatus, WriteRequeue, WriteClaim, WritePark, Write, remote
<1>1. QueuesOK' /\ op \in Op /\ op = opQueue[1]
  BY <1>0, WrittenQueue DEF IInv, Types, QueuesOK
<1>2. ASSUME feeder'.pc = feeder.pc \/ op.kind \in {"requeue", "claim", "park"}
      PROVE  AnswersOK'
  BY <1>0, <1>1, <1>2, AnswersWritten DEF IInv, Types, Asked
<1>3. ASSUME \A t \in Tracks : status'[t] = "COMPLETED" =>
                status[t] = "COMPLETED" \/ op = StatusOp(t, "COMPLETED")
      PROVE  CompletedIsStored'
  BY <1>0, <1>3, StoredWritten DEF IInv, Types
<1>4. /\ status \in [Tracks -> RowStatus \cup {"ABSENT"}]
      /\ payload \in [Tracks -> Requests \cup {None}] /\ cooled \in SUBSET Tracks
      /\ \A t \in Tracks : status[t] # "ABSENT" => payload[t] \in Requests
      /\ \A t \in cooled : status[t] = "FAILED_MAYBE_RETRY"
  BY DEF IInv, Types, RowsOK
<1>5. /\ feeder \in [pc : FeederPC, task : Task \cup {None}, ready : Nat]
      /\ feeder.pc \in {"preflight", "reserve", "recheck", "parking", "handoff"} =>
            feeder.task \in Task
      /\ feeder.pc \notin {"select", "loop", "gone"} => feeder.ready > 0
  BY DEF IInv, Types, FeederOK
<1>6. op.kind \in {"requeue", "claim", "park"} => feeder.ready > 0
  <2>1. 1 \in 1..Len(opQueue)
    BY <1>0, WrittenQueue DEF IInv, Types
  <2> QED
    BY <1>1, <1>5, <2>1 DEF IInv, AnswersOK, Asked, Asking
<1>7. RemoteOK' /\ WorkersOK' /\ AdmissionOK' /\ ProcessOK'
  BY <1>0, Frame
<1>8. CASE WriteCheck
  <2> DEFINE taken == {t \in request[op.req].batch : Takes(op.req, t)}
  <2>1. op.req \in Requests /\ op.kind = "check"
    BY <1>1, <1>8, MessageShapes DEF WriteCheck, Write
  <2>2. /\ SetStatus(taken, "PENDING") /\ UNCHANGED feeder
        /\ payload' = [t \in Tracks |-> IF t \in taken THEN op.req ELSE payload[t]]
        /\ request' = [request EXCEPT ![op.req].pc = IF taken = {} THEN "done" ELSE "accepted"]
    BY <1>8 DEF WriteCheck
  <2>3. RowsOK'
    BY <1>4, <2>1, <2>2 DEF RowsOK, SetStatus, RowStatus
  <2>4. RequestsOK'
    BY <2>1, <2>2 DEF IInv, Types, RequestsOK, RequestPC
  <2>5. AnswersOK' /\ FeederOK'
    BY <1>2, <2>2, Frame
  <2>6. CompletedIsStored'
    BY <1>3, <2>2 DEF SetStatus
  <2> QED
    BY <1>1, <1>7, <2>3, <2>4, <2>5, <2>6 DEF IInv, Types
<1>9. CASE WriteStatus
  <2> DEFINE ts == {op.track} \cap {t \in Tracks : status[t] # "ABSENT"}
  <2>1. op.track \in Tracks /\ op.status \in RowStatus /\ op = StatusOp(op.track, op.status)
    BY <1>1, <1>9, MessageShapes DEF WriteStatus, Write
  <2>2. SetStatus(ts, op.status) /\ UNCHANGED <<payload, request, feeder>>
    BY <1>9 DEF WriteStatus
  <2>3. RowsOK'
    BY <1>4, <2>1, <2>2 DEF RowsOK, SetStatus, RowStatus
  <2>4. AnswersOK' /\ FeederOK' /\ RequestsOK'
    BY <1>2, <2>2, Frame
  <2>5. CompletedIsStored'
    <3> SUFFICES ASSUME NEW t \in Tracks, status'[t] = "COMPLETED", status[t] # "COMPLETED"
                 PROVE  op = StatusOp(t, "COMPLETED")
      BY <1>3
    <3>1. t = op.track /\ op.status = "COMPLETED"
      BY <2>2 DEF SetStatus
    <3> QED
      BY <2>1, <3>1
  <2> QED
    BY <1>1, <1>7, <2>3, <2>4, <2>5 DEF IInv, Types
<1>10. CASE WriteRequeue
  <2>1. op.kind = "requeue" /\ FeederAt("retried") /\ UNCHANGED <<payload, request>>
    BY <1>10 DEF WriteRequeue, Write
  <2>2. \/ \E t \in cooled : SetStatus({t}, "PENDING")
        \/ UNCHANGED <<status, cooled>>
    BY <1>10 DEF WriteRequeue
  <2>3. RowsOK'
    BY <1>4, <2>1, <2>2 DEF RowsOK, SetStatus, RowStatus
  <2>4. FeederOK'
    BY <1>5, <1>6, <2>1 DEF FeederOK, FeederAt, FeederPC
  <2>5. AnswersOK' /\ RequestsOK'
    BY <1>2, <2>1, Frame
  <2>6. CompletedIsStored'
    BY <1>3, <2>2 DEF SetStatus
  <2> QED
    BY <1>1, <1>7, <2>3, <2>4, <2>5, <2>6 DEF IInv, Types
<1>11. CASE WriteClaim
  <2>1. op.kind = "claim" /\ UNCHANGED <<payload, request>>
    BY <1>11 DEF WriteClaim, Write
  <2>2. CASE \E t \in Pending :
                /\ SetStatus({t}, "QUEUED")
                /\ feeder' = [feeder EXCEPT !.pc = "preflight",
                                 !.task = [track |-> t, req |-> payload[t], snap |-> 0]]
    <3>1. PICK t \in Tracks :
             /\ status[t] = "PENDING" /\ SetStatus({t}, "QUEUED")
             /\ feeder' = [feeder EXCEPT !.pc = "preflight",
                              !.task = [track |-> t, req |-> payload[t], snap |-> 0]]
      BY <2>2 DEF Pending
    <3>2. RowsOK'
      BY <1>4, <2>1, <3>1 DEF RowsOK, SetStatus, RowStatus
    <3>3. [track |-> t, req |-> payload[t], snap |-> 0] \in Task
      BY <1>4, <3>1 DEF Task
    <3>4. FeederOK'
      BY <1>5, <1>6, <2>1, <3>1, <3>3 DEF FeederOK, FeederPC
    <3>5. CompletedIsStored'
      BY <1>3, <3>1 DEF SetStatus
    <3> QED
      BY <3>2, <3>4, <3>5, <1>1, <1>2, <1>7, <2>1, Frame DEF IInv, Types
  <2>3. CASE FeederAt("select") /\ UNCHANGED <<status, cooled>>
    <3>1. FeederOK'
      BY <1>5, <2>3 DEF FeederOK, FeederAt, FeederPC
    <3>2. CompletedIsStored'
      BY <1>3, <2>3
    <3>3. UNCHANGED rows
      BY <2>1, <2>3 DEF rows
    <3> QED
      BY <3>1, <3>2, <3>3, <1>1, <1>2, <1>7, <2>1, Frame DEF IInv, Types
  <2> QED
    BY <1>11, <2>2, <2>3 DEF WriteClaim
<1>12. CASE WritePark
  <2>1. /\ op.kind = "park" /\ UNCHANGED <<payload, request>> /\ FeederDrops("loop")
        /\ SetStatus(IF status[op.track] = "QUEUED" THEN {op.track} ELSE {},
                     "FAILED_MAYBE_RETRY")
    BY <1>12 DEF WritePark, Write
  <2>2. op.track \in Tracks
    BY <1>1, <2>1, MessageShapes
  <2>3. RowsOK'
    BY <1>4, <2>1, <2>2 DEF RowsOK, SetStatus, RowStatus
  <2>4. FeederOK'
    BY <1>5, <2>1 DEF FeederOK, FeederDrops, FeederPC
  <2>5. CompletedIsStored'
    BY <1>3, <2>1 DEF SetStatus
  <2> QED
    BY <2>3, <2>4, <2>5, <1>1, <1>2, <1>7, <2>1, Frame DEF IInv, Types
<1> QED
  BY <1>8, <1>9, <1>10, <1>11, <1>12 DEF Writer

\* A step of the feeder that sends nothing.
LEMMA FeederQuiet ==
  ASSUME IInv, UNCHANGED <<rows, remote, request, ingestQueue, process, opQueue>>,
         FeederOK', WorkersOK', AdmissionOK', ProcessOK',
         feeder.pc \in Asking => feeder'.pc \in Asking
  PROVE  IInv'
<1>1. UNCHANGED <<status, pg>>
  BY DEF rows, remote
<1> QED
  BY <1>1, Frame, QuietPart DEF IInv, Types

\* A step of the feeder that reports a status.
LEMMA FeederReports ==
  ASSUME IInv, UNCHANGED <<rows, remote, request, ingestQueue, process, worker>>,
         FeederOK', AdmissionOK', ProcessOK', feeder.pc \notin Asking,
         NEW t \in Tracks, NEW s \in RowStatus, Send(StatusOp(t, s)),
         s = "COMPLETED" => pg[Hash[t]].version > 0
  PROVE  IInv'
<1>1. UNCHANGED <<status, pg>> /\ StatusOp(t, s) \in Op /\ StatusOp(t, s).kind = "status"
  BY Messages DEF rows, remote
<1>2. QueuesOK'
  BY <1>1, SentQueue DEF IInv, Types, QueuesOK
<1>3. AnswersOK'
  BY <1>1, AnswersSent DEF IInv, Types
<1>4. CompletedIsStored'
  <2>1. \A u \in Tracks : StatusOp(t, s) = StatusOp(u, "COMPLETED") => u = t /\ s = "COMPLETED"
    BY DEF StatusOp
  <2> QED
    BY <1>1, <2>1, StoredSent DEF IInv, Types
<1> QED
  BY <1>2, <1>3, <1>4, Frame DEF IInv, Types

\* A step of the feeder that asks the writer and waits.
LEMMA FeederAsks ==
  ASSUME IInv, UNCHANGED <<rows, remote, request, ingestQueue, process, worker>>,
         FeederOK', AdmissionOK', ProcessOK',
         feeder.pc \notin Asking, feeder'.pc \in Asking,
         NEW op \in Op, Send(op), op.kind # "status"
  PROVE  IInv'
<1>1. UNCHANGED <<status, pg>>
  BY DEF rows, remote
<1>2. QueuesOK'
  BY SentQueue DEF IInv, Types, QueuesOK
<1>3. AnswersOK'
  BY AnswersAsked DEF IInv, Types
<1>4. CompletedIsStored'
  <2>1. \A u \in Tracks : op # StatusOp(u, "COMPLETED")
    BY DEF StatusOp
  <2> QED
    BY <1>1, <2>1, StoredSent DEF IInv, Types
<1> QED
  BY <1>2, <1>3, <1>4, Frame DEF IInv, Types

LEMMA FeederIInv ==
  ASSUME IInv, Feeder
  PROVE  IInv'
<1>0. /\ feeder \in [pc : FeederPC, task : Task \cup {None}, ready : Nat]
      /\ feeder.pc \in {"preflight", "reserve", "recheck", "parking", "handoff"} =>
            feeder.task \in Task
      /\ feeder.pc \notin {"select", "loop", "gone"} => feeder.ready > 0
  BY DEF IInv, Types, FeederOK
<1>1. feeder.task \in Task => feeder.task.track \in Tracks
  BY DEF Task
<1>2. taskLeases \in SUBSET Tracks /\ ramAdmissions \in SUBSET Tracks /\ used \in Nat
  BY DEF IInv, Types, AdmissionOK
<1>3. /\ wake \in BOOLEAN /\ readyCh \in Nat /\ mode \in {"up", "stopping", "down"}
      /\ faults \in Nat /\ restarts \in Nat
  BY DEF IInv, Types, ProcessOK
<1>4. ASSUME NEW pc \in FeederPC, FeederAt(pc),
             pc \in {"preflight", "reserve", "recheck", "parking", "handoff"} =>
                feeder.task \in Task,
             pc \notin {"select", "loop", "gone"} => feeder.ready > 0
      PROVE  FeederOK' /\ feeder'.pc = pc
  BY <1>0, <1>4 DEF FeederOK, FeederAt
<1>5. ASSUME NEW pc \in {"select", "loop"}, FeederDrops(pc)
      PROVE  FeederOK' /\ feeder'.pc = pc
  BY <1>0, <1>5 DEF FeederOK, FeederDrops, FeederPC
<1>6. ASSUME NoFault \/ Fault, UNCHANGED <<channels, process>>
      PROVE  ProcessOK'
  BY <1>3, <1>6 DEF ProcessOK, NoFault, Fault, channels, process
<1>7. ASSUME NEW t \in Tracks, ReleaseUnstarted(t)
      PROVE  AdmissionOK'
  BY <1>2, <1>7 DEF AdmissionOK, ReleaseUnstarted, IntSafeSub
<1>8. {"select", "loop", "retrying", "retried", "claiming", "preflight", "reserve", "recheck",
       "parking", "handoff", "gone"} = FeederPC
  BY DEF FeederPC
<1>9. CASE FeederWake
  <2>1. FeederAt("loop") /\ wake' = FALSE
        /\ UNCHANGED <<rows, remote, request, ingestQueue, process, opQueue, readyCh, worker,
                       admission, faults>> /\ feeder.pc = "select"
    BY <1>9 DEF FeederWake, FeederStep
  <2>2. ProcessOK'
    BY <1>3, <2>1 DEF ProcessOK, process
  <2> QED
    BY <2>1, <2>2, <1>4, <1>8, Frame, FeederQuiet DEF Asking
<1>10. CASE FeederReady
  <2>1. /\ readyCh > 0 /\ readyCh' = readyCh - 1 /\ feeder.pc = "select"
        /\ feeder' = [feeder EXCEPT !.pc = "loop", !.ready = @ + 1]
        /\ UNCHANGED <<rows, remote, request, ingestQueue, process, opQueue, wake, worker,
                       admission, faults>>
    BY <1>10 DEF FeederReady, FeederStep
  <2>2. ProcessOK'
    BY <1>3, <2>1 DEF ProcessOK, process
  <2>3. FeederOK'
    <3>1. feeder.ready + 1 \in Nat
      BY <1>0
    <3> QED
      BY <1>0, <2>1, <3>1 DEF FeederOK, FeederPC
  <2> QED
    BY <2>1, <2>2, <2>3, Frame, FeederQuiet DEF Asking
<1>11. CASE FeederTick
  <2>1. /\ FeederAt("loop") /\ feeder.pc = "select"
        /\ UNCHANGED <<rows, remote, request, ingestQueue, process, opQueue, channels, worker,
                       admission, faults>>
    BY <1>11 DEF FeederTick, FeederStep
  <2> QED
    BY <2>1, <1>4, <1>8, Frame, FeederQuiet DEF Asking
<1>12. CASE FeederLoop
  <2>1. /\ feeder.pc = "loop"
        /\ UNCHANGED <<rows, remote, request, ingestQueue, process, channels, worker,
                       admission, faults>>
    BY <1>12 DEF FeederLoop, FeederStep
  <2>2. CASE feeder.ready > 0 /\ Send(RequeueOp) /\ FeederAt("retrying")
    BY <2>1, <2>2, <1>4, <1>8, Frame, FeederAsks, Messages DEF Asking
  <2>3. CASE FeederAt("select") /\ UNCHANGED opQueue
    BY <2>1, <2>3, <1>4, <1>8, Frame, FeederQuiet DEF Asking
  <2> QED
    BY <1>12, <2>2, <2>3 DEF FeederLoop
<1>13. CASE FeederClaim
  <2>1. /\ feeder.pc = "retried" /\ Send(ClaimOp) /\ FeederAt("claiming")
        /\ UNCHANGED <<rows, remote, request, ingestQueue, process, channels, worker,
                       admission, faults>>
    BY <1>13 DEF FeederClaim, FeederStep
  <2> QED
    BY <2>1, <1>0, <1>4, <1>8, Frame, FeederAsks, Messages DEF Asking
<1>14. CASE FeederPreflight
  <2> DEFINE t == feeder.task.track
  <2>1. /\ feeder.pc = "preflight" /\ t \in Tracks /\ (NoFault \/ Fault)
        /\ UNCHANGED <<rows, remote, request, ingestQueue, process, channels, worker, admission>>
    BY <1>14, <1>0, <1>1 DEF FeederPreflight, FeederStep
  <2>2. ProcessOK'
    BY <2>1, <1>6, <1>14 DEF FeederPreflight
  <2>3. CASE Send(StatusOp(t, "FAILED_MAYBE_RETRY")) /\ FeederDrops("select")
    BY <2>1, <2>2, <2>3, <1>5, Frame, FeederReports DEF Asking, RowStatus
  <2>4. CASE Complete(t) /\ Send(StatusOp(t, "COMPLETED")) /\ FeederDrops("loop")
    <3>1. pg[Hash[t]].version > 0
      BY <2>1, <2>4, TaskQueueAssumption DEF Complete, IInv, Types, RemoteOK
    <3> QED
      BY <3>1, <2>1, <2>2, <2>4, <1>5, Frame, FeederReports DEF Asking, RowStatus
  <2>5. CASE /\ feeder' = [feeder EXCEPT !.pc = "reserve", !.task.snap = Snapshot(t)]
             /\ UNCHANGED opQueue
    <3>1. Snapshot(t) \in Nat
      BY <2>1, TaskQueueAssumption DEF Snapshot, IInv, Types, RemoteOK, LibraryRow
    <3>2. FeederOK'
      BY <3>1, <2>1, <2>5, <1>0 DEF FeederOK, FeederPC, Task
    <3> QED
      BY <3>2, <2>1, <2>2, <2>5, Frame, FeederQuiet DEF Asking
  <2> QED
    BY <1>14, <2>3, <2>4, <2>5 DEF FeederPreflight
<1>15. CASE FeederReserve
  <2> DEFINE t == feeder.task.track
  <2>1. /\ feeder.pc = "reserve" /\ feeder.task \in Task /\ t \in Tracks /\ feeder.ready > 0
        /\ UNCHANGED <<rows, remote, request, ingestQueue, process, channels, worker>>
    BY <1>15, <1>0, <1>1 DEF FeederReserve, FeederStep
  <2>2. ProcessOK'
    BY <2>1, <1>6, <1>15 DEF FeederReserve
  <2>3. CASE /\ used' = used + 1 /\ ramAdmissions' = ramAdmissions \cup {t}
             /\ taskLeases' = taskLeases \cup {t}
             /\ FeederAt("recheck") /\ UNCHANGED opQueue
    <3>1. AdmissionOK'
      BY <1>2, <2>1, <2>3 DEF AdmissionOK
    <3> QED
      BY <3>1, <2>1, <2>2, <2>3, <1>4, <1>8, Frame, FeederQuiet DEF Asking
  <2>4. CASE Send(ParkOp(t)) /\ FeederAt("parking") /\ UNCHANGED admission
    BY <2>1, <2>2, <2>4, <1>4, <1>8, Frame, FeederAsks, Messages DEF Asking
  <2>5. CASE Send(StatusOp(t, "FAILED")) /\ FeederDrops("loop") /\ UNCHANGED admission
    BY <2>1, <2>2, <2>5, <1>5, Frame, FeederReports DEF Asking, RowStatus
  <2> QED
    BY <1>15, <2>3, <2>4, <2>5 DEF FeederReserve
<1>16. CASE FeederRecheck
  <2> DEFINE t == feeder.task.track
  <2>1. /\ feeder.pc = "recheck" /\ feeder.task \in Task /\ t \in Tracks /\ feeder.ready > 0
        /\ UNCHANGED <<rows, remote, request, ingestQueue, process, channels, worker>>
    BY <1>16, <1>0, <1>1 DEF FeederRecheck, FeederStep
  <2>2. ProcessOK'
    BY <2>1, <1>6, <1>16 DEF FeederRecheck
  <2>3. CASE FeederAt("handoff") /\ UNCHANGED <<opQueue, admission>>
    BY <2>1, <2>2, <2>3, <1>4, <1>8, Frame, FeederQuiet DEF Asking
  <2>4. CASE ReleaseUnstarted(t) /\ Send(ParkOp(t)) /\ FeederAt("parking")
    BY <2>1, <2>2, <2>4, <1>4, <1>7, <1>8, Frame, FeederAsks, Messages DEF Asking
  <2> QED
    BY <1>16, <2>3, <2>4 DEF FeederRecheck
<1>17. ASSUME NEW w \in Workers, Handoff(w) PROVE IInv'
  <2>1. /\ feeder.pc = "handoff" /\ feeder.task \in Task /\ feeder.ready > 0
        /\ worker' = [worker EXCEPT ![w].pc = "begin", ![w].task = feeder.task]
        /\ feeder' = [feeder EXCEPT !.pc = "loop", !.task = None, !.ready = @ - 1]
        /\ UNCHANGED <<rows, remote, request, ingestQueue, process, opQueue, channels,
                       admission, faults>>
    BY <1>17, <1>0 DEF Handoff, FeederStep
  <2>2. FeederOK'
    <3>1. feeder.ready - 1 \in Nat
      BY <1>0, <2>1
    <3> QED
      BY <1>0, <2>1, <3>1 DEF FeederOK, FeederPC
  <2>3. WorkersOK'
    BY <2>1 DEF IInv, Types, WorkersOK, WorkerPC
  <2> QED
    BY <2>1, <2>2, <2>3, Frame, FeederQuiet DEF Asking
<1>18. CASE FeederAbandon
  <2> DEFINE t == feeder.task.track
  <2>1. /\ feeder.pc = "handoff" /\ t \in Tracks /\ ReleaseUnstarted(t)
        /\ Send(StatusOp(t, "PENDING")) /\ FeederDrops("select")
        /\ UNCHANGED <<rows, remote, request, ingestQueue, process, channels, worker, faults>>
    BY <1>18, <1>0, <1>1 DEF FeederAbandon, FeederStep
  <2> QED
    BY <2>1, <1>5, <1>7, Frame, FeederReports DEF Asking, RowStatus
<1>19. CASE FeederExit
  <2>1. /\ feeder.pc = "select" /\ FeederAt("gone")
        /\ UNCHANGED <<rows, remote, request, ingestQueue, process, opQueue, channels, worker,
                       admission, faults>>
    BY <1>19 DEF FeederExit, FeederStep
  <2> QED
    BY <2>1, <1>4, <1>8, Frame, FeederQuiet DEF Asking
<1> QED
  BY <1>9, <1>10, <1>11, <1>12, <1>13, <1>14, <1>15, <1>16, <1>17, <1>18, <1>19 DEF Feeder

\* A step of a worker that sends nothing to the writer.
LEMMA WorkerQuiet ==
  ASSUME IInv, UNCHANGED <<rows, remote, request, feeder, opQueue>>,
         WorkersOK', AdmissionOK', ProcessOK', ingestQueue' \in Seq(Task)
  PROVE  IInv'
<1>1. UNCHANGED <<status, pg>> /\ QueuesOK'
  BY DEF rows, remote, IInv, Types, QueuesOK
<1> QED
  BY <1>1, Frame, QuietPart DEF IInv, Types

\* A step of a worker that reports a status.
LEMMA WorkerReports ==
  ASSUME IInv, UNCHANGED <<rows, remote, request, feeder, ingestQueue>>,
         WorkersOK', AdmissionOK', ProcessOK',
         NEW t \in Tracks, NEW s \in RowStatus, Send(StatusOp(t, s)),
         s = "COMPLETED" => pg[Hash[t]].version > 0
  PROVE  IInv'
<1>1. UNCHANGED <<status, pg>> /\ StatusOp(t, s) \in Op /\ StatusOp(t, s).kind = "status"
  BY Messages DEF rows, remote
<1>2. QueuesOK'
  BY <1>1, SentQueue DEF IInv, Types, QueuesOK
<1>3. AnswersOK'
  BY <1>1, AnswersSent DEF IInv, Types
<1>4. CompletedIsStored'
  <2>1. \A u \in Tracks : StatusOp(t, s) = StatusOp(u, "COMPLETED") => u = t /\ s = "COMPLETED"
    BY DEF StatusOp
  <2> QED
    BY <1>1, <2>1, StoredSent DEF IInv, Types
<1> QED
  BY <1>2, <1>3, <1>4, Frame DEF IInv, Types

LEMMA WorkerIInv ==
  ASSUME IInv, NEW w \in Workers, Announce(w) \/ Leave(w) \/ Pipeline(w)
  PROVE  IInv'
<1> DEFINE t == worker[w].task.track
<1>0. /\ worker \in [Workers -> [pc : WorkerPC, task : Task \cup {None}, ticket : BOOLEAN,
                                admitted : BOOLEAN]]
      /\ \A v \in Workers : worker[v].pc \notin {"idle", "waiting", "gone"} =>
                               worker[v].task \in Task
  BY DEF IInv, Types, WorkersOK
<1>1. /\ worker[w].task \in Task => t \in Tracks
      /\ IdleWorker \in [pc : WorkerPC, task : Task \cup {None}, ticket : BOOLEAN,
                         admitted : BOOLEAN]
      /\ IdleWorker.pc = "idle"
  BY DEF Task, IdleWorker, WorkerPC
<1>2. taskLeases \in SUBSET Tracks /\ ramAdmissions \in SUBSET Tracks /\ used \in Nat
  BY DEF IInv, Types, AdmissionOK
<1>3. /\ wake \in BOOLEAN /\ readyCh \in Nat /\ mode \in {"up", "stopping", "down"}
      /\ faults \in Nat /\ restarts \in Nat /\ ingestQueue \in Seq(Task)
  BY DEF IInv, Types, ProcessOK, QueuesOK
<1>4. ASSUME NEW pc \in WorkerPC, WorkerAt(w, pc),
             pc \notin {"idle", "waiting", "gone"} => worker[w].task \in Task
      PROVE  WorkersOK'
  BY <1>0, <1>4 DEF WorkersOK, WorkerAt
<1>5. ASSUME NoFault \/ Fault, UNCHANGED <<wake, readyCh, process>>
      PROVE  ProcessOK'
  BY <1>3, <1>5 DEF ProcessOK, NoFault, Fault, process
<1>6. {"idle", "waiting", "begin", "hash", "analyse", "send", "cleanup", "report", "gone"}
        = WorkerPC
  BY DEF WorkerPC
<1>7. CASE Announce(w)
  <2>1. /\ readyCh' = readyCh + 1 /\ WorkerAt(w, "waiting")
        /\ UNCHANGED <<rows, remote, request, feeder, wake, process, opQueue, ingestQueue,
                       admission, faults>>
    BY <1>7 DEF Announce, WorkerStep
  <2>2. ProcessOK'
    BY <1>3, <2>1 DEF ProcessOK, process
  <2> QED
    BY <2>1, <2>2, <1>3, <1>4, <1>6, Frame, WorkerQuiet
<1>8. CASE Leave(w)
  <2>1. /\ WorkerAt(w, "gone")
        /\ UNCHANGED <<rows, remote, request, feeder, wake, process, opQueue, readyCh,
                       ingestQueue, admission, faults>>
    BY <1>8 DEF Leave, WorkerStep
  <2> QED
    BY <2>1, <1>3, <1>4, <1>6, Frame, WorkerQuiet DEF channels
<1>9. CASE Begin(w)
  <2> DEFINE admitted == t \in ramAdmissions
  <2>1. /\ worker[w].pc = "begin" /\ taskLeases' = taskLeases \ {t}
        /\ Send(StatusOp(t, IF admitted THEN "RUNNING" ELSE "FAILED"))
        /\ worker' = [worker EXCEPT ![w] =
              [@ EXCEPT !.pc = IF admitted THEN "hash" ELSE "cleanup",
                        !.ticket = t \in taskLeases, !.admitted = admitted]]
        /\ UNCHANGED <<rows, remote, request, feeder, wake, process, readyCh, ingestQueue,
                       ramAdmissions, used, faults>>
    BY <1>9 DEF Begin, WorkerStep
  <2>2. worker[w].task \in Task /\ t \in Tracks
    BY <2>1, <1>0, <1>1
  <2>3. WorkersOK'
    <3> DEFINE new == [worker[w] EXCEPT !.pc = IF admitted THEN "hash" ELSE "cleanup",
                                        !.ticket = t \in taskLeases, !.admitted = admitted]
    <3>1. /\ new \in [pc : WorkerPC, task : Task \cup {None}, ticket : BOOLEAN,
                      admitted : BOOLEAN]
          /\ new.task = worker[w].task
      <4>1. ASSUME NEW p \in WorkerPC, NEW a \in BOOLEAN, NEW b \in BOOLEAN
            PROVE  LET n == [worker[w] EXCEPT !.pc = p, !.ticket = a, !.admitted = b]
                   IN  /\ n \in [pc : WorkerPC, task : Task \cup {None}, ticket : BOOLEAN,
                                 admitted : BOOLEAN]
                       /\ n.task = worker[w].task
        BY <1>0
      <4>2. /\ (IF admitted THEN "hash" ELSE "cleanup") \in WorkerPC
            /\ (t \in taskLeases) \in BOOLEAN /\ admitted \in BOOLEAN
        BY <1>6
      <4> HIDE DEF admitted
      <4> QED
        BY <4>1, <4>2
    <3>2. worker' = [worker EXCEPT ![w] = new]
      BY <2>1
    <3> HIDE DEF new
    <3> QED
      BY <3>1, <3>2, <2>2, <1>0 DEF WorkersOK
  <2>4. AdmissionOK'
    BY <2>1, <1>2 DEF AdmissionOK
  <2>5. ProcessOK'
    BY <2>1, Frame DEF channels
  <2>6. (IF admitted THEN "RUNNING" ELSE "FAILED") \in RowStatus \ {"COMPLETED"}
    BY DEF RowStatus
  <2> QED
    BY <2>1, <2>2, <2>3, <2>4, <2>5, <2>6, WorkerReports
<1>10. CASE HashCheck(w)
  <2>1. /\ worker[w].pc = "hash" /\ (NoFault \/ Fault)
        /\ UNCHANGED <<rows, remote, request, feeder, wake, process, readyCh, ingestQueue,
                       admission>>
    BY <1>10 DEF HashCheck, WorkerStep
  <2>2. worker[w].task \in Task /\ t \in Tracks
    BY <2>1, <1>0, <1>1
  <2>3. ProcessOK'
    BY <2>1, <1>5
  <2>4. CASE WorkerAt(w, "analyse") /\ UNCHANGED opQueue
    BY <2>1, <2>2, <2>3, <2>4, <1>3, <1>4, <1>6, Frame, WorkerQuiet
  <2>5. CASE /\ pg[Hash[t]].version > 0
             /\ Send(StatusOp(t, "COMPLETED")) /\ WorkerAt(w, "cleanup")
    BY <2>1, <2>2, <2>3, <2>5, <1>4, <1>6, Frame, WorkerReports DEF RowStatus
  <2>6. CASE Send(StatusOp(t, "FAILED")) /\ WorkerAt(w, "cleanup")
    BY <2>1, <2>2, <2>3, <2>6, <1>4, <1>6, Frame, WorkerReports DEF RowStatus
  <2> QED
    BY <1>10, <2>4, <2>5, <2>6 DEF HashCheck
<1>11. CASE Analyse(w)
  <2>1. /\ worker[w].pc = "analyse" /\ (NoFault \/ Fault)
        /\ UNCHANGED <<rows, remote, request, feeder, wake, process, readyCh, ingestQueue,
                       admission>>
    BY <1>11 DEF Analyse, WorkerStep
  <2>2. worker[w].task \in Task /\ t \in Tracks
    BY <2>1, <1>0, <1>1
  <2>3. ProcessOK'
    BY <2>1, <1>5
  <2>4. CASE WorkerAt(w, "send") /\ UNCHANGED opQueue
    BY <2>1, <2>2, <2>3, <2>4, <1>3, <1>4, <1>6, Frame, WorkerQuiet
  <2>5. CASE /\ \E s \in {"FAILED", "FAILED_MAYBE_RETRY"} : Send(StatusOp(t, s))
             /\ WorkerAt(w, "cleanup")
    BY <2>1, <2>2, <2>3, <2>5, <1>4, <1>6, Frame, WorkerReports DEF RowStatus
  <2> QED
    BY <1>11, <2>4, <2>5 DEF Analyse
<1>12. CASE SendIngest(w)
  <2>1. /\ worker[w].pc = "send" /\ ingestQueue' = Append(ingestQueue, worker[w].task)
        /\ WorkerAt(w, "cleanup")
        /\ UNCHANGED <<rows, remote, request, feeder, wake, process, opQueue, readyCh,
                       admission, faults>>
    BY <1>12 DEF SendIngest, WorkerStep
  <2>2. worker[w].task \in Task
    BY <2>1, <1>0
  <2>3. ingestQueue' \in Seq(Task)
    BY <2>1, <2>2, <1>3
  <2> QED
    BY <2>1, <2>2, <2>3, <1>4, <1>6, Frame, WorkerQuiet DEF channels
<1>13. CASE Cleanup(w)
  <2>1. /\ worker[w].pc = "cleanup" /\ (NoFault \/ Fault)
        /\ ramAdmissions' = IF worker[w].admitted THEN ramAdmissions \ {t} ELSE ramAdmissions
        /\ used' = IF worker[w].ticket THEN IntSafeSub(used, 1) ELSE used
        /\ UNCHANGED <<rows, remote, request, feeder, wake, process, opQueue, readyCh,
                       ingestQueue, taskLeases>>
    BY <1>13 DEF Cleanup, WorkerStep
  <2>2. worker[w].task \in Task
    BY <2>1, <1>0
  <2>3. AdmissionOK'
    BY <2>1, <1>2 DEF AdmissionOK, IntSafeSub
  <2>4. ProcessOK'
    BY <2>1, <1>5
  <2>5. WorkersOK'
    <3>1. CASE worker' = [worker EXCEPT ![w] = IdleWorker]
      BY <3>1, <1>0, <1>1 DEF WorkersOK
    <3>2. CASE worker' = [worker EXCEPT ![w] = [IdleWorker EXCEPT !.pc = "report",
                                                                  !.task = worker[w].task]]
      <4> DEFINE new == [IdleWorker EXCEPT !.pc = "report", !.task = worker[w].task]
      <4>1. /\ new \in [pc : WorkerPC, task : Task \cup {None}, ticket : BOOLEAN,
                        admitted : BOOLEAN]
            /\ new.task = worker[w].task
        BY <2>2 DEF IdleWorker, WorkerPC
      <4>2. worker' = [worker EXCEPT ![w] = new]
        BY <3>2
      <4> HIDE DEF new
      <4> QED
        BY <4>1, <4>2, <2>2, <1>0 DEF WorkersOK
    <3> QED
      BY <1>13, <3>1, <3>2 DEF Cleanup
  <2> QED
    BY <2>1, <2>3, <2>4, <2>5, <1>3, WorkerQuiet
<1>14. CASE ReportCleanupFailure(w)
  <2>1. /\ worker[w].pc = "report" /\ Send(StatusOp(t, "FAILED"))
        /\ worker' = [worker EXCEPT ![w] = IdleWorker]
        /\ UNCHANGED <<rows, remote, request, feeder, wake, process, readyCh, ingestQueue,
                       admission, faults>>
    BY <1>14 DEF ReportCleanupFailure, WorkerStep
  <2>2. t \in Tracks
    BY <2>1, <1>0, <1>1
  <2>3. WorkersOK'
    BY <2>1, <1>0, <1>1 DEF WorkersOK
  <2> QED
    BY <2>1, <2>2, <2>3, Frame, WorkerReports DEF RowStatus, channels
<1> QED
  BY <1>7, <1>8, <1>9, <1>10, <1>11, <1>12, <1>13, <1>14 DEF Pipeline

LEMMA WrittenRow ==
  ASSUME RemoteOK, NEW t \in Tracks, NEW b \in BOOLEAN, pg' = Written(t, b)
  PROVE  /\ pg' \in [Hashes -> LibraryRow]
         /\ \A h \in Hashes : pg'[h].track \in Tracks => pg'[h].version > 0
         /\ \A h \in Hashes : pg[h].version > 0 => pg'[h].version > 0
         /\ pg'[Hash[t]].version > 0
<1> DEFINE h0 == Hash[t]
           new == [version |-> pg[h0].version + 1, track |-> t, complete |-> b]
<1>1. h0 \in Hashes /\ pg \in [Hashes -> LibraryRow]
  BY TaskQueueAssumption DEF RemoteOK
<1>2. pg[h0].version \in Nat
  BY <1>1 DEF LibraryRow
<1>3. new \in LibraryRow /\ new.version > 0
  BY <1>2 DEF LibraryRow
<1>4. pg' = [pg EXCEPT ![h0] = new]
  BY <1>1 DEF Written
<1> HIDE DEF h0, new
<1>5. pg' \in [Hashes -> LibraryRow] /\ \A h \in Hashes : pg'[h] = IF h = h0 THEN new ELSE pg[h]
  BY <1>1, <1>3, <1>4
<1> QED
  BY <1>1, <1>3, <1>5 DEF RemoteOK, h0

LEMMA SavedPayload ==
  ASSUME IInv, NEW task \in Task, SaveToDLQ(task)
  PROVE  dlq' \in [Hashes -> Payload \cup {None}]
<1>1. FullAnalysis(task) \in BOOLEAN
  BY DEF FullAnalysis, IInv, Types, RequestsOK, Task
<1>2. [track |-> task.track, full |-> FullAnalysis(task)] \in Payload
  BY <1>1 DEF Payload, Task
<1>3. dlq \in [Hashes -> Payload \cup {None}]
  BY DEF IInv, Types, RemoteOK
<1> QED
  BY <1>2, <1>3 DEF SaveToDLQ

LEMMA IngestIInv ==
  ASSUME IInv, Ingest
  PROVE  IInv'
<1> DEFINE task == Head(ingestQueue)
           t == task.track
<1>0. /\ ingestQueue \in Seq(Task) /\ ingestQueue # <<>> /\ (NoFault \/ Fault)
      /\ ingestQueue' = Tail(ingestQueue)
      /\ UNCHANGED <<rows, request, feeder, channels, worker, admission, process>>
  BY DEF Ingest, IngestCommit, IngestConflict, IngestToDLQ, IngestFailed, IngestStep, NoFault,
         IInv, Types, QueuesOK
<1>1. ingestQueue' \in Seq(Task) /\ task \in Task /\ t \in Tracks
  <2>1. ingestQueue' \in Seq(Task) /\ task \in Task
    BY <1>0
  <2> QED
    BY <2>1 DEF Task
<1>2. PICK s \in RowStatus : Send(StatusOp(t, s)) /\ (s = "COMPLETED" => IngestCommit)
  BY DEF Ingest, IngestCommit, IngestConflict, IngestToDLQ, IngestFailed, IngestStep, RowStatus
<1>3. StatusOp(t, s) \in Op /\ StatusOp(t, s).kind = "status"
  BY <1>1, Messages
<1>4. QueuesOK' /\ AnswersOK'
  BY <1>0, <1>1, <1>2, <1>3, SentQueue, AnswersSent DEF IInv, Types, QueuesOK
<1>5. ProcessOK'
  BY <1>0 DEF IInv, Types, ProcessOK, process, channels, NoFault, Fault
<1>6. /\ UNCHANGED pg \/ pg' = Written(t, TRUE)
      /\ IngestCommit => pg' = Written(t, TRUE)
      /\ UNCHANGED dlq \/ SaveToDLQ(task)
  BY DEF Ingest, IngestCommit, IngestConflict, IngestToDLQ, IngestFailed, FailOrHide, Ingested,
         remote
<1>7. RemoteOK'
  BY <1>1, <1>6, WrittenRow, SavedPayload DEF IInv, Types, RemoteOK
<1>8. CompletedIsStored'
  <2>1. UNCHANGED status
    BY <1>0 DEF rows
  <2>2. \A u \in Tracks : StatusOp(t, s) = StatusOp(u, "COMPLETED") => u = t /\ s = "COMPLETED"
    BY DEF StatusOp
  <2>3. \A u \in Tracks : ReportedCompleted(u)' =>
            ReportedCompleted(u) \/ (u = t /\ s = "COMPLETED")
    BY <1>2, <1>3, <2>1, <2>2, ReportsSent DEF IInv, Types
  <2>4. s = "COMPLETED" => pg'[Hash[t]].version > 0
    BY <1>1, <1>2, <1>6, WrittenRow DEF IInv, Types
  <2>5. \A h \in Hashes : pg[h].version > 0 => pg'[h].version > 0
    BY <1>1, <1>6, WrittenRow DEF IInv, Types
  <2> QED
    BY <2>3, <2>4, <2>5, StoredStep DEF IInv
<1> QED
  BY <1>0, <1>4, <1>5, <1>7, <1>8, Frame DEF IInv, Types

LEMMA ReplayIInv ==
  ASSUME IInv, NEW h \in Hashes, ReplayDLQ(h)
  PROVE  IInv'
<1>1. /\ dlq[h] \in Payload /\ pg' = Written(dlq[h].track, dlq[h].full)
      /\ dlq' = [dlq EXCEPT ![h] = None] \/ UNCHANGED dlq
      /\ NoFault \/ Fault
      /\ UNCHANGED <<rows, request, opQueue, feeder, channels, worker, ingestQueue, admission,
                     process>>
  BY DEF ReplayDLQ, IInv, Types, RemoteOK
<1>2. dlq[h].track \in Tracks /\ dlq[h].full \in BOOLEAN
  BY <1>1 DEF Payload
<1>3. RemoteOK' /\ \A g \in Hashes : pg[g].version > 0 => pg'[g].version > 0
  BY <1>1, <1>2, WrittenRow DEF IInv, Types, RemoteOK
<1>4. ProcessOK'
  BY <1>1 DEF IInv, Types, ProcessOK, process, channels, NoFault, Fault
<1>5. CompletedIsStored'
  <2>1. \A t \in Tracks : ReportedCompleted(t)' => ReportedCompleted(t)
    BY <1>1 DEF ReportedCompleted, rows
  <2> QED
    BY <1>3, <2>1, StoredStep DEF IInv
<1> QED
  BY <1>1, <1>3, <1>4, <1>5, AnswersQuiet, Frame DEF IInv, Types

LEMMA CoolIInv ==
  ASSUME IInv, NEW t \in Tracks, Cool(t)
  PROVE  IInv'
<1>1. /\ status[t] = "FAILED_MAYBE_RETRY" /\ cooled' = cooled \cup {t}
      /\ UNCHANGED <<status, payload, remote, request, opQueue, feeder, channels, worker,
                     ingestQueue, admission, process, faults>>
      /\ UNCHANGED pg
  BY DEF Cool, remote
<1>2. RowsOK'
  BY <1>1 DEF IInv, Types, RowsOK
<1> QED
  BY <1>1, <1>2, QuietPart, Frame DEF IInv, Types

\* A process that has ended keeps only what the databases hold.
LEMMA DieIInv ==
  ASSUME IInv, Die, restarts' \in Nat
  PROVE  IInv'
<1>1. /\ opQueue' = <<>> /\ ingestQueue' = <<>> /\ UNCHANGED <<rows, remote, faults>>
      /\ request' = [r \in Requests |->
            IF request[r].pc = "none" THEN request[r] ELSE [request[r] EXCEPT !.pc = "done"]]
      /\ feeder' = IdleFeeder /\ worker' = [w \in Workers |-> IdleWorker]
      /\ wake' = FALSE /\ readyCh' = 0 /\ mode' = "down"
      /\ taskLeases' = {} /\ ramAdmissions' = {} /\ used' = 0
  BY DEF Die
<1>2. QueuesOK' /\ AnswersOK'
  BY <1>1 DEF QueuesOK, AnswersOK
<1>3. RequestsOK'
  BY <1>1 DEF IInv, Types, RequestsOK, RequestPC
<1>4. FeederOK'
  BY <1>1 DEF FeederOK, IdleFeeder, FeederPC
<1>5. WorkersOK'
  BY <1>1 DEF WorkersOK, IdleWorker, WorkerPC
<1>6. AdmissionOK' /\ ProcessOK'
  BY <1>1 DEF AdmissionOK, ProcessOK, IInv, Types
<1>7. CompletedIsStored'
  <2>1. \A t \in Tracks : ReportedCompleted(t)' => ReportedCompleted(t)
    BY <1>1 DEF ReportedCompleted, rows
  <2> QED
    BY <1>1, <2>1, StoredStep DEF IInv, remote
<1> QED
  BY <1>1, <1>2, <1>3, <1>4, <1>5, <1>6, <1>7, Frame DEF IInv, Types

LEMMA RestartIInv ==
  ASSUME IInv, Restart
  PROVE  IInv'
<1>1. /\ ResetStaleTasks /\ mode' = "up" /\ wake' = TRUE
      /\ UNCHANGED <<payload, cooled, remote, request, opQueue, feeder, readyCh, worker,
                     ingestQueue, admission, restarts, faults>>
  BY DEF Restart
<1>2. \A t \in Tracks :
         status'[t] = IF status[t] = "QUEUED" THEN "PENDING"
                      ELSE IF status[t] = "RUNNING" THEN "FAILED_MAYBE_RETRY" ELSE status[t]
  BY <1>1 DEF ResetStaleTasks
<1>3. RowsOK'
  <2>1. status' \in [Tracks -> RowStatus \cup {"ABSENT"}]
    <3>1. status' = [t \in Tracks |-> status'[t]]
      BY <1>1 DEF ResetStaleTasks
    <3> QED
      BY <1>2, <3>1 DEF IInv, Types, RowsOK, RowStatus
  <2> QED
    BY <1>1, <1>2, <2>1 DEF IInv, Types, RowsOK
<1>4. ProcessOK'
  BY <1>1 DEF IInv, Types, ProcessOK
<1>5. CompletedIsStored'
  <2>1. \A t \in Tracks : ReportedCompleted(t)' => ReportedCompleted(t)
    BY <1>1, <1>2 DEF ReportedCompleted
  <2> QED
    BY <1>1, <2>1, StoredStep DEF IInv, remote
<1> QED
  BY <1>1, <1>3, <1>4, <1>5, AnswersQuiet, Frame DEF IInv, Types

LEMMA NextIInv == IInv /\ [Next]_vars => IInv'
<1> SUFFICES ASSUME IInv, [Next]_vars PROVE IInv'
  OBVIOUS
<1>1. CASE Stop
  <2>1. /\ mode' = "stopping" /\ restarts' = restarts + 1
        /\ UNCHANGED <<rows, remote, request, opQueue, feeder, channels, worker, ingestQueue,
                       admission, faults>>
        /\ UNCHANGED <<status, pg>>
    BY <1>1 DEF Stop, rows, remote
  <2>2. ProcessOK'
    BY <2>1 DEF IInv, Types, ProcessOK, channels
  <2> QED
    BY <2>1, <2>2, QuietPart, Frame DEF IInv, Types
<1>2. CASE Exit \/ Crash
  <2>1. Die /\ restarts' \in Nat
    BY <1>2 DEF Exit, Crash, IInv, Types, ProcessOK
  <2> QED
    BY <2>1, DieIInv
<1>3. CASE UNCHANGED vars
  <2>1. /\ UNCHANGED <<rows, remote, request, opQueue, feeder, channels, worker, ingestQueue,
                       admission, process, faults>>
        /\ UNCHANGED <<status, pg>>
    BY <1>3 DEF vars, rows, remote, channels, admission, process
  <2> QED
    BY <2>1, QuietPart, Frame DEF IInv, Types
<1>4. CASE Restart
  BY <1>4, RestartIInv
<1>5. CASE \E h \in Hashes : ReplayDLQ(h)
  BY <1>5, ReplayIInv
<1>6. CASE \E t \in Tracks : Cool(t)
  BY <1>6, CoolIInv
<1>7. CASE \E w \in Workers : Announce(w) \/ Leave(w) \/ Pipeline(w)
  BY <1>7, WorkerIInv
<1>8. CASE \E r \in Requests :
              \/ \E batch \in SUBSET Tracks \ {{}}, forced \in BOOLEAN : Plan(r, batch, forced)
              \/ SendCheck(r) \/ Notify(r)
  BY <1>8, RequestsIInv
<1>9. CASE Writer
  BY <1>9, WriteIInv
<1>10. CASE Feeder
  BY <1>10, FeederIInv
<1>11. CASE Ingest
  BY <1>11, IngestIInv
<1> QED
  BY <1>1, <1>2, <1>3, <1>4, <1>5, <1>6, <1>7, <1>8, <1>9, <1>10, <1>11 DEF Next

LEMMA SpecIInv == Spec => []IInv
BY InitIInv, NextIInv, PTL DEF Spec

\* Every variable of the task queue keeps its type, whatever the tracks, requests,
\* workers and capacities: no counter goes below zero, no claim yields a row without a
\* payload, and no goroutine uses a task it does not have.
THEOREM TypeCorrect == Spec => []TypeOK
<1>1. IInv => TypeOK
  BY DEF IInv, Types, TypeOK, RowsOK, RemoteOK, RequestsOK, QueuesOK, FeederOK, WorkersOK,
         AdmissionOK, ProcessOK
<1> QED
  BY <1>1, SpecIInv, PTL

\* A track is never COMPLETED, nor about to be reported so, without a row for its audio
\* in the library, whichever of preflight, duplicate check and ingest reports it.
THEOREM CompletionIsSound == Spec => []CompletedIsStored
<1>1. IInv => CompletedIsStored
  BY DEF IInv
<1> QED
  BY <1>1, SpecIInv, PTL

(***************************************************************************)
(* The task queue implements the shelf: every step is a step of Shelf, or  *)
(* leaves the shelf alone.                                                 *)
(***************************************************************************)
Shelved ==
    [t \in Tracks |-> CASE status[t] = "ABSENT" -> "absent"
                        [] status[t] = "COMPLETED" -> "done"
                        [] status[t] = "FAILED" -> "failed"
                        [] OTHER -> "open"]
Stored == {h \in Hashes : pg[h].version > 0}

\* What the steps of Shelf are under the refinement mapping.
LEMMA ShelfSteps ==
  /\ Promise!Init <=> Shelved = [t \in Tracks |-> "absent"] /\ Stored \in SUBSET Hashes
  /\ UNCHANGED Promise!vars <=> Shelved' = Shelved /\ Stored' = Stored
  /\ \A ts \in SUBSET Tracks : Promise!Open(ts) <=>
        /\ ts # {} /\ Stored' = Stored
        /\ Shelved' = [t \in Tracks |-> IF t \in ts THEN "open" ELSE Shelved[t]]
  /\ \A h \in Hashes : Promise!Store(h) <=> Stored' = Stored \cup {h} /\ Shelved' = Shelved
  /\ \A t \in Tracks : Promise!Finish(t) <=>
        /\ Shelved[t] # "absent" /\ Hash[t] \in Stored /\ Stored' = Stored
        /\ Shelved' = [Shelved EXCEPT ![t] = "done"]
  /\ \A t \in Tracks : Promise!Fail(t) <=>
        /\ Shelved[t] # "absent" /\ Stored' = Stored
        /\ Shelved' = [Shelved EXCEPT ![t] = "failed"]
BY DEF Promise!Init, Promise!vars, Promise!Open, Promise!Store, Promise!Finish, Promise!Fail,
       Shelved, Stored

LEMMA ShelvedRow ==
  /\ Shelved = [t \in Tracks |-> Shelved[t]]
  /\ \A t \in Tracks :
        /\ status[t] = "ABSENT" => Shelved[t] = "absent"
        /\ status[t] = "COMPLETED" => Shelved[t] = "done"
        /\ status[t] = "FAILED" => Shelved[t] = "failed"
        /\ status[t] \notin {"ABSENT", "COMPLETED", "FAILED"} => Shelved[t] = "open"
BY DEF Shelved

LEMMA ShelvedRowNext ==
  /\ Shelved' = [t \in Tracks |-> Shelved'[t]]
  /\ \A t \in Tracks :
        /\ status'[t] = "ABSENT" => Shelved'[t] = "absent"
        /\ status'[t] = "COMPLETED" => Shelved'[t] = "done"
        /\ status'[t] = "FAILED" => Shelved'[t] = "failed"
        /\ status'[t] \notin {"ABSENT", "COMPLETED", "FAILED"} => Shelved'[t] = "open"
BY DEF Shelved

LEMMA ShelfQuiet ==
  ASSUME UNCHANGED <<status, pg>>
  PROVE  UNCHANGED Promise!vars
BY ShelfSteps DEF Shelved, Stored

\* Rows that move between the open statuses, together or alone.
LEMMA ShelfOpens ==
  ASSUME NEW ts \in SUBSET Tracks, NEW s \in RowStatus \ {"COMPLETED", "FAILED"},
         UNCHANGED pg, SetStatus(ts, s)
  PROVE  [Promise!Next]_(Promise!vars)
<1>1. Stored' = Stored
  BY DEF Stored
<1>2. \A t \in Tracks : status'[t] = IF t \in ts THEN s ELSE status[t]
  BY DEF SetStatus
<1>3. \A t \in Tracks : Shelved'[t] = IF t \in ts THEN "open" ELSE Shelved[t]
  <2> SUFFICES ASSUME NEW t \in Tracks
               PROVE  Shelved'[t] = IF t \in ts THEN "open" ELSE Shelved[t]
    OBVIOUS
  <2>1. CASE t \in ts
    BY <2>1, <1>2, ShelvedRowNext DEF RowStatus
  <2>2. CASE t \notin ts
    BY <2>2, <1>2 DEF Shelved
  <2> QED
    BY <2>1, <2>2
<1>4. Shelved' = [t \in Tracks |-> IF t \in ts THEN "open" ELSE Shelved[t]]
  BY <1>3, ShelvedRowNext
<1>5. CASE ts = {}
  <2>1. Shelved' = Shelved
    BY <1>4, <1>5, ShelvedRow
  <2> QED
    BY <1>1, <2>1, ShelfSteps
<1>6. CASE ts # {}
  <2>1. Promise!Open(ts)
    BY <1>1, <1>4, <1>6, ShelfSteps
  <2> QED
    BY <2>1 DEF Promise!Next
<1> QED
  BY <1>5, <1>6

\* A status that settles a row: COMPLETED only with its audio in the library.
LEMMA ShelfSettles ==
  ASSUME NEW t \in Tracks, NEW s \in {"COMPLETED", "FAILED"}, status[t] # "ABSENT",
         UNCHANGED pg, SetStatus({t}, s), s = "COMPLETED" => pg[Hash[t]].version > 0,
         status \in [Tracks -> RowStatus \cup {"ABSENT"}]
  PROVE  Promise!Next
<1> DEFINE settled == IF s = "COMPLETED" THEN "done" ELSE "failed"
<1>1. Stored' = Stored
  BY DEF Stored
<1>2. \A u \in Tracks : status'[u] = IF u = t THEN s ELSE status[u]
  BY DEF SetStatus
<1>3. \A u \in Tracks : u # t => Shelved'[u] = Shelved[u]
  BY <1>2 DEF Shelved
<1>4. Shelved'[t] = settled
  BY <1>2, ShelvedRowNext
<1>5. Shelved' = [Shelved EXCEPT ![t] = settled]
  BY <1>3, <1>4, ShelvedRow, ShelvedRowNext
<1>6. Shelved[t] # "absent"
  <2>1. CASE status[t] \notin {"COMPLETED", "FAILED"}
    BY <2>1, ShelvedRow
  <2>2. CASE status[t] \in {"COMPLETED", "FAILED"}
    BY <2>2, ShelvedRow
  <2> QED
    BY <2>1, <2>2
<1>7. CASE s = "COMPLETED"
  <2>1. Hash[t] \in Stored
    BY <1>7, TaskQueueAssumption DEF Stored
  <2>2. Promise!Finish(t)
    BY <1>1, <1>5, <1>6, <1>7, <2>1, ShelfSteps
  <2> QED
    BY <2>2 DEF Promise!Next
<1>8. CASE s = "FAILED"
  <2>1. Promise!Fail(t)
    BY <1>1, <1>5, <1>6, <1>8, ShelfSteps
  <2> QED
    BY <2>1 DEF Promise!Next
<1> QED
  BY <1>7, <1>8

\* A write to PostgreSQL adds a row or replaces one.
LEMMA ShelfStores ==
  ASSUME IInv, UNCHANGED status, NEW t \in Tracks, NEW b \in BOOLEAN, pg' = Written(t, b)
  PROVE  Promise!Next
<1>1. Shelved' = Shelved
  BY DEF Shelved
<1>2. Hash[t] \in Hashes /\ pg \in [Hashes -> LibraryRow]
  BY TaskQueueAssumption DEF IInv, Types, RemoteOK
<1>3. pg'[Hash[t]].version > 0
  BY WrittenRow DEF IInv, Types
<1>4. \A h \in Hashes : h # Hash[t] => pg'[h] = pg[h]
  BY <1>2 DEF Written
<1>5. Stored' = Stored \cup {Hash[t]}
  BY <1>2, <1>3, <1>4 DEF Stored
<1>6. Promise!Store(Hash[t])
  BY <1>1, <1>2, <1>5, ShelfSteps
<1> QED
  BY <1>2, <1>6 DEF Promise!Next

LEMMA WriterKeepsPromise ==
  ASSUME IInv, Writer
  PROVE  [Promise!Next]_(Promise!vars)
<1> DEFINE op == Head(opQueue)
<1>0. /\ opQueue # <<>> /\ UNCHANGED pg
  BY DEF Writer, WriteCheck, WriteStatus, WriteRequeue, WriteClaim, WritePark, Write, remote
<1>1. op \in Op /\ op = opQueue[1] /\ 1 \in 1..Len(opQueue)
  <2>1. opQueue \in Seq(Op)
    BY DEF IInv, Types, QueuesOK
  <2> QED
    BY <1>0, <2>1
<1>2. {"PENDING", "QUEUED", "FAILED_MAYBE_RETRY"} \subseteq RowStatus \ {"COMPLETED", "FAILED"}
  BY DEF RowStatus
<1>3. CASE WriteCheck
  <2>1. op.req \in Requests
    BY <1>1, <1>3, MessageShapes DEF WriteCheck, Write
  <2>2. {t \in request[op.req].batch : Takes(op.req, t)} \in SUBSET Tracks
    BY <2>1 DEF IInv, Types, RequestsOK
  <2>3. SetStatus({t \in request[op.req].batch : Takes(op.req, t)}, "PENDING")
    BY <1>3 DEF WriteCheck
  <2> QED
    BY <1>0, <1>2, <2>2, <2>3, ShelfOpens
<1>4. CASE WriteStatus
  <2>1. /\ op.track \in Tracks /\ op.status \in RowStatus /\ op = StatusOp(op.track, op.status)
        /\ SetStatus({op.track} \cap {t \in Tracks : status[t] # "ABSENT"}, op.status)
    BY <1>1, <1>4, MessageShapes DEF WriteStatus, Write
  <2>2. CASE op.status \notin {"COMPLETED", "FAILED"}
    <3>1. {op.track} \cap {t \in Tracks : status[t] # "ABSENT"} \in SUBSET Tracks
      OBVIOUS
    <3> HIDE DEF op
    <3> QED
      BY <1>0, <2>1, <2>2, <3>1, ShelfOpens
  <2>3. CASE op.status \in {"COMPLETED", "FAILED"} /\ status[op.track] # "ABSENT"
    <3>1. op.status = "COMPLETED" => pg[Hash[op.track]].version > 0
      BY <1>1, <2>1 DEF IInv, CompletedIsStored, ReportedCompleted
    <3>2. SetStatus({op.track}, op.status)
      <4>1. {op.track} \cap {t \in Tracks : status[t] # "ABSENT"} = {op.track}
        BY <2>1, <2>3
      <4> QED
        BY <2>1, <4>1
    <3>3. status \in [Tracks -> RowStatus \cup {"ABSENT"}]
      BY DEF IInv, Types, RowsOK
    <3> HIDE DEF op
    <3> QED
      BY <1>0, <2>1, <2>3, <3>1, <3>2, <3>3, ShelfSettles
  <2>4. CASE status[op.track] = "ABSENT"
    <3>1. {op.track} \cap {t \in Tracks : status[t] # "ABSENT"} = {}
      BY <2>4
    <3>2. status' = [t \in Tracks |-> status[t]]
      BY <2>1, <3>1 DEF SetStatus
    <3>3. UNCHANGED status
      BY <3>2 DEF IInv, Types, RowsOK
    <3> QED
      BY <1>0, <3>3, ShelfQuiet
  <2> QED
    BY <2>2, <2>3, <2>4
<1>5. CASE WriteRequeue
  <2>1. ASSUME NEW t \in cooled, SetStatus({t}, "PENDING") PROVE [Promise!Next]_(Promise!vars)
    <3>1. {t} \in SUBSET Tracks
      BY DEF IInv, Types, RowsOK
    <3> QED
      BY <1>0, <1>2, <2>1, <3>1, ShelfOpens
  <2>2. CASE UNCHANGED status
    BY <1>0, <2>2, ShelfQuiet
  <2> QED
    BY <1>5, <2>1, <2>2 DEF WriteRequeue
<1>6. CASE WriteClaim
  <2>1. ASSUME NEW t \in Pending, SetStatus({t}, "QUEUED") PROVE [Promise!Next]_(Promise!vars)
    <3>1. {t} \in SUBSET Tracks
      BY DEF Pending
    <3> QED
      BY <1>0, <1>2, <2>1, <3>1, ShelfOpens
  <2>2. CASE UNCHANGED status
    BY <1>0, <2>2, ShelfQuiet
  <2> QED
    BY <1>6, <2>1, <2>2 DEF WriteClaim
<1>7. CASE WritePark
  <2> DEFINE ts == IF status[op.track] = "QUEUED" THEN {op.track} ELSE {}
  <2>1. op.track \in Tracks
    BY <1>1, <1>7, MessageShapes DEF WritePark, Write
  <2>2. ts \in SUBSET Tracks /\ SetStatus(ts, "FAILED_MAYBE_RETRY")
    BY <1>7, <2>1 DEF WritePark
  <2> HIDE DEF ts
  <2> QED
    BY <1>0, <1>2, <2>2, ShelfOpens
<1> QED
  BY <1>3, <1>4, <1>5, <1>6, <1>7 DEF Writer

LEMMA NextKeepsPromise ==
  ASSUME IInv, [Next]_vars
  PROVE  [Promise!Next]_(Promise!vars)
<1>1. CASE Writer
  BY <1>1, WriterKeepsPromise
<1>2. CASE Ingest
  <2> DEFINE t == Head(ingestQueue).track
  <2>1. UNCHANGED status /\ (UNCHANGED pg \/ pg' = Written(t, TRUE)) /\ ingestQueue # <<>>
    BY <1>2 DEF Ingest, IngestCommit, IngestConflict, IngestToDLQ, IngestFailed, IngestStep,
                FailOrHide, Ingested, remote, rows
  <2>2. t \in Tracks
    <3>1. Head(ingestQueue) \in Task
      BY <2>1 DEF IInv, Types, QueuesOK
    <3> QED
      BY <3>1 DEF Task
  <2> HIDE DEF t
  <2> QED
    BY <2>1, <2>2, ShelfQuiet, ShelfStores
<1>3. ASSUME NEW h \in Hashes, ReplayDLQ(h) PROVE [Promise!Next]_(Promise!vars)
  <2>1. UNCHANGED status /\ pg' = Written(dlq[h].track, dlq[h].full) /\ dlq[h] # None
    BY <1>3 DEF ReplayDLQ, rows
  <2>2. dlq[h].track \in Tracks /\ dlq[h].full \in BOOLEAN
    BY <2>1 DEF IInv, Types, RemoteOK, Payload
  <2> QED
    BY <2>1, <2>2, ShelfStores
<1>4. CASE Restart
  <2>1. UNCHANGED pg /\ ResetStaleTasks
    BY <1>4 DEF Restart, remote
  <2>2. \A t \in Tracks :
           status'[t] = IF status[t] = "QUEUED" THEN "PENDING"
                        ELSE IF status[t] = "RUNNING" THEN "FAILED_MAYBE_RETRY" ELSE status[t]
    BY <2>1 DEF ResetStaleTasks
  <2>3. Stored' = Stored
    BY <2>1 DEF Stored
  <2>4. \A t \in Tracks : Shelved'[t] = Shelved[t]
    <3> SUFFICES ASSUME NEW t \in Tracks PROVE Shelved'[t] = Shelved[t]
      OBVIOUS
    <3>1. CASE status[t] \in {"QUEUED", "RUNNING"}
      BY <3>1, <2>2, ShelvedRow, ShelvedRowNext
    <3>2. CASE status[t] \notin {"QUEUED", "RUNNING"}
      <4>1. status'[t] = status[t]
        BY <3>2, <2>2
      <4> QED
        BY <4>1 DEF Shelved
    <3> QED
      BY <3>1, <3>2
  <2>5. Shelved' = Shelved
    BY <2>4, ShelvedRow, ShelvedRowNext
  <2> QED
    BY <2>3, <2>5, ShelfSteps
<1>5. CASE \/ Feeder \/ Stop \/ Exit \/ Crash \/ UNCHANGED vars
           \/ \E t \in Tracks : Cool(t)
           \/ \E w \in Workers : Announce(w) \/ Leave(w) \/ Pipeline(w)
           \/ \E r \in Requests :
                 \/ \E batch \in SUBSET Tracks \ {{}}, forced \in BOOLEAN : Plan(r, batch, forced)
                 \/ SendCheck(r) \/ Notify(r)
  <2>1. CASE Feeder
    BY <2>1, ShelfQuiet DEF Feeder, FeederWake, FeederReady, FeederTick, FeederLoop, FeederClaim,
                FeederPreflight, FeederReserve, FeederRecheck, FeederAbandon, FeederExit,
                Handoff, FeederStep, rows, remote
  <2>2. CASE \E w \in Workers : Announce(w) \/ Leave(w) \/ Pipeline(w)
    BY <2>2, ShelfQuiet DEF Announce, Leave, Pipeline, Begin, HashCheck, Analyse, SendIngest,
             Cleanup, ReportCleanupFailure, WorkerStep, rows, remote
  <2>3. CASE Stop \/ Exit \/ Crash \/ UNCHANGED vars \/ \E t \in Tracks : Cool(t)
    BY <2>3, ShelfQuiet DEF Stop, Exit, Crash, Die, Cool, vars, rows, remote
  <2>4. CASE \E r \in Requests :
                \/ \E batch \in SUBSET Tracks \ {{}}, forced \in BOOLEAN : Plan(r, batch, forced)
                \/ SendCheck(r) \/ Notify(r)
    BY <2>4, ShelfQuiet DEF Plan, SendCheck, Notify, rows, remote
  <2> QED
    BY <1>5, <2>1, <2>2, <2>3, <2>4
<1> QED
  BY <1>1, <1>2, <1>3, <1>4, <1>5 DEF Next

\* The task queue implements the shelf: an accepted track is not forgotten by a park, a
\* conflict, an outage, a crash or a restart, it is done only with its audio in the
\* library, and the library never loses a row.
THEOREM KeepsThePromise == Spec => Promise!Spec
<1>1. Init => Promise!Init
  <2> SUFFICES ASSUME Init PROVE Promise!Init
    OBVIOUS
  <2>1. \A t \in Tracks : Shelved[t] = "absent"
    BY ShelvedRow DEF Init
  <2>2. Shelved = [t \in Tracks |-> "absent"]
    BY <2>1, ShelvedRow
  <2> QED
    BY <2>2, ShelfSteps DEF Stored
<1>2. IInv /\ [Next]_vars => [Promise!Next]_(Promise!vars)
  BY NextKeepsPromise
<1> QED
  BY <1>1, <1>2, SpecIInv, PTL DEF Spec, Promise!Spec

(***************************************************************************)
(* Half an analysis.  The half rows are those that were there from the     *)
(* start; a step makes one only by replaying half a payload.  Until it is  *)
(* complete nothing reports its track COMPLETED: the preflight sends the   *)
(* track on with the version it saw, and the duplicate check is only for   *)
(* tasks that saw none.                                                    *)
(***************************************************************************)
HalfRow(t) == pg[Hash[t]].track = t /\ ~pg[Hash[t]].complete
HalfReplay == \E h \in Hashes : ReplayDLQ(h) /\ ~dlq[h].full

\* The preflight has run for the track and has found its row.
SeenByFeeder(t) ==
    feeder.pc \in {"reserve", "recheck", "handoff"} /\ feeder.task.track = t => feeder.task.snap # 0
SeenByWorker(w, t) ==
    worker[w].pc \in {"begin", "hash"} /\ worker[w].task.track = t => worker[w].task.snap # 0
Seen(t) == SeenByFeeder(t) /\ \A w \in Workers : SeenByWorker(w, t)
HalfInv == \A t \in Tracks : HalfRow(t) => ~ReportedCompleted(t) /\ Seen(t)

LEMMA WholeWrite ==
  ASSUME RemoteOK, NEW u \in Tracks, pg' = Written(u, TRUE)
  PROVE  \A t \in Tracks : HalfRow(t)' => HalfRow(t) /\ t # u
<1>1. Hash[u] \in Hashes /\ pg = [h \in Hashes |-> pg[h]]
  BY TaskQueueAssumption DEF RemoteOK
<1>2. /\ pg'[Hash[u]].complete
      /\ \A h \in Hashes \ {Hash[u]} : pg'[h] = pg[h]
  BY <1>1 DEF Written
<1>3. \A t \in Tracks : Hash[t] \in Hashes
  BY TaskQueueAssumption
<1> QED
  BY <1>2, <1>3 DEF HalfRow

\* What an ingest writes is whole.
LEMMA IngestWritesWhole ==
  ASSUME IInv, Ingest
  PROVE  /\ Head(ingestQueue).track \in Tracks
         /\ UNCHANGED pg \/ pg' = Written(Head(ingestQueue).track, TRUE)
         /\ UNCHANGED status
         /\ \E s \in RowStatus : /\ Send(StatusOp(Head(ingestQueue).track, s))
                                 /\ s = "COMPLETED" => pg' = Written(Head(ingestQueue).track, TRUE)
<1>1. ingestQueue # <<>> /\ ingestQueue \in Seq(Task)
  BY DEF Ingest, IngestCommit, IngestConflict, IngestToDLQ, IngestFailed, IngestStep,
         IInv, Types, QueuesOK
<1>2. Head(ingestQueue) \in Task
  BY <1>1
<1>3. UNCHANGED pg \/ pg' = Written(Head(ingestQueue).track, TRUE)
  BY DEF Ingest, IngestCommit, IngestConflict, IngestToDLQ, IngestFailed, FailOrHide, Ingested,
         remote
<1>4. UNCHANGED status
  BY DEF Ingest, IngestCommit, IngestConflict, IngestToDLQ, IngestFailed, IngestStep, rows
<1>5. PICK s \in RowStatus : Send(StatusOp(Head(ingestQueue).track, s))
                             /\ (s = "COMPLETED" => IngestCommit)
  BY DEF Ingest, IngestCommit, IngestConflict, IngestToDLQ, IngestFailed, IngestStep, RowStatus
<1>6. IngestCommit => pg' = Written(Head(ingestQueue).track, TRUE)
  BY DEF IngestCommit, Ingested
<1> QED
  BY <1>2, <1>3, <1>4, <1>5, <1>6 DEF Task

\* No half row appears.
LEMMA NoNewHalf ==
  ASSUME IInv, [Next]_vars, [~HalfReplay]_vars
  PROVE  \A t \in Tracks : HalfRow(t)' => HalfRow(t)
<1>1. CASE UNCHANGED pg
  BY <1>1 DEF HalfRow
<1>2. CASE Ingest
  <2>1. CASE pg' = Written(Head(ingestQueue).track, TRUE)
    BY <1>2, <2>1, IngestWritesWhole, WholeWrite DEF IInv, Types
  <2> QED
    BY <1>1, <1>2, <2>1, IngestWritesWhole
<1>3. ASSUME NEW h \in Hashes, ReplayDLQ(h)
      PROVE  \A t \in Tracks : HalfRow(t)' => HalfRow(t)
  <2>1. CASE UNCHANGED vars
    BY <1>1, <2>1 DEF vars
  <2>2. CASE ~HalfReplay
    <3>1. dlq[h] \in Payload /\ dlq[h].full /\ pg' = Written(dlq[h].track, dlq[h].full)
      BY <1>3, <2>2 DEF HalfReplay, ReplayDLQ, IInv, Types, RemoteOK
    <3>2. dlq[h].track \in Tracks /\ dlq[h].full = TRUE
      BY <3>1 DEF Payload
    <3>3. pg' = Written(dlq[h].track, TRUE)
      BY <3>1, <3>2
    <3> QED
      BY <3>2, <3>3, WholeWrite DEF IInv, Types
  <2> QED
    BY <2>1, <2>2
<1>4. \/ UNCHANGED pg \/ Ingest \/ \E h \in Hashes : ReplayDLQ(h)
  <2>1. CASE Feeder
    BY <2>1 DEF Feeder, FeederWake, FeederReady, FeederTick, FeederLoop, FeederClaim,
                FeederPreflight, FeederReserve, FeederRecheck, FeederAbandon, FeederExit,
                Handoff, FeederStep, remote
  <2>2. CASE \E w \in Workers : Announce(w) \/ Leave(w) \/ Pipeline(w)
    BY <2>2 DEF Announce, Leave, Pipeline, Begin, HashCheck, Analyse, SendIngest,
             Cleanup, ReportCleanupFailure, WorkerStep, remote
  <2>3. CASE Stop \/ Exit \/ Crash \/ Restart \/ UNCHANGED vars \/ \E t \in Tracks : Cool(t)
    BY <2>3 DEF Stop, Exit, Crash, Die, Restart, Cool, vars, remote
  <2>4. CASE \E r \in Requests :
                \/ \E batch \in SUBSET Tracks \ {{}}, forced \in BOOLEAN : Plan(r, batch, forced)
                \/ SendCheck(r) \/ Notify(r)
    BY <2>4 DEF Plan, SendCheck, Notify, remote
  <2>5. CASE Writer
    BY <2>5 DEF Writer, WriteCheck, WriteStatus, WriteRequeue, WriteClaim, WritePark, Write, remote
  <2> QED
    BY <2>1, <2>2, <2>3, <2>4, <2>5 DEF Next
<1> QED
  BY <1>1, <1>2, <1>3, <1>4

\* The preflight of a track with a half row sees its version.
LEMMA PreflightSees ==
  ASSUME IInv, FeederPreflight, NEW t \in Tracks, HalfRow(t), Seen(t)
  PROVE  SeenByFeeder(t)'
<1>1. /\ feeder.pc = "preflight" /\ feeder.task \in Task
      /\ feeder \in [pc : FeederPC, task : Task \cup {None}, ready : Nat]
  BY DEF FeederPreflight, FeederStep, IInv, Types, FeederOK
<1>2. CASE feeder' = [feeder EXCEPT !.pc = "reserve", !.task.snap = Snapshot(feeder.task.track)]
  <2>1. /\ feeder'.task.track = feeder.task.track
        /\ feeder'.task.snap = Snapshot(feeder.task.track)
    BY <1>1, <1>2 DEF Task
  <2>2. Snapshot(t) # 0
    <3>1. pg[Hash[t]].version > 0 /\ pg[Hash[t]].version \in Nat
      BY TaskQueueAssumption DEF HalfRow, IInv, Types, RemoteOK, LibraryRow
    <3> QED
      BY <3>1 DEF Snapshot, HalfRow
  <2> QED
    BY <2>1, <2>2 DEF SeenByFeeder
<1>3. CASE \E pc \in {"select", "loop"} : FeederDrops(pc)
  BY <1>1, <1>3 DEF FeederDrops, SeenByFeeder
<1> QED
  BY <1>2, <1>3 DEF FeederPreflight

\* A track that was seen stays seen while its row is half.
LEMMA SeenStays ==
  ASSUME IInv, [Next]_vars, NEW t \in Tracks, HalfRow(t), Seen(t)
  PROVE  Seen(t)'
<1>0. /\ feeder \in [pc : FeederPC, task : Task \cup {None}, ready : Nat]
      /\ worker = [w \in Workers |-> worker[w]]
  BY DEF IInv, Types, FeederOK, WorkersOK
<1>1. ASSUME UNCHANGED worker, SeenByFeeder(t)' PROVE Seen(t)'
  BY <1>1 DEF Seen, SeenByWorker
<1>2. ASSUME NEW w \in Workers, UNCHANGED feeder, SeenByWorker(w, t)',
             \A v \in Workers \ {w} : worker'[v] = worker[v]
      PROVE  Seen(t)'
  BY <1>2 DEF Seen, SeenByFeeder, SeenByWorker
<1>3. CASE UNCHANGED <<feeder, worker>>
  BY <1>3 DEF Seen, SeenByFeeder, SeenByWorker
<1>4. CASE Feeder
  <2>2. ASSUME NEW pc, FeederAt(pc) PROVE feeder'.pc = pc /\ feeder'.task = feeder.task
    BY <1>0, <2>2 DEF FeederAt
  <2>3. ASSUME NEW pc, FeederDrops(pc) PROVE feeder'.pc = pc
    BY <1>0, <2>3 DEF FeederDrops
  <2>4. CASE FeederWake \/ FeederReady \/ FeederTick \/ FeederLoop \/ FeederClaim \/ FeederExit
    <3>1. feeder'.pc \in {"loop", "retrying", "select", "claiming", "gone"} /\ UNCHANGED worker
      BY <1>0, <2>2, <2>4 DEF FeederWake, FeederReady, FeederTick, FeederLoop, FeederClaim,
         FeederExit
    <3> QED
      BY <1>1, <3>1 DEF SeenByFeeder
  <2>5. CASE FeederPreflight
    BY <1>1, <2>5, PreflightSees DEF FeederPreflight
  <2>6. CASE FeederReserve \/ FeederRecheck \/ FeederAbandon
    <3>1. /\ feeder.pc \in {"reserve", "recheck", "handoff"} /\ UNCHANGED worker
          /\ \/ feeder'.pc \in {"select", "loop", "parking"}
             \/ feeder'.pc \in {"recheck", "handoff"} /\ feeder'.task = feeder.task
      BY <2>2, <2>3, <2>6 DEF FeederReserve, FeederRecheck, FeederAbandon, FeederStep
    <3> QED
      BY <1>1, <3>1 DEF Seen, SeenByFeeder
  <2>7. ASSUME NEW w \in Workers, Handoff(w) PROVE Seen(t)'
    <3>1. /\ feeder.pc = "handoff" /\ feeder'.pc = "loop"
          /\ worker' = [worker EXCEPT ![w].pc = "begin", ![w].task = feeder.task]
      BY <1>0, <2>7 DEF Handoff, FeederStep
    <3>2. /\ worker'[w].task = feeder.task /\ \A v \in Workers \ {w} : worker'[v] = worker[v]
      BY <3>1 DEF IInv, Types, WorkersOK
    <3> QED
      BY <3>1, <3>2 DEF Seen, SeenByFeeder, SeenByWorker
  <2> QED
    BY <1>4, <2>4, <2>5, <2>6, <2>7 DEF Feeder
<1>5. CASE Writer
  <2>1. UNCHANGED worker
    BY <1>5 DEF Writer, WriteCheck, WriteStatus, WriteRequeue, WriteClaim, WritePark, Write
  <2>2. UNCHANGED feeder \/ feeder'.pc \in {"retried", "loop", "select", "preflight"}
    BY <1>0, <1>5 DEF Writer, WriteCheck, WriteStatus, WriteRequeue, WriteClaim, WritePark,
                      FeederAt, FeederDrops
  <2> QED
    BY <1>1, <2>1, <2>2 DEF Seen, SeenByFeeder
<1>6. ASSUME NEW w \in Workers, Announce(w) \/ Leave(w) \/ Pipeline(w) PROVE Seen(t)'
  <2>1. UNCHANGED feeder
    BY <1>6 DEF Announce, Leave, Pipeline, Begin, HashCheck, Analyse, SendIngest,
                Cleanup, ReportCleanupFailure, WorkerStep
  <2>2. worker[w] \in [pc : WorkerPC, task : Task \cup {None}, ticket : BOOLEAN,
                       admitted : BOOLEAN]
    BY DEF IInv, Types, WorkersOK
  <2>3. ASSUME NEW pc, WorkerAt(w, pc)
        PROVE  /\ worker'[w].pc = pc /\ worker'[w].task = worker[w].task
               /\ \A v \in Workers \ {w} : worker'[v] = worker[v]
    BY <1>0, <2>2, <2>3 DEF WorkerAt
  <2>4. ASSUME NEW new, worker' = [worker EXCEPT ![w] = new]
        PROVE  worker'[w] = new /\ \A v \in Workers \ {w} : worker'[v] = worker[v]
    BY <1>0, <2>4
  <2>5. CASE Announce(w) \/ Leave(w) \/ HashCheck(w) \/ Analyse(w) \/ SendIngest(w)
    <3>1. \E pc \in {"waiting", "gone", "analyse", "cleanup", "send"} : WorkerAt(w, pc)
      BY <2>5 DEF Announce, Leave, HashCheck, Analyse, SendIngest
    <3> QED
      BY <1>2, <2>1, <2>3, <3>1 DEF SeenByWorker
  <2>6. CASE Begin(w)
    <3> DEFINE u == worker[w].task.track
               new == [worker[w] EXCEPT !.pc = IF u \in ramAdmissions THEN "hash" ELSE "cleanup",
                                        !.ticket = u \in taskLeases,
                                        !.admitted = u \in ramAdmissions]
    <3>1. worker' = [worker EXCEPT ![w] = new] /\ worker[w].pc = "begin"
      BY <2>6 DEF Begin, WorkerStep
    <3>2. new.task = worker[w].task
      BY <2>2
    <3> HIDE DEF new
    <3>3. SeenByWorker(w, t)'
      BY <2>4, <3>1, <3>2 DEF Seen, SeenByWorker
    <3> QED
      BY <1>2, <2>1, <2>4, <3>1, <3>3
  <2>7. CASE Cleanup(w) \/ ReportCleanupFailure(w)
    <3> DEFINE failed == [IdleWorker EXCEPT !.pc = "report", !.task = worker[w].task]
    <3>1. worker' = [worker EXCEPT ![w] = IdleWorker] \/ worker' = [worker EXCEPT ![w] = failed]
      BY <2>7 DEF Cleanup, ReportCleanupFailure, WorkerStep
    <3>2. IdleWorker.pc = "idle" /\ failed.pc = "report"
      BY DEF IdleWorker
    <3> HIDE DEF failed
    <3>3. SeenByWorker(w, t)'
      BY <2>4, <3>1, <3>2 DEF SeenByWorker
    <3> QED
      BY <1>2, <2>1, <2>4, <3>1, <3>3
  <2> QED
    BY <1>6, <2>5, <2>6, <2>7 DEF Pipeline
<1>7. CASE Exit \/ Crash
  <2>1. feeder' = IdleFeeder /\ worker' = [w \in Workers |-> IdleWorker]
    BY <1>7 DEF Exit, Crash, Die
  <2>2. feeder'.pc = "select" /\ \A w \in Workers : worker'[w].pc = "idle"
    BY <2>1 DEF IdleFeeder, IdleWorker
  <2> QED
    BY <2>2 DEF Seen, SeenByFeeder, SeenByWorker
<1>8. CASE \/ Stop \/ Restart \/ UNCHANGED vars \/ Ingest
           \/ \E h \in Hashes : ReplayDLQ(h)
           \/ \E u \in Tracks : Cool(u)
           \/ \E r \in Requests :
                 \/ \E batch \in SUBSET Tracks \ {{}}, forced \in BOOLEAN : Plan(r, batch, forced)
                 \/ SendCheck(r) \/ Notify(r)
  BY <1>3, <1>8 DEF Stop, Restart, vars, ReplayDLQ, Cool, Plan, SendCheck, Notify, Ingest,
       IngestCommit, IngestConflict, IngestToDLQ, IngestFailed, IngestStep
<1> QED
  BY <1>4, <1>5, <1>6, <1>7, <1>8 DEF Next

\* A message about another track or of another kind reports nothing.
LEMMA SilentSend ==
  ASSUME IInv, NEW t \in Tracks, ~ReportedCompleted(t), UNCHANGED status,
         NEW op \in Op, Send(op), op # StatusOp(t, "COMPLETED")
  PROVE  ~ReportedCompleted(t)'
BY ReportsSent DEF IInv, Types

LEMMA SilentStatus ==
  ASSUME IInv, NEW t \in Tracks, ~ReportedCompleted(t), UNCHANGED status,
         NEW u \in Tracks, NEW s \in RowStatus, Send(StatusOp(u, s)),
         s # "COMPLETED" \/ u # t
  PROVE  ~ReportedCompleted(t)'
<1>1. StatusOp(u, s) \in Op
  BY Messages
<1>2. StatusOp(u, s) # StatusOp(t, "COMPLETED")
  BY DEF StatusOp
<1> QED
  BY <1>1, <1>2, SilentSend

LEMMA SilentQuiet ==
  ASSUME NEW t \in Tracks, ~ReportedCompleted(t), UNCHANGED <<status, opQueue>>
  PROVE  ~ReportedCompleted(t)'
BY DEF ReportedCompleted

LEMMA SilentWriter ==
  ASSUME IInv, Writer, NEW t \in Tracks, ~ReportedCompleted(t)
  PROVE  ~ReportedCompleted(t)'
<1>0. opQueue # <<>> /\ opQueue' = Tail(opQueue)
  BY DEF Writer, WriteCheck, WriteStatus, WriteRequeue, WriteClaim, WritePark, Write
<1>1. 1 \in 1..Len(opQueue) /\ Head(opQueue) = opQueue[1] /\ Head(opQueue) \in Op
  BY <1>0, WrittenQueue DEF IInv, Types
<1>2. status[t] # "COMPLETED" /\ Head(opQueue) # StatusOp(t, "COMPLETED")
  BY <1>1 DEF ReportedCompleted
<1>3. ASSUME status'[t] # "COMPLETED" PROVE ~ReportedCompleted(t)'
  BY <1>0, <1>3, ReportsWritten DEF IInv, Types
<1>4. CASE WriteStatus
  <2>1. Head(opQueue) = StatusOp(Head(opQueue).track, Head(opQueue).status)
    BY <1>1, <1>4, MessageShapes DEF WriteStatus, Write
  <2>2. Head(opQueue).track # t \/ Head(opQueue).status # "COMPLETED"
    BY <1>2, <2>1
  <2>3. status'[t] # "COMPLETED"
    BY <1>2, <1>4, <2>2 DEF WriteStatus, SetStatus
  <2> QED
    BY <1>3, <2>3
<1>5. CASE WriteCheck \/ WriteRequeue \/ WriteClaim \/ WritePark
  <2>1. ASSUME NEW ts, NEW s \in {"PENDING", "QUEUED", "FAILED_MAYBE_RETRY"}, SetStatus(ts, s)
        PROVE  status'[t] # "COMPLETED"
    BY <1>2, <2>1 DEF SetStatus
  <2>2. ASSUME UNCHANGED status PROVE status'[t] # "COMPLETED"
    BY <1>2, <2>2
  <2>3. CASE WriteCheck
    BY <1>3, <2>1, <2>3 DEF WriteCheck
  <2>4. CASE WriteRequeue
    BY <1>3, <2>1, <2>2, <2>4 DEF WriteRequeue
  <2>5. CASE WriteClaim
    BY <1>3, <2>1, <2>2, <2>5 DEF WriteClaim
  <2>6. CASE WritePark
    BY <1>3, <2>1, <2>6 DEF WritePark
  <2> QED
    BY <1>5, <2>3, <2>4, <2>5, <2>6
<1> QED
  BY <1>4, <1>5 DEF Writer

LEMMA SilentFeeder ==
  ASSUME IInv, Feeder, NEW t \in Tracks, ~ReportedCompleted(t), HalfRow(t)
  PROVE  ~ReportedCompleted(t)'
<1>0. UNCHANGED status
  BY DEF Feeder, FeederWake, FeederReady, FeederTick, FeederLoop, FeederClaim, FeederPreflight,
         FeederReserve, FeederRecheck, FeederAbandon, FeederExit, Handoff, FeederStep, rows
<1>1. feeder.pc \in {"preflight", "reserve", "recheck", "parking", "handoff"} =>
         feeder.task.track \in Tracks
  BY DEF IInv, Types, FeederOK, Task
<1>2. \A op \in {RequeueOp, ClaimOp} \cup {ParkOp(u) : u \in Tracks} :
         op \in Op /\ op # StatusOp(t, "COMPLETED")
  BY DEF Op, RequeueOp, ClaimOp, ParkOp, StatusOp
<1>3. CASE UNCHANGED opQueue
  BY <1>0, <1>3, SilentQuiet
<1>4. ASSUME NEW op \in {RequeueOp, ClaimOp} \cup {ParkOp(u) : u \in Tracks}, Send(op)
      PROVE  ~ReportedCompleted(t)'
  BY <1>0, <1>2, <1>4, SilentSend
<1>5. CASE FeederPreflight
  <2> DEFINE u == feeder.task.track
  <2>1. u \in Tracks
    BY <1>1, <1>5 DEF FeederPreflight, FeederStep
  <2>2. CASE Send(StatusOp(u, "FAILED_MAYBE_RETRY"))
    BY <1>0, <2>1, <2>2, SilentStatus DEF RowStatus
  <2>3. CASE Complete(u) /\ Send(StatusOp(u, "COMPLETED"))
    <3>1. u # t
      BY <2>3 DEF Complete, HalfRow
    <3> QED
      BY <1>0, <2>1, <2>3, <3>1, SilentStatus DEF RowStatus
  <2> QED
    BY <1>3, <1>5, <2>2, <2>3 DEF FeederPreflight
<1>6. CASE FeederReserve \/ FeederAbandon
  <2> DEFINE u == feeder.task.track
  <2>1. u \in Tracks
    BY <1>1, <1>6 DEF FeederReserve, FeederAbandon, FeederStep
  <2>2. CASE \E s \in {"FAILED", "PENDING"} : Send(StatusOp(u, s))
    BY <1>0, <2>1, <2>2, SilentStatus DEF RowStatus
  <2>3. CASE Send(ParkOp(u))
    BY <1>4, <2>1, <2>3
  <2> QED
    BY <1>3, <1>6, <2>2, <2>3 DEF FeederReserve, FeederAbandon
<1>7. CASE FeederRecheck
  <2>1. feeder.task.track \in Tracks
    BY <1>1, <1>7 DEF FeederRecheck, FeederStep
  <2> QED
    BY <1>3, <1>4, <1>7, <2>1 DEF FeederRecheck
<1>8. CASE \/ FeederWake \/ FeederReady \/ FeederTick \/ FeederLoop \/ FeederClaim \/ FeederExit
           \/ \E w \in Workers : Handoff(w)
  BY <1>3, <1>4, <1>8 DEF FeederWake, FeederReady, FeederTick, FeederLoop, FeederClaim, FeederExit,
                          Handoff
<1> QED
  BY <1>5, <1>6, <1>7, <1>8 DEF Feeder

LEMMA SilentWorker ==
  ASSUME IInv, NEW w \in Workers, Announce(w) \/ Leave(w) \/ Pipeline(w),
         NEW t \in Tracks, ~ReportedCompleted(t), Seen(t)
  PROVE  ~ReportedCompleted(t)'
<1> DEFINE u == worker[w].task.track
<1>0. UNCHANGED status
  BY DEF Announce, Leave, Pipeline, Begin, HashCheck, Analyse, SendIngest, Cleanup,
         ReportCleanupFailure, WorkerStep, rows
<1>1. worker[w].pc \notin {"idle", "waiting", "gone"} => u \in Tracks
  BY DEF IInv, Types, WorkersOK, Task
<1>2. CASE UNCHANGED opQueue
  BY <1>0, <1>2, SilentQuiet
<1>3. ASSUME u \in Tracks, NEW s \in RowStatus \ {"COMPLETED"}, Send(StatusOp(u, s))
      PROVE  ~ReportedCompleted(t)'
  BY <1>0, <1>3, SilentStatus
<1>4. CASE HashCheck(w)
  <2>1. worker[w].pc = "hash" /\ u \in Tracks
    BY <1>1, <1>4 DEF HashCheck, WorkerStep
  <2>2. CASE worker[w].task.snap = 0 /\ Send(StatusOp(u, "COMPLETED"))
    <3>1. u # t
      BY <2>1, <2>2 DEF Seen, SeenByWorker
    <3> QED
      BY <1>0, <2>1, <2>2, <3>1, SilentStatus DEF RowStatus
  <2>3. CASE Send(StatusOp(u, "FAILED"))
    BY <1>3, <2>1, <2>3 DEF RowStatus
  <2> QED
    BY <1>2, <1>4, <2>2, <2>3 DEF HashCheck
<1>5. CASE Begin(w) \/ Analyse(w) \/ ReportCleanupFailure(w)
  <2>1. u \in Tracks
    BY <1>1, <1>5 DEF Begin, Analyse, ReportCleanupFailure, WorkerStep
  <2>2. UNCHANGED opQueue \/ \E s \in {"RUNNING", "FAILED", "FAILED_MAYBE_RETRY"} :
                                 Send(StatusOp(u, s))
    BY <1>5 DEF Begin, Analyse, ReportCleanupFailure
  <2> QED
    BY <1>2, <1>3, <2>1, <2>2 DEF RowStatus
<1>6. CASE Announce(w) \/ Leave(w) \/ SendIngest(w) \/ Cleanup(w)
  BY <1>2, <1>6 DEF Announce, Leave, SendIngest, Cleanup
<1> QED
  BY <1>4, <1>5, <1>6 DEF Pipeline

LEMMA NextSilent ==
  ASSUME IInv, [Next]_vars, NEW t \in Tracks, ~ReportedCompleted(t), HalfRow(t), Seen(t), HalfRow(t)'
  PROVE  ~ReportedCompleted(t)'
<1>1. CASE Ingest
  <2> DEFINE u == Head(ingestQueue).track
  <2>1. PICK s \in RowStatus : Send(StatusOp(u, s)) /\ (s = "COMPLETED" => pg' = Written(u, TRUE))
    BY <1>1, IngestWritesWhole
  <2>2. u \in Tracks /\ UNCHANGED status
    BY <1>1, IngestWritesWhole
  <2>3. s = "COMPLETED" => u # t
    BY <2>1, <2>2, WholeWrite DEF IInv, Types
  <2> QED
    BY <2>1, <2>2, <2>3, SilentStatus
<1>2. CASE \E r \in Requests : SendCheck(r)
  <2>1. PICK r \in Requests : Send(CheckOp(r)) /\ UNCHANGED status
    BY <1>2 DEF SendCheck, rows
  <2>2. CheckOp(r) \in Op /\ CheckOp(r) # StatusOp(t, "COMPLETED")
    BY Messages DEF CheckOp, StatusOp
  <2> QED
    BY <2>1, <2>2, SilentSend
<1>3. CASE \/ Stop \/ UNCHANGED vars
           \/ \E h \in Hashes : ReplayDLQ(h)
           \/ \E u \in Tracks : Cool(u)
           \/ \E r \in Requests :
                 \/ \E batch \in SUBSET Tracks \ {{}}, forced \in BOOLEAN : Plan(r, batch, forced)
                 \/ Notify(r)
  <2>1. UNCHANGED <<status, opQueue>>
    BY <1>3 DEF Stop, vars, ReplayDLQ, Cool, Plan, Notify, rows
  <2> QED
    BY <2>1, SilentQuiet
<1>4. CASE Exit \/ Crash
  <2>1. UNCHANGED status /\ Len(opQueue') = 0
    BY <1>4 DEF Exit, Crash, Die, rows
  <2> QED
    BY <2>1 DEF ReportedCompleted
<1>5. CASE Restart
  <2>1. UNCHANGED opQueue /\ (status'[t] = "COMPLETED" => status[t] = "COMPLETED")
    BY <1>5 DEF Restart, ResetStaleTasks
  <2> QED
    BY <2>1 DEF ReportedCompleted
<1>6. CASE Writer
  BY <1>6, SilentWriter
<1>7. CASE Feeder
  BY <1>7, SilentFeeder
<1>8. CASE \E w \in Workers : Announce(w) \/ Leave(w) \/ Pipeline(w)
  BY <1>8, SilentWorker
<1> QED
  BY <1>1, <1>2, <1>3, <1>4, <1>5, <1>6, <1>7, <1>8 DEF Next

\* While no half payload is replayed, a track reported COMPLETED whose row is its own has
\* its whole analysis: whatever half rows were there from the start, and whatever is
\* forced, retried, saved to send_failed.db, lost or restarted.
THEOREM CompletionIsWhole ==
  Spec /\ [][~HalfReplay]_vars => []CompletedIsComplete
<1>1. Init => HalfInv
  <2> SUFFICES ASSUME Init, NEW t \in Tracks PROVE ~ReportedCompleted(t) /\ Seen(t)
    BY DEF HalfInv
  <2>1. /\ status[t] = "ABSENT" /\ Len(opQueue) = 0
        /\ feeder.pc = "select" /\ \A w \in Workers : worker[w].pc = "idle"
    BY DEF Init, IdleFeeder, IdleWorker
  <2> QED
    BY <2>1 DEF ReportedCompleted, Seen, SeenByFeeder, SeenByWorker
<1>2. IInv /\ HalfInv /\ [Next]_vars /\ [~HalfReplay]_vars => HalfInv'
  <2> SUFFICES ASSUME IInv, HalfInv, [Next]_vars, [~HalfReplay]_vars,
                      NEW t \in Tracks, HalfRow(t)'
               PROVE  ~ReportedCompleted(t)' /\ Seen(t)'
    BY DEF HalfInv
  <2>1. HalfRow(t) /\ ~ReportedCompleted(t) /\ Seen(t)
    BY NoNewHalf DEF HalfInv
  <2> QED
    BY <2>1, SeenStays, NextSilent
<1>3. HalfInv => CompletedIsComplete
  BY DEF HalfInv, HalfRow, CompletedIsComplete
<1> QED
  BY <1>1, <1>2, <1>3, SpecIInv, PTL DEF Spec

-----------------------------------------------------------------------------
(***************************************************************************)
(* The books: the RAM admissions, the handed-over tickets and the count    *)
(* DownstreamTracks belong to their owners, the feeder counts every        *)
(* waiting worker, and every claimed row is somebody's to settle.          *)
(***************************************************************************)
\* The writer answers the question the feeder waits for.
AskingPC(kind) ==
    CASE kind = "requeue" -> "retrying" [] kind = "claim" -> "claiming" [] OTHER -> "parking"
Matched ==
    \A i \in 1..Len(opQueue) : Asked(i) => feeder.pc = AskingPC(opQueue[i].kind)

\* Between two tasks the feeder holds none.
EmptyHanded ==
    feeder.pc \in {"select", "loop", "retrying", "retried", "claiming", "gone"} =>
        feeder.task = None

\* No two tasks past the reservation are of one track, and a running task still has the
\* ticket and the admission it began with.
Owners ==
    /\ IsFiniteSet(Running)
    /\ \A v, w \in Running : worker[v].task.track = worker[w].task.track => v = w
    /\ \A w \in Running : worker[w].task.track \notin Booked
    /\ \A w \in Running \ Starting : worker[w].ticket /\ worker[w].admitted

Fitting == Cardinality(Booked) + Cardinality(Running) <= DownstreamTracks

Waiting == {w \in Workers : worker[w].pc = "waiting"}
Counted ==
    /\ IsFiniteSet(Waiting)
    /\ feeder.pc # "gone" => feeder.ready + readyCh = Cardinality(Waiting)

Hands == AdmissionsAreOwned /\ Owners /\ Fitting
BooksInv == Matched /\ EmptyHanded /\ Hands /\ Counted

(***************************************************************************)
(* What the feeder has booked.                                             *)
(***************************************************************************)
LEMMA BookedCount ==
  /\ feeder.pc \in {"recheck", "handoff"} =>
        Booked = {feeder.task.track} /\ Cardinality(Booked) = 1
  /\ feeder.pc \notin {"recheck", "handoff"} => Booked = {} /\ Cardinality(Booked) = 0
BY FS_EmptySet, FS_Singleton DEF Booked

LEMMA BookedCountNext ==
  /\ feeder'.pc \in {"recheck", "handoff"} =>
        Booked' = {feeder'.task.track} /\ Cardinality(Booked)' = 1
  /\ feeder'.pc \notin {"recheck", "handoff"} => Booked' = {} /\ Cardinality(Booked)' = 0
BY FS_EmptySet, FS_Singleton DEF Booked

LEMMA RunningCount ==
  ASSUME Owners PROVE Cardinality(Running) \in Nat
BY FS_CardinalityType DEF Owners

\* A running worker has a task.
LEMMA RunningHasTask ==
  ASSUME IInv
  PROVE  \A w \in Running : worker[w].task \in Task /\ worker[w].task.track \in Tracks
<1>1. \A w \in Running : worker[w].task \in Task
  BY DEF IInv, Types, WorkersOK, Running
<1> QED
  BY <1>1 DEF Task

\* Nothing booked, nothing changed.
LEMMA HandsKept ==
  ASSUME Hands, UNCHANGED <<worker, admission>>, Booked' = Booked
  PROVE  Hands'
<1>1. /\ Running' = Running /\ Starting' = Starting
      /\ TracksOf(Running)' = TracksOf(Running) /\ TracksOf(Starting)' = TracksOf(Starting)
      /\ ramAdmissions' = ramAdmissions /\ taskLeases' = taskLeases /\ used' = used
      /\ worker' = worker
  BY DEF Running, Starting, TracksOf, admission
<1>2. AdmissionsAreOwned'
  BY <1>1 DEF Hands, AdmissionsAreOwned
<1>3. Owners' /\ Fitting'
  BY <1>1 DEF Hands, Owners, Fitting
<1> QED
  BY <1>2, <1>3 DEF Hands

LEMMA CountedKept ==
  ASSUME Counted, UNCHANGED <<worker, readyCh>>, feeder'.ready = feeder.ready,
         feeder.pc = "gone" => feeder'.pc = "gone"
  PROVE  Counted'
BY DEF Counted, Waiting

(***************************************************************************)
(* The questions of the feeder in the queue of the writer.                 *)
(***************************************************************************)
LEMMA MatchedKept ==
  ASSUME Matched, UNCHANGED opQueue, feeder.pc \in Asking => feeder'.pc = feeder.pc, AnswersOK
  PROVE  Matched'
BY DEF Matched, Asked, AnswersOK

LEMMA MatchedSent ==
  ASSUME QueuesOK, AnswersOK, Matched, NEW op \in Op, Send(op),
         op.kind \notin {"requeue", "claim", "park"},
         feeder.pc \in Asking => feeder'.pc = feeder.pc
  PROVE  Matched'
<1>1. \A i \in 1..Len(opQueue') : Asked(i)' =>
          /\ i \in 1..Len(opQueue) /\ Asked(i) /\ opQueue'[i] = opQueue[i]
  BY SentQueue DEF Asked
<1> QED
  BY <1>1 DEF Matched, AnswersOK

LEMMA MatchedAsked ==
  ASSUME QueuesOK, AnswersOK, NEW op \in Op, Send(op),
         feeder.pc \notin Asking, feeder'.pc = AskingPC(op.kind)
  PROVE  Matched'
<1>1. \A i \in 1..Len(opQueue) : ~Asked(i)
  BY DEF AnswersOK
<1>2. \A i \in 1..Len(opQueue') : Asked(i)' => opQueue'[i] = op
  BY <1>1, SentQueue DEF Asked
<1> QED
  BY <1>2 DEF Matched

LEMMA MatchedWritten ==
  ASSUME QueuesOK, AnswersOK, Matched, opQueue # <<>>, opQueue' = Tail(opQueue),
         feeder'.pc = feeder.pc \/ Asked(1)
  PROVE  Matched'
<1>1. \A i \in 1..Len(opQueue') : Asked(i)' =>
          i + 1 \in 1..Len(opQueue) /\ Asked(i + 1) /\ opQueue'[i] = opQueue[i + 1]
  BY WrittenQueue DEF Asked
<1>2. \A i \in 1..Len(opQueue') : i \in Nat \ {0}
  BY WrittenQueue
<1>3. 1 \in 1..Len(opQueue)
  BY WrittenQueue
<1>4. CASE Asked(1)
  <2>1. \A i \in 1..Len(opQueue') : ~Asked(i)'
    BY <1>1, <1>2, <1>3, <1>4 DEF AnswersOK
  <2> QED
    BY <2>1 DEF Matched
<1>5. CASE feeder'.pc = feeder.pc
  BY <1>1, <1>5 DEF Matched
<1> QED
  BY <1>4, <1>5

\* The answer the writer gives is the one the feeder waits for.
LEMMA AnswerAwaited ==
  ASSUME IInv, Matched, NEW kind \in {"requeue", "claim", "park"}, Write(kind)
  PROVE  feeder.pc = AskingPC(kind)
<1>1. 1 \in 1..Len(opQueue) /\ opQueue[1].kind = kind
  BY WrittenQueue DEF Write, IInv, Types
<1> QED
  BY <1>1 DEF Matched, Asked

(***************************************************************************)
(* Every action keeps the books.                                           *)
(***************************************************************************)
\* Nobody runs, waits or asks when the process starts, nor after it has died.
LEMMA FreshBooks ==
  ASSUME opQueue = <<>>, feeder = IdleFeeder, readyCh = 0,
         worker = [w \in Workers |-> IdleWorker],
         taskLeases = {}, ramAdmissions = {}, used = 0
  PROVE  BooksInv
<1>1. feeder.pc = "select" /\ feeder.task = None /\ feeder.ready = 0
  BY DEF IdleFeeder
<1>2. \A w \in Workers : worker[w].pc = "idle"
  BY DEF IdleWorker
<1>3. Running = {} /\ Starting = {} /\ Waiting = {} /\ Booked = {}
  BY <1>1, <1>2 DEF Running, Starting, Waiting, Booked
<1>4. IsFiniteSet({}) /\ Cardinality({}) = 0
  BY FS_EmptySet
<1>5. Matched /\ EmptyHanded
  BY <1>1 DEF Matched, EmptyHanded
<1>6. AdmissionsAreOwned
  BY <1>3, <1>4 DEF AdmissionsAreOwned, TracksOf
<1>7. Owners
  BY <1>3, <1>4 DEF Owners
<1>8. Fitting
  BY <1>3, <1>4, TaskQueueAssumption DEF Fitting
<1>9. Counted
  BY <1>1, <1>3, <1>4 DEF Counted
<1> QED
  BY <1>5, <1>6, <1>7, <1>8, <1>9 DEF BooksInv, Hands

LEMMA FreshBooksNext ==
  ASSUME opQueue' = <<>>, feeder' = IdleFeeder, readyCh' = 0,
         worker' = [w \in Workers |-> IdleWorker],
         taskLeases' = {}, ramAdmissions' = {}, used' = 0
  PROVE  BooksInv'
<1>1. feeder'.pc = "select" /\ feeder'.task = None /\ feeder'.ready = 0
  BY DEF IdleFeeder
<1>2. \A w \in Workers : worker'[w].pc = "idle"
  BY DEF IdleWorker
<1>3. Running' = {} /\ Starting' = {} /\ Waiting' = {} /\ Booked' = {}
  BY <1>1, <1>2 DEF Running, Starting, Waiting, Booked
<1>4. IsFiniteSet({}) /\ Cardinality({}) = 0
  BY FS_EmptySet
<1>5. Matched' /\ EmptyHanded'
  BY <1>1 DEF Matched, EmptyHanded
<1>6. AdmissionsAreOwned'
  BY <1>3, <1>4 DEF AdmissionsAreOwned, TracksOf
<1>7. Owners'
  BY <1>3, <1>4 DEF Owners
<1>8. Fitting'
  BY <1>3, <1>4, TaskQueueAssumption DEF Fitting
<1>9. Counted'
  BY <1>1, <1>3, <1>4 DEF Counted
<1> QED
  BY <1>5, <1>6, <1>7, <1>8, <1>9 DEF BooksInv, Hands

\* A step that neither moves the feeder or a worker nor touches a lease or a token.
LEMMA BooksAside ==
  ASSUME IInv, BooksInv, UNCHANGED <<feeder, worker, readyCh, admission>>, Matched'
  PROVE  BooksInv'
<1>1. Booked' = Booked
  BY DEF Booked
<1>2. Hands' /\ Counted'
  BY <1>1, HandsKept, CountedKept DEF BooksInv
<1>3. EmptyHanded'
  BY DEF BooksInv, EmptyHanded
<1> QED
  BY <1>2, <1>3 DEF BooksInv

\* A step of the feeder that books nothing, or keeps what it has booked.
LEMMA BooksFeederMoves ==
  ASSUME IInv, BooksInv, UNCHANGED <<worker, readyCh, admission>>,
         Booked' = Booked, feeder'.ready = feeder.ready,
         feeder.pc = "gone" => feeder'.pc = "gone", EmptyHanded', Matched'
  PROVE  BooksInv'
BY HandsKept, CountedKept DEF BooksInv

LEMMA RequestBooks ==
  ASSUME IInv, BooksInv, NEW r \in Requests,
         \/ \E batch \in SUBSET Tracks \ {{}}, forced \in BOOLEAN : Plan(r, batch, forced)
         \/ SendCheck(r) \/ Notify(r)
  PROVE  BooksInv'
<1>1. UNCHANGED <<feeder, worker, readyCh, admission>>
  BY DEF Plan, SendCheck, Notify, channels
<1>2. Matched'
  <2>1. CASE UNCHANGED opQueue
    BY <2>1, <1>1, MatchedKept DEF BooksInv, IInv
  <2>2. CASE Send(CheckOp(r))
    BY <2>2, <1>1, MatchedSent, Messages DEF BooksInv, IInv, Types
  <2> QED
    BY <2>1, <2>2 DEF Plan, SendCheck, Notify
<1> QED
  BY <1>1, <1>2, BooksAside

LEMMA WriterBooks ==
  ASSUME IInv, BooksInv, Writer
  PROVE  BooksInv'
<1>0. /\ opQueue # <<>> /\ opQueue' = Tail(opQueue)
      /\ UNCHANGED <<worker, readyCh, admission>>
  BY DEF Writer, WriteCheck, WriteStatus, WriteRequeue, WriteClaim, WritePark, Write, channels
<1>1. Head(opQueue) = opQueue[1]
  BY <1>0, WrittenQueue DEF IInv, Types
<1>2. ASSUME feeder'.pc = feeder.pc \/ Head(opQueue).kind \in {"requeue", "claim", "park"}
      PROVE  Matched'
  BY <1>0, <1>1, <1>2, MatchedWritten DEF BooksInv, IInv, Types, Asked
<1>3. feeder \in [pc : FeederPC, task : Task \cup {None}, ready : Nat]
  BY DEF IInv, Types, FeederOK
<1>4. CASE WriteCheck \/ WriteStatus
  <2>1. UNCHANGED feeder
    BY <1>4 DEF WriteCheck, WriteStatus
  <2> QED
    BY <1>0, <1>2, <2>1, BooksAside
<1>5. CASE WriteRequeue
  <2>1. FeederAt("retried") /\ Write("requeue")
    BY <1>5 DEF WriteRequeue
  <2>2. feeder.pc = "retrying" /\ feeder.task = None
    BY <2>1, AnswerAwaited DEF BooksInv, EmptyHanded, AskingPC
  <2>3. feeder'.pc = "retried" /\ feeder'.task = None /\ feeder'.ready = feeder.ready
    BY <1>3, <2>1, <2>2 DEF FeederAt
  <2>4. Booked' = Booked
    BY <2>2, <2>3 DEF Booked
  <2>5. Head(opQueue).kind = "requeue"
    BY <2>1 DEF Write
  <2> QED
    BY <1>0, <1>2, <2>2, <2>3, <2>4, <2>5, BooksFeederMoves DEF EmptyHanded
<1>6. CASE WriteClaim
  <2>1. Write("claim") /\ Head(opQueue).kind = "claim"
    BY <1>6 DEF WriteClaim, Write
  <2>2. feeder.pc = "claiming" /\ feeder.task = None
    BY <2>1, AnswerAwaited DEF BooksInv, EmptyHanded, AskingPC
  <2>3. /\ feeder'.ready = feeder.ready
        /\ feeder'.pc = "preflight" \/ (feeder'.pc = "select" /\ feeder'.task = None)
    BY <1>3, <1>6, <2>2 DEF WriteClaim, FeederAt
  <2>4. Booked' = Booked
    BY <2>2, <2>3 DEF Booked
  <2> QED
    BY <1>0, <1>2, <2>1, <2>2, <2>3, <2>4, BooksFeederMoves DEF EmptyHanded
<1>7. CASE WritePark
  <2>1. FeederDrops("loop") /\ Write("park") /\ Head(opQueue).kind = "park"
    BY <1>7 DEF WritePark, Write
  <2>2. feeder.pc = "parking"
    BY <2>1, AnswerAwaited DEF BooksInv, AskingPC
  <2>3. feeder'.pc = "loop" /\ feeder'.task = None /\ feeder'.ready = feeder.ready
    BY <1>3, <2>1, <2>2 DEF FeederDrops
  <2>4. Booked' = Booked
    BY <2>2, <2>3 DEF Booked
  <2> QED
    BY <1>0, <1>2, <2>1, <2>2, <2>3, <2>4, BooksFeederMoves DEF EmptyHanded
<1> QED
  BY <1>4, <1>5, <1>6, <1>7 DEF Writer

\* The feeder books the track of its task.
LEMMA ReserveHands ==
  ASSUME IInv, Hands, UNCHANGED worker, feeder.pc = "reserve", Fits(feeder.task.track),
         used' = used + 1, feeder'.pc = "recheck", feeder'.task = feeder.task,
         ramAdmissions' = ramAdmissions \cup {feeder.task.track},
         taskLeases' = taskLeases \cup {feeder.task.track}
  PROVE  Hands'
<1> DEFINE t == feeder.task.track
<1>1. /\ Running' = Running /\ Starting' = Starting
      /\ TracksOf(Running)' = TracksOf(Running) /\ TracksOf(Starting)' = TracksOf(Starting)
      /\ worker' = worker
  BY DEF Running, Starting, TracksOf
<1>2. Booked = {} /\ Cardinality(Booked) = 0 /\ Booked' = {t} /\ Cardinality(Booked)' = 1
  BY BookedCount, BookedCountNext
<1>3. Cardinality(Running)' = Cardinality(Running) /\ Cardinality(Running) \in Nat
  BY <1>1, RunningCount DEF Hands
<1>4. AdmissionsAreOwned'
  BY <1>1, <1>2, <1>3 DEF Hands, AdmissionsAreOwned
<1>5. \A w \in Running : worker[w].task.track # t
  BY DEF Hands, AdmissionsAreOwned, TracksOf, Fits
<1>6. Owners'
  BY <1>1, <1>2, <1>5 DEF Hands, Owners
<1>7. Cardinality(Booked)' + Cardinality(Running)' <= DownstreamTracks
  <2>1. used = Cardinality(Running) /\ used < DownstreamTracks
    BY <1>2, <1>3 DEF Hands, AdmissionsAreOwned, Fits
  <2> QED
    BY <1>2, <1>3, <2>1, TaskQueueAssumption
<1> QED
  BY <1>4, <1>6, <1>7 DEF Hands, Fitting

\* The feeder gives back what it has booked and no worker has taken.
LEMMA ReleaseHands ==
  ASSUME IInv, Hands, UNCHANGED worker, feeder.pc \in {"recheck", "handoff"},
         feeder'.pc \notin {"recheck", "handoff"}, ReleaseUnstarted(feeder.task.track)
  PROVE  Hands'
<1> DEFINE t == feeder.task.track
<1>1. /\ Running' = Running /\ Starting' = Starting
      /\ TracksOf(Running)' = TracksOf(Running) /\ TracksOf(Starting)' = TracksOf(Starting)
      /\ worker' = worker
  BY DEF Running, Starting, TracksOf
<1>2. Booked' = {} /\ Cardinality(Booked)' = 0 /\ Booked = {t} /\ Cardinality(Booked) = 1
  BY BookedCount, BookedCountNext
<1>3. Cardinality(Running)' = Cardinality(Running) /\ Cardinality(Running) \in Nat
  BY <1>1, RunningCount DEF Hands
<1>4. t \notin TracksOf(Running) /\ t \notin TracksOf(Starting)
  <2>1. Starting \subseteq Running
    BY DEF Starting, Running
  <2> QED
    BY <1>2, <2>1 DEF Hands, Owners, TracksOf
<1>5. /\ ramAdmissions = {t} \cup TracksOf(Running)
      /\ taskLeases = {t} \cup TracksOf(Starting)
      /\ used = 1 + Cardinality(Running)
  BY <1>2 DEF Hands, AdmissionsAreOwned
<1>6. used' = Cardinality(Running)
  BY <1>3, <1>5 DEF ReleaseUnstarted, IntSafeSub
<1>7. ramAdmissions' = TracksOf(Running) /\ taskLeases' = TracksOf(Starting)
  BY <1>4, <1>5 DEF ReleaseUnstarted
<1>8. AdmissionsAreOwned'
  BY <1>1, <1>2, <1>3, <1>6, <1>7 DEF AdmissionsAreOwned
<1>9. Owners'
  BY <1>1, <1>2 DEF Hands, Owners
<1>10. Cardinality(Booked)' + Cardinality(Running)' <= DownstreamTracks
  BY <1>2, <1>3, TaskQueueAssumption DEF Hands, Fitting
<1> QED
  BY <1>8, <1>9, <1>10 DEF Hands, Fitting

\* The booking passes from the feeder to the worker with the task.
LEMMA HandoffBooks ==
  ASSUME IInv, BooksInv, NEW w \in Workers, Handoff(w)
  PROVE  BooksInv'
<1> DEFINE t == feeder.task.track
<1>0. /\ feeder.pc = "handoff" /\ worker[w].pc = "waiting"
      /\ worker' = [worker EXCEPT ![w].pc = "begin", ![w].task = feeder.task]
      /\ feeder' = [feeder EXCEPT !.pc = "loop", !.task = None, !.ready = @ - 1]
      /\ UNCHANGED <<opQueue, readyCh, taskLeases, ramAdmissions, used>>
  BY DEF Handoff, FeederStep, channels, admission
<1>1. /\ feeder \in [pc : FeederPC, task : Task \cup {None}, ready : Nat]
      /\ feeder.ready > 0 /\ readyCh \in Nat
      /\ worker \in [Workers -> [pc : WorkerPC, task : Task \cup {None}, ticket : BOOLEAN,
                                admitted : BOOLEAN]]
  BY <1>0 DEF IInv, Types, FeederOK, WorkersOK, ProcessOK
<1>2. feeder'.pc = "loop" /\ feeder'.task = None /\ feeder'.ready = feeder.ready - 1
  BY <1>0, <1>1
<1>3. /\ worker'[w].pc = "begin" /\ worker'[w].task = feeder.task
      /\ \A v \in Workers \ {w} : worker'[v] = worker[v]
  BY <1>0, <1>1
<1>4. /\ Running' = Running \cup {w} /\ w \notin Running
      /\ Starting' = Starting \cup {w} /\ w \notin Starting
      /\ Waiting' = Waiting \ {w} /\ w \in Waiting
      /\ w \notin (Running \ Starting)'
  BY <1>0, <1>3 DEF Running, Starting, Waiting
<1>5. /\ TracksOf(Running)' = TracksOf(Running) \cup {t}
      /\ TracksOf(Starting)' = TracksOf(Starting) \cup {t}
  <2>1. Running \subseteq Workers \ {w} /\ Starting \subseteq Workers \ {w}
    BY <1>4 DEF Running, Starting
  <2>2. \A v \in Running \cup Starting : worker'[v].task.track = worker[v].task.track
    BY <1>3, <2>1
  <2> QED
    BY <1>3, <1>4, <2>2 DEF TracksOf
<1>6. Booked = {t} /\ Cardinality(Booked) = 1 /\ Booked' = {} /\ Cardinality(Booked)' = 0
  BY <1>0, <1>2, BookedCount, BookedCountNext
<1>7. /\ IsFiniteSet(Running') /\ Cardinality(Running)' = Cardinality(Running) + 1
      /\ Cardinality(Running) \in Nat
  BY <1>4, FS_AddElement, RunningCount DEF BooksInv, Hands, Owners
<1>8. AdmissionsAreOwned'
  <2>1. /\ ramAdmissions = {t} \cup TracksOf(Running)
        /\ taskLeases = {t} \cup TracksOf(Starting)
        /\ used = 1 + Cardinality(Running)
    BY <1>6 DEF BooksInv, Hands, AdmissionsAreOwned
  <2> QED
    BY <1>0, <1>5, <1>6, <1>7, <2>1 DEF AdmissionsAreOwned
<1>9. Owners'
  <2>1. \A v \in Running : worker[v].task.track # t /\ v \in Workers \ {w}
    BY <1>4, <1>6 DEF BooksInv, Hands, Owners, Running
  <2>2. \A v \in Running' \ {w} : v \in Running /\ worker'[v] = worker[v]
    BY <1>3, <1>4, <2>1
  <2>3. \A u, v \in Running' : worker'[u].task.track = worker'[v].task.track => u = v
    BY <1>3, <2>1, <2>2 DEF BooksInv, Hands, Owners
  <2>4. \A v \in (Running \ Starting)' : v \in Running \ Starting /\ worker'[v] = worker[v]
    BY <1>4, <2>2
  <2>5. \A v \in (Running \ Starting)' : worker'[v].ticket /\ worker'[v].admitted
    BY <2>4 DEF BooksInv, Hands, Owners
  <2> QED
    BY <1>6, <1>7, <2>3, <2>5 DEF Owners
<1>10. Fitting'
  BY <1>6, <1>7, TaskQueueAssumption DEF BooksInv, Hands, Fitting
<1>11. Counted'
  <2>1. IsFiniteSet(Waiting') /\ Cardinality(Waiting)' = Cardinality(Waiting) - 1
    BY <1>4, FS_RemoveElement DEF BooksInv, Counted
  <2>2. feeder.ready + readyCh = Cardinality(Waiting)
    BY <1>0 DEF BooksInv, Counted
  <2>3. feeder'.ready + readyCh' = Cardinality(Waiting)'
    BY <1>0, <1>1, <1>2, <2>1, <2>2
  <2> QED
    BY <2>1, <2>3 DEF Counted
<1>12. Matched' /\ EmptyHanded'
  BY <1>0, <1>2, MatchedKept DEF BooksInv, IInv, EmptyHanded, Asking
<1> QED
  BY <1>8, <1>9, <1>10, <1>11, <1>12 DEF BooksInv, Hands

LEMMA FeederBooks ==
  ASSUME IInv, BooksInv, Feeder
  PROVE  BooksInv'
<1>0. /\ feeder \in [pc : FeederPC, task : Task \cup {None}, ready : Nat]
      /\ readyCh \in Nat
  BY DEF IInv, Types, FeederOK, ProcessOK
<1>1. Matched /\ EmptyHanded /\ Hands /\ Counted /\ AnswersOK /\ QueuesOK
  BY DEF BooksInv, IInv, Types
<1>2. ASSUME NEW pc, FeederAt(pc)
      PROVE  feeder'.pc = pc /\ feeder'.task = feeder.task /\ feeder'.ready = feeder.ready
  BY <1>0, <1>2 DEF FeederAt
<1>3. ASSUME NEW pc, FeederDrops(pc)
      PROVE  feeder'.pc = pc /\ feeder'.task = None /\ feeder'.ready = feeder.ready
  BY <1>0, <1>3 DEF FeederDrops
<1>4. ASSUME feeder.pc \notin {"recheck", "handoff"}, feeder'.pc \notin {"recheck", "handoff"}
      PROVE  Booked' = Booked
  BY <1>4 DEF Booked
\* A step that sends a status or nothing.
<1>5. ASSUME feeder.pc \notin Asking,
             UNCHANGED opQueue \/ \E t \in Tracks, s \in RowStatus : Send(StatusOp(t, s))
      PROVE  Matched'
  <2>1. CASE UNCHANGED opQueue
    BY <1>1, <1>5, <2>1, MatchedKept
  <2>2. ASSUME NEW t \in Tracks, NEW s \in RowStatus, Send(StatusOp(t, s)) PROVE Matched'
    <3>1. StatusOp(t, s) \in Op /\ StatusOp(t, s).kind = "status"
      BY Messages
    <3> QED
      BY <1>1, <1>5, <2>2, <3>1, MatchedSent
  <2> QED
    BY <1>5, <2>1, <2>2
\* A step that asks the writer.
<1>6. ASSUME NEW op \in Op, Send(op), feeder.pc \notin Asking, feeder'.pc = AskingPC(op.kind)
      PROVE  Matched'
  BY <1>1, <1>6, MatchedAsked
<1>7. feeder.pc \in {"preflight", "reserve", "recheck", "parking", "handoff"} =>
         feeder.task \in Task /\ feeder.task.track \in Tracks
  BY DEF IInv, Types, FeederOK, Task
<1>9. CASE FeederWake \/ FeederTick
  <2>1. FeederAt("loop") /\ feeder.pc = "select" /\ UNCHANGED <<opQueue, worker, readyCh, admission>>
    BY <1>9 DEF FeederWake, FeederTick, FeederStep, channels
  <2>2. EmptyHanded'
    BY <1>1, <1>2, <2>1 DEF EmptyHanded
  <2> QED
    BY <2>1, <2>2, <1>2, <1>4, <1>5, BooksFeederMoves DEF Asking
<1>10. CASE FeederReady
  <2>1. /\ readyCh > 0 /\ readyCh' = readyCh - 1 /\ feeder.pc = "select"
        /\ feeder' = [feeder EXCEPT !.pc = "loop", !.ready = @ + 1]
        /\ UNCHANGED <<opQueue, worker, admission>>
    BY <1>10 DEF FeederReady, FeederStep
  <2>2. feeder'.pc = "loop" /\ feeder'.task = feeder.task /\ feeder'.ready = feeder.ready + 1
    BY <1>0, <2>1
  <2>3. Hands'
    BY <1>1, <1>4, <2>1, <2>2, HandsKept
  <2>4. Matched' /\ EmptyHanded'
    BY <1>1, <1>5, <2>1, <2>2 DEF EmptyHanded, Asking
  <2>5. Counted'
    <3>1. feeder.ready \in Nat
      BY <1>0
    <3>2. Waiting' = Waiting
      BY <2>1 DEF Waiting
    <3>3. feeder'.ready + readyCh' = feeder.ready + readyCh
      BY <1>0, <2>1, <2>2, <3>1
    <3> QED
      BY <1>1, <2>1, <3>2, <3>3 DEF Counted
  <2> QED
    BY <2>3, <2>4, <2>5 DEF BooksInv
<1>12. CASE FeederLoop
  <2>1. feeder.pc = "loop" /\ UNCHANGED <<worker, readyCh, admission>> /\ feeder.task = None
    BY <1>1, <1>12 DEF FeederLoop, FeederStep, channels, EmptyHanded
  <2>2. CASE Send(RequeueOp) /\ FeederAt("retrying")
    <3>1. Matched'
      BY <1>2, <1>6, <2>1, <2>2, Messages DEF Asking, AskingPC
    <3> QED
      BY <3>1, <2>1, <2>2, <1>2, <1>4, BooksFeederMoves DEF EmptyHanded
  <2>3. CASE FeederAt("select") /\ UNCHANGED opQueue
    <3>1. Matched'
      BY <1>5, <2>1, <2>3 DEF Asking
    <3> QED
      BY <3>1, <2>1, <2>3, <1>2, <1>4, BooksFeederMoves DEF EmptyHanded
  <2> QED
    BY <1>12, <2>2, <2>3 DEF FeederLoop
<1>13. CASE FeederClaim
  <2>1. /\ feeder.pc = "retried" /\ Send(ClaimOp) /\ FeederAt("claiming")
        /\ UNCHANGED <<worker, readyCh, admission>> /\ feeder.task = None
    BY <1>1, <1>13 DEF FeederClaim, FeederStep, channels, EmptyHanded
  <2>2. Matched'
    BY <1>2, <1>6, <2>1, Messages DEF Asking, AskingPC
  <2> QED
    BY <2>1, <2>2, <1>2, <1>4, BooksFeederMoves DEF EmptyHanded
<1>14. CASE FeederPreflight
  <2> DEFINE t == feeder.task.track
  <2>1. feeder.pc = "preflight" /\ t \in Tracks /\ UNCHANGED <<worker, readyCh, admission>>
    BY <1>14, <1>7 DEF FeederPreflight, FeederStep, channels
  <2>2. CASE \/ Send(StatusOp(t, "FAILED_MAYBE_RETRY")) /\ FeederDrops("select")
             \/ Send(StatusOp(t, "COMPLETED")) /\ FeederDrops("loop")
    <3>1. Matched'
      BY <1>5, <2>1, <2>2 DEF Asking, RowStatus
    <3> QED
      BY <3>1, <2>1, <2>2, <1>3, <1>4, BooksFeederMoves DEF EmptyHanded
  <2>3. CASE /\ feeder' = [feeder EXCEPT !.pc = "reserve", !.task.snap = Snapshot(t)]
             /\ UNCHANGED opQueue
    <3>1. feeder'.pc = "reserve" /\ feeder'.ready = feeder.ready
      BY <1>0, <2>3
    <3>2. Matched'
      BY <1>5, <2>1, <2>3 DEF Asking
    <3> QED
      BY <3>1, <3>2, <2>1, <1>4, BooksFeederMoves DEF EmptyHanded
  <2> QED
    BY <1>14, <2>2, <2>3 DEF FeederPreflight
<1>15. CASE FeederReserve
  <2> DEFINE t == feeder.task.track
  <2>1. feeder.pc = "reserve" /\ t \in Tracks /\ UNCHANGED <<worker, readyCh>>
    BY <1>15, <1>7 DEF FeederReserve, FeederStep, channels
  <2>2. CASE /\ Fits(t) /\ used' = used + 1 /\ ramAdmissions' = ramAdmissions \cup {t}
             /\ taskLeases' = taskLeases \cup {t}
             /\ FeederAt("recheck") /\ UNCHANGED opQueue
    <3>1. Hands'
      BY <1>1, <1>2, <2>1, <2>2, ReserveHands
    <3>2. Matched' /\ EmptyHanded'
      BY <1>2, <1>5, <2>1, <2>2 DEF Asking, EmptyHanded
    <3>3. Counted'
      BY <1>1, <1>2, <2>1, <2>2, CountedKept
    <3> QED
      BY <3>1, <3>2, <3>3 DEF BooksInv
  <2>3. CASE Send(ParkOp(t)) /\ FeederAt("parking") /\ UNCHANGED admission
    <3>1. Matched'
      BY <1>2, <1>6, <2>1, <2>3, Messages DEF Asking, AskingPC
    <3> QED
      BY <3>1, <2>1, <2>3, <1>2, <1>4, BooksFeederMoves DEF EmptyHanded
  <2>4. CASE Send(StatusOp(t, "FAILED")) /\ FeederDrops("loop") /\ UNCHANGED admission
    <3>1. Matched'
      BY <1>5, <2>1, <2>4 DEF Asking, RowStatus
    <3> QED
      BY <3>1, <2>1, <2>4, <1>3, <1>4, BooksFeederMoves DEF EmptyHanded
  <2> QED
    BY <1>15, <2>2, <2>3, <2>4 DEF FeederReserve
<1>16. CASE FeederRecheck
  <2> DEFINE t == feeder.task.track
  <2>1. feeder.pc = "recheck" /\ t \in Tracks /\ UNCHANGED <<worker, readyCh>>
    BY <1>16, <1>7 DEF FeederRecheck, FeederStep, channels
  <2>2. CASE FeederAt("handoff") /\ UNCHANGED <<opQueue, admission>>
    <3>1. Booked' = Booked
      BY <1>2, <2>1, <2>2 DEF Booked
    <3>2. Matched'
      BY <1>5, <2>1, <2>2 DEF Asking
    <3> QED
      BY <3>1, <3>2, <2>1, <2>2, <1>2, BooksFeederMoves DEF EmptyHanded
  <2>3. CASE ReleaseUnstarted(t) /\ Send(ParkOp(t)) /\ FeederAt("parking")
    <3>1. Hands'
      BY <1>1, <1>2, <2>1, <2>3, ReleaseHands
    <3>2. Matched'
      BY <1>2, <1>6, <2>1, <2>3, Messages DEF Asking, AskingPC
    <3>3. Counted' /\ EmptyHanded'
      BY <1>1, <1>2, <2>1, <2>3, CountedKept DEF EmptyHanded
    <3> QED
      BY <3>1, <3>2, <3>3 DEF BooksInv
  <2> QED
    BY <1>16, <2>2, <2>3 DEF FeederRecheck
<1>17. CASE \E w \in Workers : Handoff(w)
  BY <1>17, HandoffBooks
<1>18. CASE FeederAbandon
  <2> DEFINE t == feeder.task.track
  <2>1. /\ feeder.pc = "handoff" /\ t \in Tracks /\ ReleaseUnstarted(t)
        /\ Send(StatusOp(t, "PENDING")) /\ FeederDrops("select")
        /\ UNCHANGED <<worker, readyCh>>
    BY <1>18, <1>7 DEF FeederAbandon, FeederStep, channels
  <2>2. Hands'
    BY <1>1, <1>3, <2>1, ReleaseHands
  <2>3. Matched'
    BY <1>5, <2>1 DEF Asking, RowStatus
  <2>4. Counted' /\ EmptyHanded'
    BY <1>1, <1>3, <2>1, CountedKept DEF EmptyHanded
  <2> QED
    BY <2>2, <2>3, <2>4 DEF BooksInv
<1>19. CASE FeederExit
  <2>1. feeder.pc = "select" /\ FeederAt("gone") /\ UNCHANGED <<opQueue, worker, readyCh, admission>>
    BY <1>19 DEF FeederExit, FeederStep, channels
  <2>2. EmptyHanded'
    BY <1>1, <1>2, <2>1 DEF EmptyHanded
  <2> QED
    BY <2>1, <2>2, <1>2, <1>4, <1>5, BooksFeederMoves DEF Asking
<1> QED
  BY <1>9, <1>10, <1>12, <1>13, <1>14, <1>15, <1>16, <1>17, <1>18, <1>19 DEF Feeder

\* A step of a worker that begins or ends no task.
LEMMA WorkerHandsKept ==
  ASSUME IInv, IInv', Hands, NEW w \in Workers, UNCHANGED <<feeder, admission>>,
         \A v \in Workers \ {w} : worker'[v] = worker[v],
         w \in Running' <=> w \in Running, w \in Starting' <=> w \in Starting,
         w \in Running => /\ worker'[w].task = worker[w].task
                          /\ worker'[w].ticket = worker[w].ticket
                          /\ worker'[w].admitted = worker[w].admitted
  PROVE  Hands'
<1>1. Running' = Running /\ Starting' = Starting /\ Booked' = Booked
  BY DEF Running, Starting, Booked
<1>2. \A v \in Running : /\ worker'[v].task = worker[v].task
                         /\ worker'[v].ticket = worker[v].ticket
                         /\ worker'[v].admitted = worker[v].admitted
  BY DEF Running
<1>3. Starting \subseteq Running
  BY DEF Starting, Running
<1>4. TracksOf(Running)' = TracksOf(Running) /\ TracksOf(Starting)' = TracksOf(Starting)
  BY <1>1, <1>2, <1>3 DEF TracksOf
<1>5. AdmissionsAreOwned'
  BY <1>1, <1>4 DEF Hands, AdmissionsAreOwned, admission
<1>6. Owners' /\ Fitting'
  BY <1>1, <1>2 DEF Hands, Owners, Fitting
<1> QED
  BY <1>5, <1>6 DEF Hands

LEMMA WorkerCountedKept ==
  ASSUME Counted, NEW w \in Workers, UNCHANGED <<feeder, readyCh>>,
         \A v \in Workers \ {w} : worker'[v] = worker[v],
         worker[w].pc # "waiting", worker'[w].pc # "waiting"
  PROVE  Counted'
<1>1. Waiting' = Waiting
  BY DEF Waiting
<1> QED
  BY <1>1 DEF Counted

\* The worker takes the ticket that the feeder has left for its track.
LEMMA BeginHands ==
  ASSUME IInv, IInv', Hands, NEW w \in Workers, Begin(w)
  PROVE  Hands'
<1> DEFINE t == worker[w].task.track
<1>0. /\ worker[w].pc = "begin" /\ taskLeases' = taskLeases \ {t}
      /\ worker' = [worker EXCEPT ![w] =
            [@ EXCEPT !.pc = IF t \in ramAdmissions THEN "hash" ELSE "cleanup",
                      !.ticket = t \in taskLeases, !.admitted = t \in ramAdmissions]]
      /\ UNCHANGED <<feeder, ramAdmissions, used>>
  BY DEF Begin, WorkerStep
<1>1. worker \in [Workers -> [pc : WorkerPC, task : Task \cup {None}, ticket : BOOLEAN,
                             admitted : BOOLEAN]]
  BY DEF IInv, Types, WorkersOK
<1>2. w \in Running /\ w \in Starting
  BY <1>0 DEF Running, Starting
<1>3. t \in ramAdmissions /\ t \in taskLeases
  BY <1>2 DEF Hands, AdmissionsAreOwned, TracksOf
<1>4. /\ worker'[w].pc = "hash" /\ worker'[w].task = worker[w].task
      /\ worker'[w].ticket = TRUE /\ worker'[w].admitted = TRUE
      /\ \A v \in Workers \ {w} : worker'[v] = worker[v]
  BY <1>0, <1>1, <1>3
<1>5. Running' = Running /\ Starting' = Starting \ {w} /\ Booked' = Booked
  BY <1>0, <1>2, <1>4 DEF Running, Starting, Booked
<1>6. /\ \A v \in Running : worker'[v].task = worker[v].task
      /\ Starting \subseteq Running /\ Running \subseteq Workers
  BY <1>4 DEF Running, Starting
<1>7. t \notin Booked /\ \A v \in Starting \ {w} : worker[v].task.track # t
  BY <1>2, <1>6 DEF Hands, Owners
<1>8. /\ TracksOf(Running)' = TracksOf(Running)
      /\ TracksOf(Starting)' = TracksOf(Starting) \ {t}
  BY <1>2, <1>5, <1>6, <1>7 DEF TracksOf
<1>9. AdmissionsAreOwned'
  BY <1>0, <1>5, <1>7, <1>8 DEF Hands, AdmissionsAreOwned
<1>10. \A v \in Running' \ Starting' : worker'[v].ticket /\ worker'[v].admitted
  BY <1>4, <1>5, <1>6 DEF Hands, Owners
<1>11. Owners'
  BY <1>5, <1>6, <1>10 DEF Hands, Owners
<1>12. Fitting'
  BY <1>5 DEF Hands, Fitting
<1> QED
  BY <1>9, <1>11, <1>12 DEF Hands

\* A worker leaves its cleanup idle or with a failure to report.
LEMMA CleanupLeaves ==
  ASSUME IInv, NEW w \in Workers, Cleanup(w)
  PROVE  /\ worker'[w].pc \in {"idle", "report"}
         /\ \A v \in Workers \ {w} : worker'[v] = worker[v]
<1>1. worker = [v \in Workers |-> worker[v]]
  BY DEF IInv, Types, WorkersOK
<1>2. ASSUME NEW new, worker' = [worker EXCEPT ![w] = new]
      PROVE  worker'[w] = new /\ \A v \in Workers \ {w} : worker'[v] = worker[v]
  BY <1>1, <1>2
<1> DEFINE failed == [IdleWorker EXCEPT !.pc = "report", !.task = worker[w].task]
<1>3. IdleWorker.pc = "idle" /\ failed.pc = "report"
  BY DEF IdleWorker
<1>4. worker' = [worker EXCEPT ![w] = IdleWorker] \/ worker' = [worker EXCEPT ![w] = failed]
  BY DEF Cleanup
<1> HIDE DEF failed
<1> QED
  BY <1>2, <1>3, <1>4

\* The cleanup gives back exactly the admission and the ticket of its task.
LEMMA CleanupHands ==
  ASSUME IInv, IInv', Hands, NEW w \in Workers, Cleanup(w)
  PROVE  Hands'
<1> DEFINE t == worker[w].task.track
<1>0. /\ worker[w].pc = "cleanup"
      /\ ramAdmissions' = IF worker[w].admitted THEN ramAdmissions \ {t} ELSE ramAdmissions
      /\ used' = IF worker[w].ticket THEN IntSafeSub(used, 1) ELSE used
      /\ UNCHANGED <<feeder, taskLeases>>
  BY DEF Cleanup, WorkerStep
<1>2. w \in Running /\ w \notin Starting
  BY <1>0 DEF Running, Starting
<1>3. worker[w].ticket /\ worker[w].admitted
  BY <1>2 DEF Hands, Owners
<1>4. /\ worker'[w].pc \in {"idle", "report"}
      /\ \A v \in Workers \ {w} : worker'[v] = worker[v]
  BY CleanupLeaves
<1>5. Running' = Running \ {w} /\ Starting' = Starting /\ Booked' = Booked
  BY <1>0, <1>2, <1>4 DEF Running, Starting, Booked
<1>6. /\ \A v \in Running \ {w} : worker'[v] = worker[v] /\ worker[v].task.track # t
      /\ Starting \subseteq Running \ {w}
  BY <1>2, <1>4 DEF Running, Starting, Hands, Owners
<1>7. /\ TracksOf(Running)' = TracksOf(Running) \ {t}
      /\ TracksOf(Starting)' = TracksOf(Starting)
  BY <1>2, <1>5, <1>6 DEF TracksOf
<1>8. /\ IsFiniteSet(Running') /\ Cardinality(Running)' = Cardinality(Running) - 1
      /\ Cardinality(Running) \in Nat /\ Cardinality(Running') \in Nat
  BY <1>2, <1>5, FS_RemoveElement, FS_CardinalityType DEF Hands, Owners
<1>9. t \notin Booked /\ Cardinality(Booked) \in Nat
  BY <1>2, BookedCount DEF Hands, Owners
<1>10. used = Cardinality(Booked) + Cardinality(Running)
  BY DEF Hands, AdmissionsAreOwned
<1>11. used' = Cardinality(Booked) + Cardinality(Running)'
  BY <1>0, <1>3, <1>8, <1>9, <1>10 DEF IntSafeSub
<1>12. AdmissionsAreOwned'
  BY <1>0, <1>3, <1>5, <1>7, <1>9, <1>11 DEF Hands, AdmissionsAreOwned
<1>13. Owners'
  BY <1>5, <1>6, <1>8 DEF Hands, Owners
<1>14. Fitting'
  BY <1>5, <1>8, <1>9, TaskQueueAssumption DEF Hands, Fitting
<1> QED
  BY <1>12, <1>13, <1>14 DEF Hands

LEMMA WorkerBooks ==
  ASSUME IInv, IInv', BooksInv, NEW w \in Workers, Announce(w) \/ Leave(w) \/ Pipeline(w)
  PROVE  BooksInv'
<1>0. worker \in [Workers -> [pc : WorkerPC, task : Task \cup {None}, ticket : BOOLEAN,
                             admitted : BOOLEAN]] /\ readyCh \in Nat
  BY DEF IInv, Types, WorkersOK, ProcessOK
<1>1. /\ Matched /\ EmptyHanded /\ Hands /\ Counted /\ AnswersOK /\ QueuesOK
      /\ UNCHANGED feeder
  BY DEF BooksInv, IInv, Types, Announce, Leave, Pipeline, Begin, HashCheck, Analyse, SendIngest,
         Cleanup, ReportCleanupFailure, WorkerStep
<1>2. EmptyHanded'
  BY <1>1 DEF EmptyHanded
<1>3. worker[w].pc \notin {"idle", "waiting", "gone"} => worker[w].task.track \in Tracks
  BY DEF IInv, Types, WorkersOK, Task
<1>4. Matched'
  <2>1. CASE UNCHANGED opQueue
    BY <1>1, <2>1, MatchedKept
  <2>2. ASSUME NEW t \in Tracks, NEW s \in RowStatus, Send(StatusOp(t, s)) PROVE Matched'
    <3>1. StatusOp(t, s) \in Op /\ StatusOp(t, s).kind = "status"
      BY Messages
    <3> QED
      BY <1>1, <2>2, <3>1, MatchedSent
  <2>3. UNCHANGED opQueue \/ \E t \in Tracks, s \in RowStatus : Send(StatusOp(t, s))
    <3>1. {"RUNNING", "FAILED", "COMPLETED", "FAILED_MAYBE_RETRY"} \subseteq RowStatus
      BY DEF RowStatus
    <3>2. CASE Begin(w)
      BY <1>3, <3>1, <3>2 DEF Begin, WorkerStep
    <3>3. CASE HashCheck(w) \/ Analyse(w)
      BY <1>3, <3>1, <3>3 DEF HashCheck, Analyse, WorkerStep
    <3>4. CASE ReportCleanupFailure(w)
      BY <1>3, <3>1, <3>4 DEF ReportCleanupFailure, WorkerStep
    <3>5. CASE Announce(w) \/ Leave(w) \/ SendIngest(w) \/ Cleanup(w)
      BY <3>5 DEF Announce, Leave, SendIngest, Cleanup
    <3> QED
      BY <3>2, <3>3, <3>4, <3>5 DEF Pipeline
  <2> QED
    BY <2>1, <2>2, <2>3
<1>5. ASSUME NEW pc, WorkerAt(w, pc)
      PROVE  /\ worker'[w].pc = pc /\ worker'[w].task = worker[w].task
             /\ worker'[w].ticket = worker[w].ticket /\ worker'[w].admitted = worker[w].admitted
             /\ \A v \in Workers \ {w} : worker'[v] = worker[v]
  BY <1>0, <1>5 DEF WorkerAt
<1>6. CASE Announce(w)
  <2>1. /\ worker[w].pc = "idle" /\ readyCh' = readyCh + 1 /\ WorkerAt(w, "waiting")
        /\ UNCHANGED admission
    BY <1>6 DEF Announce, WorkerStep
  <2>2. Hands'
    BY <1>1, <1>5, <2>1, WorkerHandsKept DEF Running, Starting
  <2>3. Waiting' = Waiting \cup {w} /\ w \notin Waiting
    BY <1>5, <2>1 DEF Waiting
  <2>4. IsFiniteSet(Waiting') /\ Cardinality(Waiting)' = Cardinality(Waiting) + 1
    BY <1>1, <2>3, FS_AddElement DEF Counted
  <2>5. feeder.ready \in Nat
    BY DEF IInv, Types, FeederOK
  <2>6. Counted'
    <3>1. feeder.ready + (readyCh + 1) = (feeder.ready + readyCh) + 1
      BY <1>0, <2>5
    <3> QED
      BY <1>1, <2>1, <2>4, <3>1 DEF Counted
  <2> QED
    BY <1>2, <1>4, <2>2, <2>6 DEF BooksInv
<1>7. CASE Leave(w)
  <2>1. /\ worker[w].pc = "idle" \/ (worker[w].pc = "waiting" /\ feeder.pc = "gone")
        /\ WorkerAt(w, "gone") /\ UNCHANGED <<readyCh, admission>>
    BY <1>7 DEF Leave, WorkerStep
  <2>2. Hands'
    BY <1>1, <1>5, <2>1, WorkerHandsKept DEF Running, Starting
  <2>3. Counted'
    <3>1. CASE worker[w].pc = "idle"
      BY <1>1, <1>5, <2>1, <3>1, WorkerCountedKept
    <3>2. CASE feeder.pc = "gone"
      <4>1. Waiting' = Waiting \ {w}
        BY <1>5, <2>1 DEF Waiting
      <4>2. IsFiniteSet(Waiting')
        BY <1>1, <4>1, FS_RemoveElement DEF Counted
      <4> QED
        BY <1>1, <3>2, <4>2 DEF Counted
    <3> QED
      BY <2>1, <3>1, <3>2
  <2> QED
    BY <1>2, <1>4, <2>2, <2>3 DEF BooksInv
<1>8. CASE Begin(w)
  <2>1. /\ worker[w].pc = "begin" /\ worker'[w].pc \in {"hash", "cleanup"}
        /\ \A v \in Workers \ {w} : worker'[v] = worker[v]
        /\ UNCHANGED readyCh
    BY <1>0, <1>8 DEF Begin, WorkerStep
  <2> QED
    BY <1>1, <1>2, <1>4, <1>8, <2>1, BeginHands, WorkerCountedKept DEF BooksInv
<1>9. CASE HashCheck(w) \/ Analyse(w) \/ SendIngest(w)
  <2>1. /\ worker[w].pc \in {"hash", "analyse", "send"} /\ UNCHANGED <<readyCh, admission>>
        /\ \E pc \in {"analyse", "send", "cleanup"} : WorkerAt(w, pc)
    BY <1>9 DEF HashCheck, Analyse, SendIngest, WorkerStep
  <2>2. Hands'
    BY <1>1, <1>5, <2>1, WorkerHandsKept DEF Running, Starting
  <2>3. Counted'
    BY <1>1, <1>5, <2>1, WorkerCountedKept
  <2> QED
    BY <1>2, <1>4, <2>2, <2>3 DEF BooksInv
<1>10. CASE Cleanup(w)
  <2>1. /\ worker[w].pc = "cleanup" /\ worker'[w].pc \in {"idle", "report"}
        /\ \A v \in Workers \ {w} : worker'[v] = worker[v]
        /\ UNCHANGED readyCh
    BY <1>10, CleanupLeaves DEF Cleanup, WorkerStep
  <2> QED
    BY <1>1, <1>2, <1>4, <1>10, <2>1, CleanupHands, WorkerCountedKept DEF BooksInv
<1>11. CASE ReportCleanupFailure(w)
  <2>1. /\ worker[w].pc = "report" /\ worker'[w].pc = "idle"
        /\ \A v \in Workers \ {w} : worker'[v] = worker[v]
        /\ UNCHANGED <<readyCh, admission>>
    BY <1>0, <1>11 DEF ReportCleanupFailure, WorkerStep, IdleWorker
  <2>2. Hands'
    BY <1>1, <2>1, WorkerHandsKept DEF Running, Starting
  <2> QED
    BY <1>1, <1>2, <1>4, <2>1, <2>2, WorkerCountedKept DEF BooksInv
<1> QED
  BY <1>6, <1>7, <1>8, <1>9, <1>10, <1>11 DEF Pipeline

LEMMA IngestBooks ==
  ASSUME IInv, BooksInv, Ingest
  PROVE  BooksInv'
<1>1. /\ ingestQueue # <<>> /\ UNCHANGED <<feeder, worker, readyCh, admission>>
      /\ \E s \in RowStatus : Send(StatusOp(Head(ingestQueue).track, s))
  BY DEF Ingest, IngestCommit, IngestConflict, IngestToDLQ, IngestFailed, IngestStep, channels,
         RowStatus
<1>2. Head(ingestQueue).track \in Tracks
  <2>1. Head(ingestQueue) \in Task
    BY <1>1 DEF IInv, Types, QueuesOK
  <2> QED
    BY <2>1 DEF Task
<1>3. PICK s \in RowStatus : Send(StatusOp(Head(ingestQueue).track, s))
  BY <1>1
<1>4. /\ StatusOp(Head(ingestQueue).track, s) \in Op
      /\ StatusOp(Head(ingestQueue).track, s).kind = "status"
  BY <1>2, Messages
<1>5. Matched'
  BY <1>1, <1>3, <1>4, MatchedSent DEF BooksInv, IInv, Types
<1> QED
  BY <1>1, <1>5, BooksAside

LEMMA NextBooks ==
  ASSUME IInv, IInv', BooksInv, [Next]_vars
  PROVE  BooksInv'
<1>1. ASSUME UNCHANGED <<feeder, worker, readyCh, admission, opQueue>> PROVE BooksInv'
  <2>1. Matched'
    BY <1>1, MatchedKept DEF BooksInv, IInv
  <2> QED
    BY <1>1, <2>1, BooksAside
<1>2. CASE Stop \/ Restart \/ UNCHANGED vars
  BY <1>1, <1>2 DEF Stop, Restart, vars, channels, admission
<1>3. CASE (\E h \in Hashes : ReplayDLQ(h)) \/ (\E t \in Tracks : Cool(t))
  BY <1>1, <1>3 DEF ReplayDLQ, Cool, channels
<1>4. CASE Exit \/ Crash
  <2>1. Die
    BY <1>4 DEF Exit, Crash
  <2> QED
    BY <2>1, FreshBooksNext DEF Die
<1>5. CASE \E w \in Workers : Announce(w) \/ Leave(w) \/ Pipeline(w)
  BY <1>5, WorkerBooks
<1>6. CASE \E r \in Requests :
              \/ \E batch \in SUBSET Tracks \ {{}}, forced \in BOOLEAN : Plan(r, batch, forced)
              \/ SendCheck(r) \/ Notify(r)
  BY <1>6, RequestBooks
<1>7. CASE Writer
  BY <1>7, WriterBooks
<1>8. CASE Feeder
  BY <1>8, FeederBooks
<1>9. CASE Ingest
  BY <1>9, IngestBooks
<1> QED
  BY <1>2, <1>3, <1>4, <1>5, <1>6, <1>7, <1>8, <1>9 DEF Next

LEMMA SpecBooks == Spec => []BooksInv
<1>1. Init => BooksInv
  BY FreshBooks DEF Init
<1>2. IInv /\ IInv' /\ BooksInv /\ [Next]_vars => BooksInv'
  BY NextBooks
<1> QED
  BY <1>1, <1>2, SpecIInv, PTL DEF Spec

(***************************************************************************)
(* The theorems.                                                           *)
(***************************************************************************)
\* The RAM admissions, the handed-over tickets and the DownstreamTracks count are at any
\* time exactly those of the booked task and of the tasks not yet cleaned up.
THEOREM AdmissionsHaveOwners == Spec => []AdmissionsAreOwned
<1>1. BooksInv => AdmissionsAreOwned
  BY DEF BooksInv, Hands
<1> QED
  BY <1>1, SpecBooks, PTL

\* At most DownstreamTracks tasks are past the reservation, no two of them on one track.
THEOREM DownstreamIsBounded == Spec => []OneDownstreamTrack
<1>1. BooksInv => OneDownstreamTrack
  BY DEF BooksInv, Hands, Owners, Fitting, OneDownstreamTrack
<1> QED
  BY <1>1, SpecBooks, PTL

\* The feeder counts every waiting worker and holds a task only while one waits, so the
\* handoff on the unbuffered taskQueue finds a receiver.
THEOREM WorkersAreCounted == Spec => []WaitingWorkersAreCounted
<1>1. IInv /\ BooksInv => WaitingWorkersAreCounted
  <2> SUFFICES ASSUME IInv, BooksInv PROVE WaitingWorkersAreCounted
    OBVIOUS
  <2>1. feeder.pc # "gone" /\ feeder.task # None => feeder.ready > 0
    BY DEF IInv, Types, FeederOK, BooksInv, EmptyHanded
  <2> QED
    BY <2>1 DEF BooksInv, Counted, Waiting, WaitingWorkersAreCounted
<1> QED
  BY <1>1, SpecIInv, SpecBooks, PTL

(***************************************************************************)
(* Owners of the rows that nobody may claim.  The invariant follows every  *)
(* status on its way: a RUNNING that is still in the queue is about a      *)
(* track at work, or about one whose final status was sent after it.       *)
(***************************************************************************)
HasRow(t) == (feeder.pc \in Holding /\ feeder.task.track = t) \/ t \in TracksOf(Starting)
AtWork(t) ==
    \/ t \in TracksOf(Working)
    \/ \E i \in 1..Len(ingestQueue) : ingestQueue[i].track = t

NoQueuedSent ==
    \A t \in Tracks, i \in 1..Len(opQueue) : StatusSent(i, t) => opQueue[i].status # "QUEUED"
RunningIsSettled ==
    \A t \in Tracks, i \in 1..Len(opQueue) :
        StatusSent(i, t) /\ opQueue[i].status = "RUNNING" =>
            AtWork(t) \/ \E j \in 1..Len(opQueue) : j > i /\ Settles(j, t)
ParksItsTask ==
    \A i \in 1..Len(opQueue) : opQueue[i].kind = "park" =>
        feeder.pc = "parking" /\ feeder.task.track = opQueue[i].track

OrphanInv == NoOrphanedRow /\ NoQueuedSent /\ RunningIsSettled /\ ParksItsTask

LEMMA OwnersQuiet ==
  ASSUME OrphanInv, UNCHANGED <<status, opQueue>>, Alive' => Alive,
         \A t \in Tracks : HasRow(t) => HasRow(t)',
         \A t \in Tracks : AtWork(t) => AtWork(t)',
         feeder.pc = "parking" => UNCHANGED feeder
  PROVE  OrphanInv'
<1>1. \A t \in Tracks, i \in 1..Len(opQueue) :
         (StatusSent(i, t)' <=> StatusSent(i, t)) /\ (Settles(i, t)' <=> Settles(i, t))
  BY DEF StatusSent, Settles
<1>2. NoOrphanedRow'
  BY <1>1 DEF OrphanInv, NoOrphanedRow, HasRow, AtWork
<1>3. NoQueuedSent' /\ RunningIsSettled'
  BY <1>1 DEF OrphanInv, NoQueuedSent, RunningIsSettled
<1>4. ParksItsTask'
  BY DEF OrphanInv, ParksItsTask
<1> QED
  BY <1>2, <1>3, <1>4 DEF OrphanInv

\* Whoever lets go of a row has sent a status, and a settling one when it was at work.
LEMMA OwnersSent ==
  ASSUME QueuesOK, OrphanInv, UNCHANGED status, Alive' => Alive, NEW op \in Op, Send(op),
         op.kind = "status" => op.status # "QUEUED",
         \A t \in Tracks : op.kind = "status" /\ op.track = t /\ op.status = "RUNNING" => AtWork(t)',
         op.kind = "park" => feeder'.pc = "parking" /\ feeder'.task.track = op.track,
         \A t \in Tracks : HasRow(t) => HasRow(t)' \/ (op.kind = "status" /\ op.track = t),
         \A t \in Tracks : AtWork(t) =>
             AtWork(t)' \/ (op.kind = "status" /\ op.track = t /\ op.status # "RUNNING"),
         feeder.pc = "parking" => UNCHANGED feeder
  PROVE  OrphanInv'
<1>0. PICK n \in Nat : n = Len(opQueue)
  BY SentQueue
<1>1. /\ Len(opQueue') = n + 1 /\ opQueue'[n + 1] = op
      /\ \A i \in 1..n : opQueue'[i] = opQueue[i]
  BY <1>0, SentQueue
<1>2. \A t \in Tracks, i \in 1..n :
         (StatusSent(i, t)' <=> StatusSent(i, t)) /\ (Settles(i, t)' <=> Settles(i, t))
  BY <1>1 DEF StatusSent, Settles
<1>3. \A t \in Tracks, i \in {n + 1} :
             /\ StatusSent(i, t)' <=> op.kind = "status" /\ op.track = t
             /\ Settles(i, t)' <=> /\ op.kind = "status" /\ op.track = t
                                       /\ op.status \notin {"QUEUED", "RUNNING"}
  BY <1>1 DEF StatusSent, Settles
<1>4. /\ 1..Len(opQueue') = 1..n \cup {n + 1} /\ n + 1 \notin 1..n
      /\ \A i \in 1..n : n + 1 > i
  BY <1>1
<1>5. NoOrphanedRow'
  <2> SUFFICES ASSUME NEW t \in Tracks, Alive', Alive
               PROVE  /\ status'[t] = "QUEUED" =>
                            HasRow(t)' \/ \E i \in 1..Len(opQueue') : StatusSent(i, t)'
                      /\ status'[t] = "RUNNING" =>
                            AtWork(t)' \/ \E i \in 1..Len(opQueue') : Settles(i, t)'
    BY DEF NoOrphanedRow, HasRow, AtWork
  <2>1. ASSUME status[t] = "QUEUED"
        PROVE  HasRow(t)' \/ \E i \in 1..Len(opQueue') : StatusSent(i, t)'
    <3>1. HasRow(t) \/ \E i \in 1..n : StatusSent(i, t)
      BY <1>0, <2>1 DEF OrphanInv, NoOrphanedRow, HasRow
    <3>2. CASE \E i \in 1..n : StatusSent(i, t)
      BY <3>2, <1>2, <1>4
    <3>3. CASE op.kind = "status" /\ op.track = t
      BY <3>3, <1>3, <1>4
    <3>4. HasRow(t) => HasRow(t)' \/ (op.kind = "status" /\ op.track = t)
      OBVIOUS
    <3> QED
      BY <3>1, <3>2, <3>3, <3>4
  <2>2. ASSUME status[t] = "RUNNING"
        PROVE  AtWork(t)' \/ \E i \in 1..Len(opQueue') : Settles(i, t)'
    <3>1. AtWork(t) \/ \E i \in 1..n : Settles(i, t)
      BY <1>0, <2>2 DEF OrphanInv, NoOrphanedRow, AtWork
    <3> QED
      BY <3>1, <1>2, <1>3, <1>4
  <2> QED
    BY <2>1, <2>2
<1>6. NoQueuedSent'
  <2> SUFFICES ASSUME NEW t \in Tracks, NEW i \in 1..Len(opQueue'), StatusSent(i, t)'
               PROVE  opQueue'[i].status # "QUEUED"
    BY DEF NoQueuedSent
  <2>1. CASE i = n + 1
    <3>1. op.kind = "status" /\ opQueue'[i] = op
      BY <2>1, <1>1, <1>3
    <3> QED
      BY <3>1
  <2>2. CASE i \in 1..n
    <3>1. StatusSent(i, t) /\ opQueue'[i] = opQueue[i]
      BY <2>2, <1>1, <1>2
    <3> QED
      BY <2>2, <3>1, <1>0 DEF OrphanInv, NoQueuedSent
  <2> QED
    BY <2>1, <2>2, <1>4
<1>7. RunningIsSettled'
  <2> SUFFICES ASSUME NEW t \in Tracks, NEW i \in 1..Len(opQueue'), StatusSent(i, t)',
                      opQueue'[i].status = "RUNNING"
               PROVE  AtWork(t)' \/ \E j \in 1..Len(opQueue') : j > i /\ Settles(j, t)'
    BY DEF RunningIsSettled
  <2>1. CASE i = n + 1
    <3>1. op.kind = "status" /\ op.track = t /\ op.status = "RUNNING"
      BY <2>1, <1>1, <1>3
    <3> QED
      BY <3>1
  <2>2. CASE i \in 1..n
    <3>1. StatusSent(i, t) /\ opQueue[i].status = "RUNNING"
      BY <2>2, <1>1, <1>2
    <3>2. AtWork(t) \/ \E j \in 1..n : j > i /\ Settles(j, t)
      BY <1>0, <2>2, <3>1 DEF OrphanInv, RunningIsSettled
    <3>3. CASE \E j \in 1..n : j > i /\ Settles(j, t)
      BY <3>3, <1>2, <1>4
    <3>4. CASE AtWork(t)
      BY <2>2, <3>4, <1>3, <1>4
    <3> QED
      BY <3>2, <3>3, <3>4
  <2> QED
    BY <2>1, <2>2, <1>4
<1>8. ParksItsTask'
  BY <1>0, <1>1, <1>4 DEF OrphanInv, ParksItsTask
<1> QED
  BY <1>5, <1>6, <1>7, <1>8 DEF OrphanInv

\* What the writer applies: a row becomes QUEUED only in the hand of the feeder, and
\* RUNNING only by a status.
LEMMA OwnersWritten ==
  ASSUME QueuesOK, AnswersOK, OrphanInv, opQueue # <<>>, opQueue' = Tail(opQueue), Alive' => Alive,
         UNCHANGED <<worker, ingestQueue>>,
         \A t \in Tracks : status'[t] = "QUEUED" =>
             \/ HasRow(t)'
             \/ status[t] = "QUEUED" /\ ~StatusSent(1, t) /\ (HasRow(t) => HasRow(t)'),
         \A t \in Tracks : status'[t] = "RUNNING" =>
             \/ status[t] = "RUNNING" /\ ~StatusSent(1, t)
             \/ StatusSent(1, t) /\ opQueue[1].status = "RUNNING",
         UNCHANGED feeder \/ Asked(1)
  PROVE  OrphanInv'
<1>0. PICK n \in Nat \ {0} : n = Len(opQueue)
  BY WrittenQueue
<1>1. /\ Len(opQueue') = n - 1
      /\ \A i \in 1..(n - 1) : opQueue'[i] = opQueue[i + 1]
  BY <1>0, WrittenQueue
<1>2. /\ \A i \in 1..(n - 1) : i + 1 \in 1..n /\ i + 1 > 1
      /\ \A i \in 1..n : i > 1 => i - 1 \in 1..(n - 1) /\ (i - 1) + 1 = i
      /\ \A i \in 1..n : i = 1 \/ i > 1
      /\ \A i, j \in 1..n : i > 1 /\ j > i => j > 1 /\ j - 1 > i - 1
      /\ \A i \in 1..(n - 1) : (i + 1) - 1 = i
  BY <1>1
<1>3. \A t \in Tracks, i \in 1..(n - 1) :
                                /\ StatusSent(i, t)' <=> StatusSent(i + 1, t)
                                /\ Settles(i, t)' <=> Settles(i + 1, t)
  BY <1>1 DEF StatusSent, Settles
<1>4. \A t \in Tracks : AtWork(t)' <=> AtWork(t)
  BY DEF AtWork, TracksOf, Working
<1>6. NoOrphanedRow'
  <2> SUFFICES ASSUME NEW t \in Tracks, Alive', Alive
               PROVE  /\ status'[t] = "QUEUED" =>
                            HasRow(t)' \/ \E i \in 1..(n - 1) : StatusSent(i, t)'
                      /\ status'[t] = "RUNNING" =>
                            AtWork(t)' \/ \E i \in 1..(n - 1) : Settles(i, t)'
    BY <1>1 DEF NoOrphanedRow, HasRow, AtWork
  <2>1. ASSUME status'[t] = "QUEUED", ~HasRow(t)' PROVE \E i \in 1..(n - 1) : StatusSent(i, t)'
    <3>1. status[t] = "QUEUED" /\ ~StatusSent(1, t) /\ ~HasRow(t)
      BY <2>1
    <3>2. PICK i \in 1..n : StatusSent(i, t) /\ i > 1
      BY <3>1, <1>2, <1>0 DEF OrphanInv, NoOrphanedRow, HasRow
    <3>3. i - 1 \in 1..(n - 1) /\ (i - 1) + 1 = i
      BY <3>2, <1>2
    <3>4. StatusSent(i - 1, t)'
      BY <3>2, <3>3, <1>3
    <3> QED
      BY <3>3, <3>4
  <2>2. ASSUME status'[t] = "RUNNING", ~AtWork(t) PROVE \E i \in 1..(n - 1) : Settles(i, t)'
    <3>1. PICK i \in 1..n : Settles(i, t) /\ i > 1
      <4>1. CASE status[t] = "RUNNING" /\ ~StatusSent(1, t)
        BY <2>2, <4>1, <1>2, <1>0 DEF OrphanInv, NoOrphanedRow, AtWork, Settles
      <4>2. CASE StatusSent(1, t) /\ opQueue[1].status = "RUNNING"
        <5>1. 1 \in 1..n
          BY <1>1
        <5> QED
          BY <2>2, <4>2, <5>1, <1>0 DEF OrphanInv, RunningIsSettled
      <4> QED
        BY <2>2, <4>1, <4>2
    <3>2. i - 1 \in 1..(n - 1) /\ (i - 1) + 1 = i
      BY <3>1, <1>2
    <3>3. Settles(i - 1, t)'
      BY <3>1, <3>2, <1>3
    <3> QED
      BY <3>2, <3>3
  <2> QED
    BY <2>1, <2>2, <1>4
<1>7. NoQueuedSent'
  BY <1>1, <1>2, <1>3, <1>0 DEF OrphanInv, NoQueuedSent
<1>8. RunningIsSettled'
  <2> SUFFICES ASSUME NEW t \in Tracks, NEW i \in 1..(n - 1), StatusSent(i, t)',
                      opQueue'[i].status = "RUNNING", ~AtWork(t)
               PROVE  \E j \in 1..(n - 1) : j > i /\ Settles(j, t)'
    BY <1>1, <1>4 DEF RunningIsSettled
  <2>1. StatusSent(i + 1, t) /\ opQueue[i + 1].status = "RUNNING" /\ i + 1 \in 1..n
    BY <1>1, <1>2, <1>3
  <2>2. PICK j \in 1..n : j > i + 1 /\ Settles(j, t)
    BY <2>1, <1>0 DEF OrphanInv, RunningIsSettled
  <2>3. j - 1 \in 1..(n - 1) /\ j - 1 > i /\ Settles(j - 1, t)'
    BY <2>2, <1>2, <1>3
  <2> QED
    BY <2>3
<1>9. ParksItsTask'
  <2>1. \A i \in 1..Len(opQueue') : opQueue'[i].kind = "park" =>
            i + 1 \in 1..n /\ Asked(i + 1) /\ i + 1 # 1 /\ opQueue'[i] = opQueue[i + 1]
    BY <1>1, <1>2 DEF Asked
  <2>2. CASE UNCHANGED feeder
    BY <2>1, <2>2, <1>0 DEF OrphanInv, ParksItsTask
  <2>3. CASE Asked(1)
    <3>1. 1 \in 1..n
      BY <1>1
    <3>2. \A i \in 1..Len(opQueue') : opQueue'[i].kind # "park"
      BY <2>1, <2>3, <3>1, <1>0 DEF AnswersOK
    <3> QED
      BY <3>2 DEF ParksItsTask
  <2> QED
    BY <2>2, <2>3
<1> QED
  BY <1>6, <1>7, <1>8, <1>9 DEF OrphanInv

\* A begun task is admitted, so its row becomes RUNNING and its worker goes to work.
LEMMA BeginAdmits ==
  ASSUME IInv, Hands, NEW w \in Workers, Begin(w)
  PROVE  /\ worker[w].task.track \in Tracks
         /\ Send(StatusOp(worker[w].task.track, "RUNNING"))
         /\ worker'[w].pc = "hash" /\ worker'[w].task = worker[w].task
         /\ \A v \in Workers \ {w} : worker'[v] = worker[v]
<1> DEFINE t == worker[w].task.track
<1>1. w \in Running /\ w \in Starting
  BY DEF Begin, WorkerStep, Running, Starting
<1>2. t \in ramAdmissions
  BY <1>1 DEF Hands, AdmissionsAreOwned, TracksOf
<1>3. worker = [v \in Workers |-> worker[v]]
  BY DEF IInv, Types, WorkersOK
<1>4. worker[w] \in [pc : WorkerPC, task : Task \cup {None}, ticket : BOOLEAN,
                     admitted : BOOLEAN]
  BY DEF IInv, Types, WorkersOK
<1>5. worker' = [worker EXCEPT ![w] = [@ EXCEPT !.pc = "hash", !.ticket = t \in taskLeases,
                                                !.admitted = TRUE]]
  BY <1>2 DEF Begin
<1>6. t \in Tracks
  BY <1>1, RunningHasTask
<1> QED
  <2> DEFINE new == [worker[w] EXCEPT !.pc = "hash", !.ticket = t \in taskLeases,
                                      !.admitted = TRUE]
  <2>1. new.pc = "hash" /\ new.task = worker[w].task
    BY <1>4
  <2>2. worker' = [worker EXCEPT ![w] = new]
    BY <1>5
  <2> HIDE DEF new
  <2>3. worker'[w] = new /\ \A v \in Workers \ {w} : worker'[v] = worker[v]
    BY <1>3, <2>2
  <2>4. Send(StatusOp(t, "RUNNING"))
    BY <1>2 DEF Begin
  <2> QED
    BY <1>6, <2>1, <2>3, <2>4

\* Messages about no status change no owner.
LEMMA OwnersAside ==
  ASSUME IInv, OrphanInv, UNCHANGED <<status, worker, ingestQueue, mode>>,
         feeder.pc \notin Holding, feeder'.pc \notin Holding \/ HasRow(feeder.task.track)',
         UNCHANGED opQueue \/ \E op \in Op : Send(op) /\ op.kind \in {"check", "requeue", "claim"}
  PROVE  OrphanInv'
<1>1. Alive' => Alive
  BY DEF Alive
<1>2. /\ \A t \in Tracks : HasRow(t) => HasRow(t)'
      /\ \A t \in Tracks : AtWork(t) => AtWork(t)'
  BY DEF HasRow, AtWork, TracksOf, Starting, Working
<1>3. feeder.pc # "parking"
  BY DEF Holding
<1>4. CASE UNCHANGED opQueue
  BY <1>1, <1>2, <1>3, <1>4, OwnersQuiet
<1>5. ASSUME NEW op \in Op, Send(op), op.kind \in {"check", "requeue", "claim"}
      PROVE  OrphanInv'
  BY <1>1, <1>2, <1>3, <1>5, OwnersSent DEF IInv, Types
<1> QED
  BY <1>4, <1>5

LEMMA RequestOwners ==
  ASSUME IInv, OrphanInv, NEW r \in Requests,
         \/ \E batch \in SUBSET Tracks \ {{}}, forced \in BOOLEAN : Plan(r, batch, forced)
         \/ SendCheck(r) \/ Notify(r)
  PROVE  OrphanInv'
<1>1. UNCHANGED <<status, feeder, worker, ingestQueue, mode>>
  BY DEF Plan, SendCheck, Notify, rows, process
<1>2. /\ Alive' => Alive
      /\ \A t \in Tracks : HasRow(t) => HasRow(t)'
      /\ \A t \in Tracks : AtWork(t) => AtWork(t)'
  BY <1>1 DEF Alive, HasRow, AtWork, TracksOf, Starting, Working
<1>3. CASE UNCHANGED opQueue
  BY <1>1, <1>2, <1>3, OwnersQuiet
<1>4. CASE Send(CheckOp(r))
  <2>1. CheckOp(r) \in Op /\ CheckOp(r).kind = "check"
    BY Messages
  <2> QED
    BY <1>1, <1>2, <1>4, <2>1, OwnersSent DEF IInv, Types
<1> QED
  BY <1>3, <1>4 DEF Plan, SendCheck, Notify

LEMMA WriterOwners ==
  ASSUME IInv, BooksInv, OrphanInv, Writer
  PROVE  OrphanInv'
<1> DEFINE op == Head(opQueue)
<1>0. /\ opQueue # <<>> /\ opQueue' = Tail(opQueue)
      /\ UNCHANGED <<worker, ingestQueue, mode>>
  BY DEF Writer, WriteCheck, WriteStatus, WriteRequeue, WriteClaim, WritePark, Write, process
<1>1. op = opQueue[1] /\ op \in Op /\ 1 \in 1..Len(opQueue)
  BY <1>0, WrittenQueue DEF IInv, Types
<1>2. QueuesOK /\ AnswersOK /\ (Alive' => Alive)
  BY <1>0 DEF IInv, Types, Alive
<1>3. \A t \in Tracks : StatusSent(1, t) <=> op.kind = "status" /\ op.track = t
  BY <1>1 DEF StatusSent
<1>4. ASSUME UNCHANGED feeder PROVE \A t \in Tracks : HasRow(t) => HasRow(t)'
  BY <1>0, <1>4 DEF HasRow, TracksOf, Starting
<1>5. status \in [Tracks -> RowStatus \cup {"ABSENT"}]
  BY DEF IInv, Types, RowsOK
<1>6. CASE WriteCheck
  <2>1. SetStatus({t \in request[op.req].batch : Takes(op.req, t)}, "PENDING")
    BY <1>6 DEF WriteCheck
  <2>2. UNCHANGED feeder /\ op.kind = "check"
    BY <1>6 DEF WriteCheck, Write
  <2>3. \A t \in Tracks : status'[t] = "PENDING" \/ status'[t] = status[t]
    BY <2>1 DEF SetStatus
  <2> QED
    BY <1>0, <1>2, <1>3, <1>4, <2>2, <2>3, OwnersWritten
<1>7. CASE WriteStatus
  <2>1. /\ UNCHANGED feeder /\ op.kind = "status" /\ op.track \in Tracks
        /\ SetStatus({op.track} \cap {t \in Tracks : status[t] # "ABSENT"}, op.status)
    BY <1>1, <1>7, MessageShapes DEF WriteStatus, Write
  <2>2. op.status # "QUEUED"
    BY <1>1, <1>3, <2>1 DEF OrphanInv, NoQueuedSent
  <2>3. \A t \in Tracks :
           /\ t = op.track => status'[t] \in {op.status, "ABSENT"}
           /\ t # op.track => status'[t] = status[t]
    BY <2>1 DEF SetStatus
  <2>4. \A t \in Tracks : status'[t] = "QUEUED" => status[t] = "QUEUED" /\ ~StatusSent(1, t)
    BY <1>3, <2>2, <2>3
  <2>5. \A t \in Tracks : status'[t] = "RUNNING" =>
             \/ status[t] = "RUNNING" /\ ~StatusSent(1, t)
             \/ StatusSent(1, t) /\ opQueue[1].status = "RUNNING"
    BY <1>1, <1>3, <2>1, <2>3
  <2> QED
    BY <1>0, <1>2, <1>4, <2>1, <2>4, <2>5, OwnersWritten
<1>8. CASE WriteRequeue
  <2>1. /\ op.kind = "requeue" /\ FeederAt("retried") /\ feeder.pc = "retrying"
        /\ \A t \in Tracks : status'[t] = "PENDING" \/ status'[t] = status[t]
    BY <1>8, AnswerAwaited DEF WriteRequeue, Write, SetStatus, BooksInv, AskingPC
  <2>2. \A t \in Tracks : HasRow(t) => HasRow(t)'
    BY <1>0, <2>1 DEF HasRow, TracksOf, Starting, Holding
  <2>3. Asked(1)
    BY <1>1, <2>1 DEF Asked
  <2> QED
    BY <1>0, <1>2, <1>3, <2>1, <2>2, <2>3, OwnersWritten
<1>9. CASE WriteClaim
  <2>1. op.kind = "claim" /\ feeder.pc = "claiming" /\ Asked(1)
    BY <1>1, <1>9, AnswerAwaited DEF WriteClaim, Write, BooksInv, AskingPC, Asked
  <2>2. \A t \in Tracks : HasRow(t) => HasRow(t)'
    BY <1>0, <2>1 DEF HasRow, TracksOf, Starting, Holding
  <2>3. ASSUME NEW t \in Tracks, SetStatus({t}, "QUEUED"),
               feeder' = [feeder EXCEPT !.pc = "preflight",
                              !.task = [track |-> t, req |-> payload[t], snap |-> 0]]
        PROVE  OrphanInv'
    <3>1. feeder'.pc = "preflight" /\ feeder'.task.track = t
      BY <2>3 DEF IInv, Types, FeederOK
    <3>2. HasRow(t)'
      BY <3>1 DEF HasRow, Holding
    <3>3. \A u \in Tracks : u # t => status'[u] = status[u]
      BY <2>3 DEF SetStatus
    <3>4. status'[t] = "QUEUED"
      BY <2>3 DEF SetStatus
    <3> QED
      BY <1>0, <1>2, <1>3, <2>1, <2>2, <3>2, <3>3, <3>4, OwnersWritten
  <2>4. CASE UNCHANGED status
    BY <1>0, <1>2, <1>3, <2>1, <2>2, <2>4, OwnersWritten
  <2> QED
    BY <1>9, <2>3, <2>4 DEF WriteClaim, Pending
<1>10. CASE WritePark
  <2>1. op.kind = "park" /\ feeder.pc = "parking" /\ Asked(1) /\ feeder.task.track = op.track
    BY <1>1, <1>10, AnswerAwaited DEF WritePark, Write, BooksInv, AskingPC, Asked, OrphanInv,
       ParksItsTask
  <2>2. \A t \in Tracks : t # op.track => (HasRow(t) => HasRow(t)')
    BY <1>0, <2>1 DEF HasRow, TracksOf, Starting
  <2>3. \A t \in Tracks : /\ status'[t] = "FAILED_MAYBE_RETRY" \/ status'[t] = status[t]
                          /\ t = op.track => status'[t] # "QUEUED"
    BY <1>10 DEF WritePark, SetStatus
  <2> QED
    BY <1>0, <1>2, <1>3, <2>1, <2>2, <2>3, OwnersWritten
<1> QED
  BY <1>6, <1>7, <1>8, <1>9, <1>10 DEF Writer

\* The feeder lets go of a row with a status, with the row parked, or to a worker.
LEMMA FeederOwners ==
  ASSUME IInv, BooksInv, OrphanInv, Feeder
  PROVE  OrphanInv'
<1>0. /\ feeder \in [pc : FeederPC, task : Task \cup {None}, ready : Nat]
      /\ feeder.pc \in Holding => feeder.task.track \in Tracks
  BY DEF IInv, Types, FeederOK, Holding, Task
<1>1. /\ UNCHANGED <<status, ingestQueue, mode>> /\ (Alive' => Alive) /\ QueuesOK
  BY DEF Feeder, FeederWake, FeederReady, FeederTick, FeederLoop, FeederClaim, FeederPreflight,
         FeederReserve, FeederRecheck, Handoff, FeederAbandon, FeederExit, FeederStep, rows, process,
         Alive, IInv, Types
<1>2. ASSUME NEW pc, FeederAt(pc) PROVE feeder'.pc = pc /\ feeder'.task = feeder.task
  BY <1>0, <1>2 DEF FeederAt
<1>3. ASSUME NEW pc, FeederDrops(pc) PROVE feeder'.pc = pc /\ feeder'.task = None
  BY <1>0, <1>3 DEF FeederDrops
<1>4. ASSUME UNCHANGED worker
      PROVE  /\ \A t \in Tracks : AtWork(t) => AtWork(t)'
             /\ \A t \in Tracks : t \in TracksOf(Starting) => (t \in TracksOf(Starting))'
  BY <1>1, <1>4 DEF AtWork, TracksOf, Working, Starting
\* The feeder keeps its row.
<1>5. ASSUME UNCHANGED worker, feeder.pc \in Holding, feeder'.pc \in Holding,
             feeder'.task.track = feeder.task.track
      PROVE  \A t \in Tracks : HasRow(t) => HasRow(t)'
  BY <1>4, <1>5 DEF HasRow
\* The feeder drops its row with a status.
<1>6. ASSUME UNCHANGED worker, feeder.pc \in Holding \ {"parking"},
             NEW s \in RowStatus \ {"QUEUED", "RUNNING"}, Send(StatusOp(feeder.task.track, s))
      PROVE  OrphanInv'
  <2> DEFINE t == feeder.task.track
             op == StatusOp(t, s)
  <2>1. /\ op \in Op /\ op.kind = "status" /\ op.status = s /\ op.track = t
    BY <1>0, <1>6, Messages DEF StatusOp
  <2>2. \A u \in Tracks : HasRow(u) => HasRow(u)' \/ u = t
    BY <1>4, <1>6 DEF HasRow
  <2>3. Send(op)
    BY <1>6
  <2> HIDE DEF op, t
  <2> QED
    BY <1>1, <1>4, <1>6, <2>1, <2>2, <2>3, OwnersSent
\* The feeder asks for its row to be parked.
<1>7. ASSUME UNCHANGED worker, feeder.pc \in Holding \ {"parking"}, FeederAt("parking"),
             Send(ParkOp(feeder.task.track))
      PROVE  OrphanInv'
  <2> DEFINE t == feeder.task.track
             op == ParkOp(t)
  <2>1. op \in Op /\ op.kind = "park" /\ op.track = t
    BY <1>0, <1>7, Messages DEF ParkOp
  <2>2. feeder'.pc = "parking" /\ feeder'.task.track = t
    BY <1>2, <1>7
  <2>3. \A u \in Tracks : HasRow(u) => HasRow(u)'
    BY <1>5, <1>7, <2>2 DEF Holding
  <2>4. Send(op)
    BY <1>7
  <2> HIDE DEF op, t
  <2> QED
    BY <1>1, <1>4, <1>7, <2>1, <2>2, <2>3, <2>4, OwnersSent
<1>8. CASE FeederWake \/ FeederReady \/ FeederTick \/ FeederExit
  <2>1. /\ feeder.pc = "select" /\ UNCHANGED <<worker, opQueue>> /\ feeder'.pc \in {"loop", "gone"}
    BY <1>0, <1>2, <1>8 DEF FeederWake, FeederReady, FeederTick, FeederExit, FeederStep
  <2> QED
    BY <1>1, <2>1, OwnersAside DEF Holding
<1>9. CASE FeederLoop \/ FeederClaim
  <2>1. /\ feeder.pc \in {"loop", "retried"} /\ UNCHANGED worker
        /\ feeder'.pc \in {"retrying", "select", "claiming"}
        /\ UNCHANGED opQueue \/ Send(RequeueOp) \/ Send(ClaimOp)
    BY <1>2, <1>9 DEF FeederLoop, FeederClaim, FeederStep
  <2> QED
    BY <1>1, <2>1, OwnersAside, Messages DEF Holding
<1>10. CASE FeederPreflight
  <2> DEFINE t == feeder.task.track
  <2>1. feeder.pc = "preflight" /\ UNCHANGED worker
    BY <1>10 DEF FeederPreflight, FeederStep
  <2>2. CASE Send(StatusOp(t, "FAILED_MAYBE_RETRY")) \/ Send(StatusOp(t, "COMPLETED"))
    BY <1>6, <2>1, <2>2 DEF Holding, RowStatus
  <2>3. CASE /\ feeder' = [feeder EXCEPT !.pc = "reserve", !.task.snap = Snapshot(t)]
             /\ UNCHANGED opQueue
    <3>1. feeder.task \in Task
      BY <2>1 DEF IInv, Types, FeederOK
    <3>2. feeder'.pc = "reserve" /\ feeder'.task.track = t
      BY <1>0, <2>3, <3>1 DEF Task
    <3> QED
      BY <1>1, <1>4, <1>5, <2>1, <2>3, <3>2, OwnersQuiet DEF Holding
  <2> QED
    BY <1>10, <2>2, <2>3 DEF FeederPreflight
<1>11. CASE FeederReserve \/ FeederRecheck \/ FeederAbandon
  <2> DEFINE t == feeder.task.track
  <2>1. feeder.pc \in {"reserve", "recheck", "handoff"} /\ UNCHANGED worker
    BY <1>11 DEF FeederReserve, FeederRecheck, FeederAbandon, FeederStep
  <2>2. CASE Send(StatusOp(t, "FAILED")) \/ Send(StatusOp(t, "PENDING"))
    BY <1>6, <2>1, <2>2 DEF Holding, RowStatus
  <2>3. CASE Send(ParkOp(t)) /\ FeederAt("parking")
    BY <1>7, <2>1, <2>3 DEF Holding
  <2>4. CASE UNCHANGED opQueue /\ (FeederAt("recheck") \/ FeederAt("handoff"))
    BY <1>1, <1>2, <1>4, <1>5, <2>1, <2>4, OwnersQuiet DEF Holding
  <2> QED
    BY <1>11, <2>2, <2>3, <2>4 DEF FeederReserve, FeederRecheck, FeederAbandon
<1>12. ASSUME NEW w \in Workers, Handoff(w) PROVE OrphanInv'
  <2> DEFINE t == feeder.task.track
  <2>1. /\ feeder.pc = "handoff" /\ worker[w].pc = "waiting" /\ UNCHANGED opQueue
        /\ worker' = [worker EXCEPT ![w].pc = "begin", ![w].task = feeder.task]
    BY <1>12 DEF Handoff, FeederStep
  <2>2. /\ worker'[w].pc = "begin" /\ worker'[w].task = feeder.task
        /\ \A v \in Workers \ {w} : worker'[v] = worker[v]
    BY <2>1 DEF IInv, Types, WorkersOK
  <2>3. \A u \in Tracks : HasRow(u) => HasRow(u)'
    <3>1. t \in TracksOf(Starting)'
      BY <2>2 DEF TracksOf, Starting
    <3>2. \A v \in Starting : v \in Starting' /\ worker'[v] = worker[v]
      BY <2>1, <2>2 DEF Starting
    <3>3. \A u \in Tracks : u \in TracksOf(Starting) => u \in TracksOf(Starting)'
      BY <3>2 DEF TracksOf
    <3> QED
      BY <3>1, <3>3 DEF HasRow
  <2>4. \A u \in Tracks : AtWork(u) => AtWork(u)'
    <3>1. \A v \in Working : v \in Working' /\ worker'[v] = worker[v]
      BY <2>1, <2>2 DEF Working
    <3> QED
      BY <1>1, <3>1 DEF AtWork, TracksOf
  <2> QED
    BY <1>1, <2>1, <2>3, <2>4, OwnersQuiet
<1> QED
  BY <1>8, <1>9, <1>10, <1>11, <1>12 DEF Feeder

\* A worker lets go of a row with a settling status, or with its result in the ingest
\* queue.
LEMMA WorkerOwners ==
  ASSUME IInv, BooksInv, OrphanInv, NEW w \in Workers, Announce(w) \/ Leave(w) \/ Pipeline(w)
  PROVE  OrphanInv'
<1> DEFINE t == worker[w].task.track
<1>0. worker = [v \in Workers |-> worker[v]] /\ ingestQueue \in Seq(Task)
  BY DEF IInv, Types, WorkersOK, QueuesOK
<1>1. /\ UNCHANGED <<status, feeder, mode>> /\ (Alive' => Alive) /\ QueuesOK
  BY DEF Announce, Leave, Pipeline, Begin, HashCheck, Analyse, SendIngest,
         Cleanup, ReportCleanupFailure, WorkerStep, rows, process, Alive, IInv, Types
<1>2. ASSUME NEW pc, WorkerAt(w, pc)
      PROVE  /\ worker'[w].pc = pc /\ worker'[w].task = worker[w].task
             /\ \A v \in Workers \ {w} : worker'[v] = worker[v]
  <2>1. worker[w] \in [pc : WorkerPC, task : Task \cup {None}, ticket : BOOLEAN,
                       admitted : BOOLEAN]
    BY DEF IInv, Types, WorkersOK
  <2> QED
    BY <1>0, <1>2, <2>1 DEF WorkerAt
<1>3. worker[w].pc \in {"begin", "hash", "analyse", "send", "cleanup", "report"} => t \in Tracks
  BY DEF IInv, Types, WorkersOK, Task
\* What a step of one worker may take from the owners.
<1>4. ASSUME \A v \in Workers \ {w} : worker'[v] = worker[v], UNCHANGED ingestQueue
      PROVE  /\ worker[w].pc # "begin" => \A u \in Tracks : HasRow(u) => HasRow(u)'
             /\ \A u \in Tracks : HasRow(u) => HasRow(u)' \/ u = t
             /\ worker[w].pc \notin {"hash", "analyse", "send"} =>
                   \A u \in Tracks : AtWork(u) => AtWork(u)'
             /\ \A u \in Tracks : AtWork(u) => AtWork(u)' \/ u = t
  <2>1. \A v \in Starting : v = w \/ (v \in Starting' /\ worker'[v] = worker[v])
    BY <1>4 DEF Starting
  <2>2. \A v \in Working : v = w \/ (v \in Working' /\ worker'[v] = worker[v])
    BY <1>4 DEF Working
  <2>3. /\ worker[w].pc # "begin" => w \notin Starting
        /\ worker[w].pc \notin {"hash", "analyse", "send"} => w \notin Working
    BY DEF Starting, Working
  <2>4. /\ \A u \in Tracks : u \in TracksOf(Starting) =>
               u \in TracksOf(Starting)' \/ (u = t /\ worker[w].pc = "begin")
        /\ \A u \in Tracks : u \in TracksOf(Working) =>
               u \in TracksOf(Working)' \/ (u = t /\ worker[w].pc \in {"hash", "analyse", "send"})
    BY <2>1, <2>2, <2>3 DEF TracksOf
  <2> QED
    BY <1>1, <1>4, <2>4 DEF HasRow, AtWork
\* A worker that keeps at work, or was not at work.
<1>5. ASSUME \A v \in Workers \ {w} : worker'[v] = worker[v], UNCHANGED <<ingestQueue, opQueue>>,
             worker[w].pc # "begin",
             worker[w].pc \in {"hash", "analyse", "send"} =>
                worker'[w].pc \in {"hash", "analyse", "send"} /\ worker'[w].task = worker[w].task
      PROVE  OrphanInv'
  <2>1. worker[w].pc \in {"hash", "analyse", "send"} => AtWork(t)'
    BY <1>5 DEF AtWork, TracksOf, Working
  <2>2. \A u \in Tracks : AtWork(u) => AtWork(u)'
    BY <1>4, <1>5, <2>1
  <2> QED
    BY <1>1, <1>4, <1>5, <2>2, OwnersQuiet
\* A worker that lets go with a status.
<1>6. ASSUME \A v \in Workers \ {w} : worker'[v] = worker[v], UNCHANGED ingestQueue,
             t \in Tracks, worker[w].pc # "begin",
             NEW s \in RowStatus \ {"QUEUED", "RUNNING"}, Send(StatusOp(t, s))
      PROVE  OrphanInv'
  <2> DEFINE op == StatusOp(t, s)
  <2>1. op \in Op /\ op.kind = "status" /\ op.status = s /\ op.track = t
    BY <1>6, Messages DEF StatusOp
  <2>2. Send(op)
    BY <1>6
  <2> HIDE DEF op
  <2> QED
    BY <1>1, <1>4, <1>6, <2>1, <2>2, OwnersSent
<1>7. CASE Announce(w) \/ Leave(w)
  <2>1. /\ worker[w].pc \in {"idle", "waiting"} /\ UNCHANGED <<ingestQueue, opQueue>>
        /\ \E pc : WorkerAt(w, pc)
    BY <1>7 DEF Announce, Leave, WorkerStep
  <2> QED
    BY <1>2, <1>5, <2>1
<1>8. CASE Begin(w)
  <2> DEFINE op == StatusOp(t, "RUNNING")
  <2>1. /\ t \in Tracks /\ Send(op) /\ worker'[w].pc = "hash" /\ worker'[w].task = worker[w].task
        /\ \A v \in Workers \ {w} : worker'[v] = worker[v]
    BY <1>8, BeginAdmits DEF BooksInv
  <2>2. worker[w].pc = "begin" /\ UNCHANGED ingestQueue
    BY <1>8 DEF Begin, WorkerStep
  <2>3. op \in Op /\ op.kind = "status" /\ op.status = "RUNNING" /\ op.track = t
    BY <2>1, Messages DEF StatusOp, RowStatus
  <2>4. \A u \in Tracks : u = t => AtWork(u)'
    BY <2>1 DEF AtWork, TracksOf, Working
  <2>5. \A u \in Tracks : HasRow(u) => HasRow(u)' \/ op.track = u
    BY <1>4, <2>1, <2>2, <2>3
  <2>6. \A u \in Tracks : AtWork(u) => AtWork(u)'
    BY <1>4, <2>1, <2>2
  <2>7. \A u \in Tracks : op.track = u => AtWork(u)'
    BY <2>3, <2>4
  <2>8. Send(op)
    BY <2>1
  <2> HIDE DEF op
  <2> QED
    BY <1>1, <2>3, <2>5, <2>6, <2>7, <2>8, OwnersSent
<1>9. CASE HashCheck(w) \/ Analyse(w)
  <2>1. worker[w].pc \in {"hash", "analyse"} /\ UNCHANGED ingestQueue
    BY <1>9 DEF HashCheck, Analyse, WorkerStep
  <2>2. CASE (WorkerAt(w, "analyse") \/ WorkerAt(w, "send")) /\ UNCHANGED opQueue
    BY <1>2, <1>5, <2>1, <2>2
  <2>3. CASE /\ WorkerAt(w, "cleanup")
             /\ \E s \in {"COMPLETED", "FAILED", "FAILED_MAYBE_RETRY"} : Send(StatusOp(t, s))
    BY <1>2, <1>3, <1>6, <2>1, <2>3 DEF RowStatus
  <2> QED
    BY <1>9, <2>2, <2>3 DEF HashCheck, Analyse
<1>10. CASE SendIngest(w)
  <2>1. /\ worker[w].pc = "send" /\ ingestQueue' = Append(ingestQueue, worker[w].task)
        /\ WorkerAt(w, "cleanup") /\ UNCHANGED opQueue
    BY <1>10 DEF SendIngest, WorkerStep
  <2>2. worker[w].task \in Task
    BY <2>1 DEF IInv, Types, WorkersOK
  <2>3. /\ Len(ingestQueue') = Len(ingestQueue) + 1 /\ Len(ingestQueue) \in Nat
        /\ ingestQueue'[Len(ingestQueue) + 1] = worker[w].task
        /\ \A i \in 1..Len(ingestQueue) : ingestQueue'[i] = ingestQueue[i]
    BY <1>0, <2>1, <2>2
  <2>4. /\ \E i \in 1..Len(ingestQueue') : ingestQueue'[i].track = t
        /\ \A i \in 1..Len(ingestQueue) : i \in 1..Len(ingestQueue')
    <3>1. Len(ingestQueue) + 1 \in 1..Len(ingestQueue')
      BY <2>3
    <3> QED
      BY <2>3, <3>1
  <2>5. \A u \in Tracks : AtWork(u) => AtWork(u)'
    <3>1. \A v \in Working : v = w \/ (v \in Working' /\ worker'[v] = worker[v])
      BY <1>2, <2>1 DEF Working
    <3>2. \A u \in Tracks : u \in TracksOf(Working) => u \in TracksOf(Working)' \/ u = t
      BY <3>1 DEF TracksOf
    <3> QED
      BY <2>3, <2>4, <3>2 DEF AtWork
  <2>6. \A u \in Tracks : HasRow(u) => HasRow(u)'
    <3>1. \A v \in Starting : v \in Starting' /\ worker'[v] = worker[v]
      BY <1>2, <2>1 DEF Starting
    <3>2. \A u \in Tracks : u \in TracksOf(Starting) => u \in TracksOf(Starting)'
      BY <3>1 DEF TracksOf
    <3> QED
      BY <1>1, <3>2 DEF HasRow
  <2> QED
    BY <1>1, <2>1, <2>5, <2>6, OwnersQuiet
<1>11. CASE Cleanup(w)
  <2>1. worker[w].pc = "cleanup" /\ UNCHANGED <<ingestQueue, opQueue>>
    BY <1>11 DEF Cleanup, WorkerStep
  <2> QED
    BY <1>5, <1>11, <2>1, CleanupLeaves
<1>12. CASE ReportCleanupFailure(w)
  <2>1. /\ worker[w].pc = "report" /\ UNCHANGED ingestQueue /\ Send(StatusOp(t, "FAILED"))
        /\ worker' = [worker EXCEPT ![w] = IdleWorker]
    BY <1>12 DEF ReportCleanupFailure, WorkerStep
  <2>2. \A v \in Workers \ {w} : worker'[v] = worker[v]
    BY <1>0, <2>1
  <2> QED
    BY <1>3, <1>6, <2>1, <2>2 DEF RowStatus
<1> QED
  BY <1>7, <1>8, <1>9, <1>10, <1>11, <1>12 DEF Pipeline

\* The ingest worker settles the track whose result it takes.
LEMMA IngestOwners ==
  ASSUME IInv, OrphanInv, Ingest
  PROVE  OrphanInv'
<1> DEFINE t == Head(ingestQueue).track
<1>1. /\ ingestQueue # <<>> /\ ingestQueue' = Tail(ingestQueue)
      /\ UNCHANGED <<status, feeder, worker, mode>>
  BY DEF Ingest, IngestCommit, IngestConflict, IngestToDLQ, IngestFailed, IngestStep, rows, process
<1>2. PICK s \in RowStatus \ {"QUEUED", "RUNNING"} : Send(StatusOp(t, s))
  BY DEF Ingest, IngestCommit, IngestConflict, IngestToDLQ, IngestFailed, IngestStep, RowStatus
<1>3. /\ ingestQueue \in Seq(Task) /\ QueuesOK /\ (Alive' => Alive)
  BY <1>1 DEF IInv, Types, QueuesOK, Alive
<1>4. PICK n \in Nat \ {0} : n = Len(ingestQueue)
  BY <1>1, <1>3
<1>5. /\ Len(ingestQueue') = n - 1 /\ Head(ingestQueue) = ingestQueue[1]
      /\ \A i \in 1..(n - 1) : ingestQueue'[i] = ingestQueue[i + 1]
  BY <1>1, <1>3, <1>4
<1>6. t \in Tracks
  <2>1. Head(ingestQueue) \in Task
    BY <1>1, <1>3
  <2> QED
    BY <2>1 DEF Task
<1>7. \A u \in Tracks : AtWork(u) => AtWork(u)' \/ u = t
  <2> SUFFICES ASSUME NEW u \in Tracks, NEW i \in 1..n, ingestQueue[i].track = u, u # t
               PROVE  \E j \in 1..(n - 1) : ingestQueue'[j].track = u
    BY <1>1, <1>4, <1>5 DEF AtWork, TracksOf, Working
  <2>1. i # 1
    BY <1>5
  <2>2. i - 1 \in 1..(n - 1) /\ (i - 1) + 1 = i
    BY <2>1
  <2>3. ingestQueue'[i - 1] = ingestQueue[i]
    BY <1>5, <2>2
  <2> QED
    BY <2>2, <2>3
<1>8. \A u \in Tracks : HasRow(u) => HasRow(u)'
  BY <1>1 DEF HasRow, TracksOf, Starting
<1> DEFINE op == StatusOp(t, s)
<1>9. op \in Op /\ op.kind = "status" /\ op.status = s /\ op.track = t /\ Send(op)
  BY <1>2, <1>6, Messages DEF StatusOp
<1> HIDE DEF op, t
<1> QED
  BY <1>1, <1>3, <1>7, <1>8, <1>9, OwnersSent

LEMMA NextOwners ==
  ASSUME IInv, BooksInv, OrphanInv, [Next]_vars
  PROVE  OrphanInv'
<1>1. ASSUME UNCHANGED <<status, feeder, worker, ingestQueue, opQueue>>, Alive' => Alive
      PROVE  OrphanInv'
  <2>1. /\ \A t \in Tracks : HasRow(t) => HasRow(t)'
        /\ \A t \in Tracks : AtWork(t) => AtWork(t)'
    BY <1>1 DEF HasRow, AtWork, TracksOf, Starting, Working
  <2> QED
    BY <1>1, <2>1, OwnersQuiet
<1>2. CASE Stop \/ UNCHANGED vars
  BY <1>1, <1>2 DEF Stop, vars, rows, Alive
<1>3. CASE (\E h \in Hashes : ReplayDLQ(h)) \/ (\E t \in Tracks : Cool(t))
  BY <1>1, <1>3 DEF ReplayDLQ, Cool, rows, process, Alive
<1>4. CASE Exit \/ Crash
  <2>1. mode' = "down" /\ opQueue' = <<>>
    BY <1>4 DEF Exit, Crash, Die
  <2>2. ~Alive' /\ \A i \in 1..Len(opQueue') : FALSE
    BY <2>1 DEF Alive
  <2> QED
    BY <2>2 DEF OrphanInv, NoOrphanedRow, NoQueuedSent, RunningIsSettled, ParksItsTask
<1>5. CASE Restart
  <2>1. /\ UNCHANGED <<feeder, worker, ingestQueue, opQueue>>
        /\ \A t \in Tracks : status'[t] \notin {"QUEUED", "RUNNING"}
    BY <1>5 DEF Restart, ResetStaleTasks
  <2>2. \A t \in Tracks, i \in 1..Len(opQueue) :
           (StatusSent(i, t)' <=> StatusSent(i, t)) /\ (Settles(i, t)' <=> Settles(i, t))
    BY <2>1 DEF StatusSent, Settles
  <2>3. \A t \in Tracks : AtWork(t)' <=> AtWork(t)
    BY <2>1 DEF AtWork, TracksOf, Working
  <2>4. NoOrphanedRow'
    BY <2>1 DEF NoOrphanedRow
  <2>5. NoQueuedSent' /\ RunningIsSettled' /\ ParksItsTask'
    BY <2>1, <2>2, <2>3 DEF OrphanInv, NoQueuedSent, RunningIsSettled, ParksItsTask
  <2> QED
    BY <2>4, <2>5 DEF OrphanInv
<1>6. CASE \E w \in Workers : Announce(w) \/ Leave(w) \/ Pipeline(w)
  BY <1>6, WorkerOwners
<1>7. CASE \E r \in Requests :
              \/ \E batch \in SUBSET Tracks \ {{}}, forced \in BOOLEAN : Plan(r, batch, forced)
              \/ SendCheck(r) \/ Notify(r)
  BY <1>7, RequestOwners
<1>8. CASE Writer
  BY <1>8, WriterOwners
<1>9. CASE Feeder
  BY <1>9, FeederOwners
<1>10. CASE Ingest
  BY <1>10, IngestOwners
<1> QED
  BY <1>2, <1>3, <1>4, <1>5, <1>6, <1>7, <1>8, <1>9, <1>10 DEF Next

\* No QUEUED or RUNNING row is left without an owner that will settle it, whatever the
\* order of the statuses, whoever fails, and wherever a stop or a crash comes.
THEOREM RowsHaveOwners == Spec => []NoOrphanedRow
<1>1. Init => OrphanInv
  <2> SUFFICES ASSUME Init PROVE OrphanInv
    OBVIOUS
  <2>1. /\ \A t \in Tracks : status[t] = "ABSENT"
        /\ \A i \in 1..Len(opQueue) : FALSE
    BY DEF Init
  <2> QED
    BY <2>1 DEF OrphanInv, NoOrphanedRow, NoQueuedSent, RunningIsSettled, ParksItsTask
<1>2. IInv /\ BooksInv /\ OrphanInv /\ [Next]_vars => OrphanInv'
  BY NextOwners
<1>3. OrphanInv => NoOrphanedRow
  BY DEF OrphanInv
<1> QED
  BY <1>1, <1>2, <1>3, SpecIInv, SpecBooks, PTL DEF Spec
=============================================================================
