------------------------ MODULE StemWavefrontProofs ------------------------
(***************************************************************************)
(* The safety of the Demucs stage for any set of stems and lane consumers. *)
(***************************************************************************)
EXTENDS StemWavefront, FiniteSetTheorems, TLAPS

Working(c) == consumer[c].pc \in {"acquire", "arbiter", "run", "release"}

\* The reader has not been started.
Unstarted ==
    \/ pc \in {"alloc", "slot", "lease", "daemon", "wave", "arbiter"}
    \/ pc = "returned" /\ ~closed
\* Wait has returned.
Joined == pc \in {"cleanup", "cleaning", "finish"} \/ (pc = "returned" /\ closed)

\* What the stage holds, and what a defer would release, is a function of where it is.
Holds(rs) == \A r \in Resources : held[r] = IF r \in rs THEN 1 ELSE 0
HeldAt ==
    /\ pc = "alloc" => Holds({}) /\ deferred = {}
    /\ pc = "slot" => Holds({"arena"}) /\ deferred = {}
    /\ pc = "lease" => Holds({"arena", "slot"}) /\ deferred = {"slot"}
    /\ pc = "daemon" => Holds({"arena", "slot", "lease"}) /\ deferred = {"slot", "lease"}
    /\ pc \in {"wave", "arbiter"} => /\ Holds({"arena", "slot", "lease", "daemon"})
                                     /\ deferred = {"slot", "lease"}
    /\ pc \in {"separate", "release"} => Holds(Resources) /\ deferred = {"slot", "lease", "gpu"}
    /\ pc \in {"fail", "close", "wait", "cleanup", "finish"} => Holds({"arena"}) /\ deferred = {}
    /\ pc = "cleaning" => Holds({"arena", "gpu"}) /\ deferred = {}
    /\ pc = "returned" => /\ Holds(IF result = "ok" THEN {"arena"} ELSE {})
                          /\ deferred = {}

ArbiterAt == arbiter = "stage" <=> pc \in {"separate", "release", "cleaning"}
GPULane == consumer[GPUConsumer].pc = "run" => arbiter = GPUConsumer
ClosedAt == pc # "returned" => (closed <=> pc \in {"wait", "cleanup", "cleaning", "finish"})

\* Nobody works before the separation has started or after the join.
Lifetimes ==
    /\ Unstarted => /\ reader.pc = "off" /\ \A l \in Lanes : jobs[l] = <<>>
                    /\ \A c \in Consumers : ~Working(c)
    /\ Joined => \A c \in Consumers : consumer[c].pc = "gone"

\* A stem on its way to a reader is frozen.
Mapped ==
    /\ ~closed /\ reader.pc \in {"publish", "ready", "cpu", "gpu"} => reader.stem \in frozen
    /\ pc # "returned" => \A l \in Lanes : \A i \in 1..Len(jobs[l]) : jobs[l][i] \in frozen
    /\ \A c \in Consumers : Working(c) => consumer[c].stem \in frozen

\* The type invariant needs these to be inductive.
InHand ==
    /\ reader.pc \in {"freeze", "publish", "ready", "cpu", "gpu"} => reader.stem \in Stems
    /\ \A s \in Stems : stem[s].refs <= stem[s].acquired
    /\ \A c \in CPUConsumers : consumer[c].pc # "arbiter"

Places == HeldAt /\ ArbiterAt /\ GPULane /\ ClosedAt /\ Lifetimes
IInv == TypeOK /\ InHand /\ Places /\ Mapped

\* TypeOK and InHand by the variables they are about.
StageTypes ==
    /\ pc \in StagePC
    /\ arbiter \in {"stage", GPUConsumer, None} /\ closed \in BOOLEAN /\ frozen \subseteq Stems
    /\ sepErr \in ErrorClass \cup {None} /\ waveErr \in ErrorClass \cup {None}
    /\ cleanupErr \in {"error", None} /\ result \in ErrorClass \cup {"ok", None}
HoldTypes == held \in [Resources -> Int] /\ deferred \subseteq Resources
ReaderTypes ==
    /\ reader \in [pc : ReaderPC, stem : Stems \cup {None}, seen : SUBSET Stems]
    /\ answer \in [err : ErrorClass \cup {None}, stems : SUBSET Stems] \cup {None}
    /\ reader.pc \in {"freeze", "publish", "ready", "cpu", "gpu"} => reader.stem \in Stems
ContextTypes ==
    /\ done \subseteq {"demucs", "post", "wave"} /\ cause \in ErrorClass \cup {None}
    /\ afterFunc \in {"unset", "armed", "over"} /\ err \in ErrorClass \cup {None}
StemTypes ==
    /\ stem \in [Stems -> [state : StemState, refs : 0..2, acquired : 0..2]]
    /\ \A s \in Stems : stem[s].refs <= stem[s].acquired
WaveTypes ==
    /\ published \subseteq Stems /\ jobs \in [Lanes -> Seq(Stems)]
    /\ features \in [Lanes -> SUBSET Stems]
ConsumerTypes ==
    /\ consumer \in [Consumers -> [pc : ConsumerPC, stem : Stems \cup {None},
                                   err : ErrorClass \cup {None}]]
    /\ \A c \in CPUConsumers : consumer[c].pc # "arbiter"
BoundTypes == panicked \in BOOLEAN /\ faults \in 0..MaxFaults

LEMMA TypeParts ==
  TypeOK /\ InHand <=>
    StageTypes /\ HoldTypes /\ ReaderTypes /\ ContextTypes /\ StemTypes /\ WaveTypes
    /\ ConsumerTypes /\ BoundTypes
BY DEF TypeOK, InHand, StageTypes, HoldTypes, ReaderTypes, ContextTypes, StemTypes, WaveTypes,
       ConsumerTypes, BoundTypes, ReadersPerStem

\* Which steps change what.
LEMMA Frames ==
  ASSUME [Next]_vars
  PROVE  /\ Stage \/ FreezeStem \/ (\E c \in Consumers : AwaitArbiter(c) \/ Run(c))
            \/ UNCHANGED <<stage, arbiter, frozen, closed>>
         /\ AcquireArbiter \/ Reader \/ UNCHANGED daemon
         /\ Stage \/ RecordStem \/ (\E c \in Consumers : AcquireStem(c) \/ ReleaseStem(c))
            \/ FailAll \/ (\E e \in SUBSET {"demucs", "post", "wave"} : Expire(e))
            \/ UNCHANGED <<done, cause, afterFunc, err>>
         /\ PublishStem \/ (\E c \in Consumers : AcquireStem(c) \/ ReleaseStem(c)) \/ FailAll
            \/ UNCHANGED stem
         /\ RecordStem \/ (\E lane \in Lanes, there \in {"gpu", "read"} : SendJob(lane, there))
            \/ (\E c \in Consumers : TakeJob(c) \/ ReleaseStem(c))
            \/ UNCHANGED <<published, jobs, features>>
         /\ StartWave \/ (\E c \in Consumers : Consume(c)) \/ UNCHANGED consumer
<1>1. CASE Stage
  BY <1>1 DEF Stage, AllocateArena, AcquireSlot, ReserveLease, AcquireDaemon, StartWave,
     AcquireArbiter,
     Separated, ReleaseCapacity, FailWave, CloseInput, Wait, AcquireForCleanup, CleanupGPU,
     Finish, StageStep, daemon
<1>2. CASE Reader
  BY <1>2 DEF Reader, ReadEvent, ReadAnswer, FreezeStem, PublishStem, RecordStem, SendJob,
     ReaderStep, contexts, Lanes
<1>3. ASSUME NEW c \in Consumers, Consume(c) PROVE UNCHANGED daemon
  BY <1>3 DEF Consume, TakeJob, Quit, AcquireStem, AwaitArbiter, Run, ReleaseStem, ConsumerStep
<1>4. CASE \E c \in Consumers : Consume(c)
  BY <1>4, <1>3 DEF Consume, TakeJob, Quit, AcquireStem, AwaitArbiter, Run, ReleaseStem,
     ConsumerStep,
     contexts, stage
<1>5. CASE FailAll
  BY <1>5 DEF FailAll, stage, daemon, wave
<1>6. CASE Expire({"demucs"}) \/ Expire({"demucs", "post", "wave"})
  BY <1>6 DEF Expire, stage, daemon, wave
<1>7. CASE UNCHANGED vars
  BY <1>7 DEF vars, stage, daemon
<1> QED
  BY <1>1, <1>2, <1>4, <1>5, <1>6, <1>7 DEF Next

LEMMA ReaderMoves ==
  ASSUME ReaderTypes, NEW there \in ReaderPC, ReaderAt(there), UNCHANGED answer,
         reader.pc \in {"freeze", "publish", "ready", "cpu", "gpu"} \/ there = "read"
  PROVE  ReaderTypes'
BY DEF ReaderTypes, ReaderAt

LEMMA ReaderAnswers ==
  ASSUME ReaderTypes, NEW e \in ErrorClass \cup {None}, NEW ss \in SUBSET Stems, Answers(e, ss)
  PROVE  ReaderTypes'
<1>1. answer' \in [err : ErrorClass \cup {None}, stems : SUBSET Stems]
  BY DEF Answers
<1>2. reader' \in [pc : ReaderPC, stem : Stems \cup {None}, seen : SUBSET Stems]
      /\ reader'.pc = "gone"
  BY DEF Answers, ReaderTypes, ReaderPC
<1> QED
  BY <1>1, <1>2 DEF ReaderTypes

\* One consumer changes.
LEMMA ConsumerMoves ==
  ASSUME ConsumerTypes, NEW c \in Consumers,
         NEW r \in [pc : ConsumerPC, stem : Stems \cup {None}, err : ErrorClass \cup {None}],
         consumer' = [consumer EXCEPT ![c] = r], r.pc = "arbiter" => c \notin CPUConsumers
  PROVE  ConsumerTypes'
BY DEF ConsumerTypes, Consumers

LEMMA InHandWorks ==
  ASSUME IInv, NEW c \in Consumers, Working(c)
  PROVE  consumer[c].stem \in Stems
BY DEF IInv, Mapped, TypeOK

\* The stage, its arbiter and its arenas.
LEMMA StageTypesStep ==
  ASSUME IInv, [Next]_vars PROVE StageTypes'
<1> USE DEF IInv
<1>0. StageTypes /\ ReaderTypes /\ ContextTypes /\ ConsumerTypes
  BY TypeParts
<1>1. CASE AllocateArena
  BY <1>0, <1>1 DEF StageTypes, AllocateArena, StageStep, ReaderTypes, ContextTypes,
     Takes, TakesDeferred, Take, Goto, Return, stage, ErrorClass, StagePC
<1>2. CASE AcquireSlot
  BY <1>0, <1>2 DEF StageTypes, AcquireSlot, StageStep, ReaderTypes, ContextTypes, Takes,
     TakesDeferred,
     Take, Goto, Return, stage, ErrorClass, StagePC
<1>3. CASE ReserveLease
  BY <1>0, <1>3 DEF StageTypes, ReserveLease, StageStep, ReaderTypes, ContextTypes, Takes,
     TakesDeferred,
     Take, Goto, Return, stage, ErrorClass, StagePC
<1>4. CASE AcquireDaemon
  BY <1>0, <1>4 DEF StageTypes, AcquireDaemon, StageStep, ReaderTypes, ContextTypes,
     Takes, TakesDeferred, Take, Goto, Return, stage, ErrorClass, StagePC
<1>5. CASE AcquireArbiter
  BY <1>0, <1>5 DEF StageTypes, AcquireArbiter, StageStep, TakesDeferred, Take,
     Goto, Return, stage, ErrorClass, StagePC
<1>6. CASE Separated
  BY <1>0, <1>6 DEF StageTypes, Separated, StageStep, ReaderTypes, ContextTypes, Goto,
     stage, ErrorClass, StagePC
<1>7. CASE ReleaseCapacity
  BY <1>0, <1>7 DEF StageTypes, ReleaseCapacity, StageStep, ReaderTypes, ContextTypes,
     Goto, stage, ErrorClass, StagePC
<1>8. CASE FailWave
  BY <1>0, <1>8 DEF StageTypes, FailWave, StageStep, ReaderTypes, ContextTypes, Goto,
     stage, ErrorClass, StagePC
<1>9. CASE CloseInput
  BY <1>0, <1>9 DEF StageTypes, CloseInput, StageStep, ReaderTypes, ContextTypes, Goto,
     stage, ErrorClass, StagePC
<1>10. CASE Wait
  BY <1>0, <1>10 DEF StageTypes, Wait, StageStep, ReaderTypes, ContextTypes, Goto, stage,
     ErrorClass, StagePC
<1>11. CASE AcquireForCleanup
  BY <1>0, <1>11 DEF StageTypes, AcquireForCleanup, StageStep, Takes, Take, Goto, stage,
     ErrorClass, StagePC
<1>12. CASE CleanupGPU
  BY <1>0, <1>12 DEF StageTypes, CleanupGPU, StageStep, ReaderTypes, ContextTypes, Goto,
     stage, ErrorClass, StagePC
<1>13. CASE Finish
  BY <1>0, <1>13 DEF StageTypes, Finish, StageStep, ReaderTypes, ContextTypes, Return,
     stage, ErrorClass, StagePC
<1>14. CASE FreezeStem
  BY <1>0, <1>14 DEF StageTypes, FreezeStem, ReaderStep, stage, ReaderTypes
<1>15. ASSUME NEW c \in Consumers, AwaitArbiter(c) PROVE StageTypes'
  BY <1>0, <1>15, StemWavefrontAssumption DEF StageTypes, AwaitArbiter, ConsumerStep,
     ConsumerTypes, Consumers, stage
<1>16. ASSUME NEW c \in Consumers, Run(c) PROVE StageTypes'
  BY <1>0, <1>16, StemWavefrontAssumption DEF StageTypes, Run, ConsumerStep, stage
<1>17. CASE UNCHANGED <<stage, arbiter, frozen, closed>>
  BY <1>0, <1>17 DEF StageTypes, stage
<1>18. CASE StartWave
  BY <1>0, <1>18 DEF StageTypes, StartWave, StageStep, Goto, Return, ErrorClass, StagePC
<1> QED
  BY <1>1, <1>2, <1>3, <1>4, <1>5, <1>6, <1>7, <1>8, <1>9, <1>10, <1>11, <1>12, <1>13,
     <1>14, <1>15, <1>16, <1>17, <1>18, Frames DEF Stage

\* The reader and its answer.
LEMMA ReaderTypesStep ==
  ASSUME IInv, [Next]_vars PROVE ReaderTypes'
<1> USE DEF IInv
<1>0. ReaderTypes /\ ContextTypes
  BY TypeParts
<1>1. CASE AcquireArbiter
  BY <1>0, <1>1 DEF ReaderTypes, AcquireArbiter, ReaderPC
<1>2. CASE ReadEvent
  BY <1>0, <1>2 DEF ReaderTypes, ReadEvent, ReaderPC
<1>3. CASE ReadAnswer
  BY <1>0, <1>3, ReaderAnswers DEF ReadAnswer, ErrorClass
<1>4. CASE FreezeStem
  BY <1>0, <1>4, ReaderAnswers, ReaderMoves DEF FreezeStem, ReaderStep, ErrorClass, ReaderPC
<1>5. CASE PublishStem
  BY <1>0, <1>5, ReaderAnswers, ReaderMoves DEF PublishStem, ReaderStep, ErrorClass, ReaderPC
<1>6. CASE RecordStem
  BY <1>0, <1>6, ReaderAnswers, ReaderMoves
     DEF RecordStem, ReaderStep, ErrorClass, ReaderPC, ContextTypes
<1>7. ASSUME NEW lane \in Lanes, NEW there \in {"gpu", "read"}, SendJob(lane, there)
      PROVE  ReaderTypes'
  <2>1. CASE UNCHANGED <<reader, answer>>
    BY <1>0, <2>1 DEF ReaderTypes
  <2>2. CASE ReaderAt(there) /\ UNCHANGED answer
    BY <1>0, <1>7, <2>2, ReaderMoves DEF SendJob, ReaderStep, Lanes, ReaderPC
  <2>3. CASE Answers(cause, {})
    BY <1>0, <2>3, ReaderAnswers DEF ContextTypes
  <2> QED
    BY <1>7, <2>1, <2>2, <2>3 DEF SendJob
<1>8. CASE UNCHANGED daemon
  BY <1>0, <1>8 DEF ReaderTypes, daemon
<1> QED
  BY <1>1, <1>2, <1>3, <1>4, <1>5, <1>6, <1>7, <1>8, Frames DEF Reader, Lanes

\* The contexts, their cause and w.err.
LEMMA ContextTypesStep ==
  ASSUME IInv, [Next]_vars PROVE ContextTypes'
<1> USE DEF IInv
<1>0. ContextTypes /\ StageTypes /\ ConsumerTypes
  BY TypeParts
<1>1. CASE AllocateArena
  BY <1>0, <1>1 DEF ContextTypes, AllocateArena, StageTypes, Return, Takes, TakesDeferred, Take,
     Goto,
     contexts, Fail, Cancel, ErrorClass
<1>2. CASE AcquireSlot
  BY <1>0, <1>2 DEF ContextTypes, AcquireSlot, StageTypes, Return, Takes, TakesDeferred, Take,
     Goto, contexts,
     Fail, Cancel, ErrorClass
<1>3. CASE ReserveLease
  BY <1>0, <1>3 DEF ContextTypes, ReserveLease, StageTypes, Return, Takes, TakesDeferred, Take,
     Goto, contexts,
     Fail, Cancel, ErrorClass
<1>4. CASE AcquireDaemon
  BY <1>0, <1>4 DEF ContextTypes, AcquireDaemon, StageTypes, Return, Takes, TakesDeferred, Take,
     Goto,
     contexts, Fail, Cancel, ErrorClass
<1>5. CASE AcquireArbiter
  BY <1>0, <1>5 DEF ContextTypes, AcquireArbiter, StageTypes, Return, Takes, TakesDeferred,
     Take, Goto,
     contexts, Fail, Cancel, ErrorClass
<1>6. CASE Separated
  BY <1>0, <1>6 DEF ContextTypes, Separated, StageTypes, Return, Takes, TakesDeferred, Take,
     Goto, contexts,
     Fail, Cancel, ErrorClass
<1>7. CASE ReleaseCapacity
  BY <1>0, <1>7 DEF ContextTypes, ReleaseCapacity, StageTypes, Return, Takes, TakesDeferred,
     Take, Goto,
     contexts, Fail, Cancel, ErrorClass
<1>8. CASE FailWave
  BY <1>0, <1>8 DEF ContextTypes, FailWave, StageTypes, Return, Takes, TakesDeferred, Take,
     Goto, contexts,
     Fail, Cancel, ErrorClass
<1>9. CASE CloseInput
  BY <1>0, <1>9 DEF ContextTypes, CloseInput, StageTypes, Return, Takes, TakesDeferred, Take,
     Goto, contexts,
     Fail, Cancel, ErrorClass
<1>10. CASE Wait
  BY <1>0, <1>10 DEF ContextTypes, Wait, StageTypes, Return, Takes, TakesDeferred, Take, Goto,
     contexts, Fail,
     Cancel, ErrorClass
<1>11. CASE AcquireForCleanup
  BY <1>0, <1>11 DEF ContextTypes, AcquireForCleanup, StageTypes, Return, Takes, TakesDeferred,
     Take, Goto,
     contexts, Fail, Cancel, ErrorClass
<1>12. CASE CleanupGPU
  BY <1>0, <1>12 DEF ContextTypes, CleanupGPU, StageTypes, Return, Takes, TakesDeferred, Take,
     Goto, contexts,
     Fail, Cancel, ErrorClass
<1>13. CASE Finish
  BY <1>0, <1>13 DEF ContextTypes, Finish, StageTypes, Return, Takes, TakesDeferred, Take, Goto,
     contexts,
     Fail, Cancel, ErrorClass
<1>14. CASE RecordStem
  BY <1>0, <1>14 DEF ContextTypes, RecordStem, Fail, Cancel, contexts, ErrorClass
<1>15. CASE FailAll
  BY <1>0, <1>15 DEF ContextTypes, FailAll, wave, ErrorClass
<1>16. ASSUME NEW c \in Consumers, AcquireStem(c) PROVE ContextTypes'
  BY <1>0, <1>16, StemWavefrontAssumption DEF ContextTypes, AcquireStem, Fail, Cancel,
     contexts, ErrorClass
<1>17. ASSUME NEW c \in Consumers, ReleaseStem(c) PROVE ContextTypes'
  BY <1>0, <1>17, StemWavefrontAssumption DEF ContextTypes, ReleaseStem, Fail, Cancel,
     contexts, ConsumerTypes, ErrorClass
<1>18. ASSUME NEW e \in SUBSET {"demucs", "post", "wave"}, Expire(e) PROVE ContextTypes'
  BY <1>0, <1>18, StemWavefrontAssumption DEF ContextTypes, Expire, wave, ErrorClass
<1>19. CASE UNCHANGED <<done, cause, afterFunc, err>>
  BY <1>0, <1>19 DEF ContextTypes
<1>20. CASE StartWave
  BY <1>0, <1>20 DEF ContextTypes, StartWave, Return, ErrorClass
<1> QED
  BY <1>20, <1>1, <1>2, <1>3, <1>4, <1>5, <1>6, <1>7, <1>8, <1>9, <1>10, <1>11, <1>12, <1>13,
     <1>14, <1>15, <1>16, <1>17, <1>18, <1>19, Frames DEF Stage

\* The states and references of the stems.
LEMMA StemTypesStep ==
  ASSUME IInv, [Next]_vars PROVE StemTypes'
<1> USE DEF IInv
<1> DEFINE Kind == [state : StemState, refs : 0..2, acquired : 0..2]
<1>0. StemTypes /\ ReaderTypes /\ ConsumerTypes
  BY TypeParts
<1>1. CASE PublishStem
  BY <1>0, <1>1 DEF StemTypes, PublishStem, ReaderStep, ReaderTypes, StemState
<1>2. CASE FailAll
  <2>1. ASSUME NEW s \in Stems
        PROVE  stem'[s] \in Kind /\ stem'[s].refs <= stem'[s].acquired
    <3>1. stem[s] \in Kind /\ stem[s].refs <= stem[s].acquired
      BY <1>0 DEF StemTypes
    <3> DEFINE dropped == [state |-> "failed", refs |-> 0, acquired |-> stem[s].acquired]
    <3>2. stem'[s] = stem[s] \/ stem'[s] = dropped
      BY <1>2 DEF FailAll
    <3>3. dropped \in Kind
      BY <3>1 DEF StemState
    <3>4. dropped.refs <= dropped.acquired
      BY <3>1
    <3> HIDE DEF dropped
    <3> QED
      BY <3>1, <3>2, <3>3, <3>4
  <2>2. stem' = [s \in Stems |-> stem'[s]]
    BY <1>2 DEF FailAll
  <2> QED
    BY <2>1, <2>2 DEF StemTypes
<1>3. ASSUME NEW c \in Consumers, AcquireStem(c) PROVE StemTypes'
  <2>1. consumer[c].stem \in Stems
    BY <1>3, InHandWorks DEF AcquireStem, ConsumerStep, Working
  <2> QED
    BY <1>0, <1>3, <2>1 DEF StemTypes, AcquireStem, ReadersPerStem, StemState
<1>4. ASSUME NEW c \in Consumers, ReleaseStem(c) PROVE StemTypes'
  <2> DEFINE s == consumer[c].stem
  <2>1. s \in Stems /\ stem[s] \in Kind /\ stem[s].refs <= stem[s].acquired
    BY <1>0, <1>4, InHandWorks DEF ReleaseStem, ConsumerStep, Working, StemTypes
  <2>2. ASSUME Readable(s) PROVE Released(s) \in Kind /\ Released(s).refs <= Released(s).acquired
    <3>1. stem[s].refs - 1 \in 0..2 /\ stem[s].refs - 1 <= stem[s].acquired
      BY <2>1, <2>2 DEF Readable
    <3>2. Released(s) \in Kind
      BY <2>1, <3>1 DEF Released, StemState
    <3>3. Released(s).refs = stem[s].refs - 1 /\ Released(s).acquired = stem[s].acquired
      BY <2>1 DEF Released
    <3> QED
      BY <3>1, <3>2, <3>3
  <2>3. stem' = IF Readable(s) THEN [stem EXCEPT ![s] = Released(s)] ELSE stem
    BY <1>4 DEF ReleaseStem
  <2> HIDE DEF s
  <2> QED
    BY <1>0, <2>1, <2>2, <2>3 DEF StemTypes
<1>5. CASE UNCHANGED stem
  BY <1>0, <1>5 DEF StemTypes
<1> QED
  BY <1>1, <1>2, <1>3, <1>4, <1>5, Frames

\* The lanes, the published stems and their features.
LEMMA WaveTypesStep ==
  ASSUME IInv, [Next]_vars PROVE WaveTypes'
<1> USE DEF IInv
<1>0. WaveTypes /\ ReaderTypes /\ ConsumerTypes
  BY TypeParts
<1>1. CASE RecordStem
  BY <1>0, <1>1 DEF WaveTypes, RecordStem, ReaderStep, ReaderTypes, Lanes
<1>2. ASSUME NEW lane \in Lanes, NEW there \in {"gpu", "read"}, SendJob(lane, there)
      PROVE  WaveTypes'
  <2>1. reader.stem \in Stems /\ jobs[lane] \in Seq(Stems)
    BY <1>0, <1>2 DEF SendJob, ReaderStep, ReaderTypes, WaveTypes, Lanes
  <2>2. Append(jobs[lane], reader.stem) \in Seq(Stems)
    BY <2>1
  <2>3. jobs' = [jobs EXCEPT ![lane] = Append(jobs[lane], reader.stem)] \/ UNCHANGED jobs
    BY <1>2 DEF SendJob
  <2>4. UNCHANGED <<published, features>>
    BY <1>2 DEF SendJob, ReaderStep
  <2> QED
    BY <1>0, <2>2, <2>3, <2>4 DEF WaveTypes
<1>3. ASSUME NEW c \in Consumers, TakeJob(c) PROVE WaveTypes'
  <2>1. jobs[LaneOf(c)] \in Seq(Stems) /\ jobs[LaneOf(c)] # <<>> /\ LaneOf(c) \in Lanes
    BY <1>0, <1>3 DEF TakeJob, WaveTypes, LaneOf, Lanes
  <2>2. Tail(jobs[LaneOf(c)]) \in Seq(Stems)
    BY <2>1
  <2>3. jobs' = [jobs EXCEPT ![LaneOf(c)] = Tail(jobs[LaneOf(c)])]
        /\ UNCHANGED <<published, features>>
    BY <1>3 DEF TakeJob, ConsumerStep
  <2> QED
    BY <1>0, <2>1, <2>2, <2>3 DEF WaveTypes
<1>4. ASSUME NEW c \in Consumers, ReleaseStem(c) PROVE WaveTypes'
  <2>1. consumer[c].stem \in Stems
    BY <1>4, InHandWorks DEF ReleaseStem, ConsumerStep, Working
  <2> QED
    BY <1>0, <1>4, <2>1 DEF WaveTypes, ReleaseStem, ConsumerStep, LaneOf, Lanes
<1>5. CASE UNCHANGED <<published, jobs, features>>
  BY <1>0, <1>5 DEF WaveTypes
<1> QED
  BY <1>1, <1>2, <1>3, <1>4, <1>5, Frames

\* The consumers.
LEMMA ConsumerTypesStep ==
  ASSUME IInv, [Next]_vars PROVE ConsumerTypes'
<1> USE DEF IInv
<1> DEFINE Kind == [pc : ConsumerPC, stem : Stems \cup {None}, err : ErrorClass \cup {None}]
<1>0. ConsumerTypes /\ WaveTypes
  BY TypeParts
<1>1. CASE StartWave
  BY <1>0, <1>1 DEF StartWave, ConsumerTypes, IdleConsumer, ConsumerPC, Consumers
<1>2. ASSUME NEW c \in Consumers, Consume(c)
      PROVE  ConsumerTypes'
  <2>0. consumer[c] \in Kind
    BY <1>0 DEF ConsumerTypes
  <2>1. CASE TakeJob(c)
    <3>1. Head(jobs[LaneOf(c)]) \in Stems
      BY <1>0, <2>1 DEF TakeJob, WaveTypes, LaneOf, Lanes
    <3>2. [pc |-> "acquire", stem |-> Head(jobs[LaneOf(c)]), err |-> None] \in Kind
      BY <3>1 DEF ConsumerPC
    <3> QED
      BY <1>0, <2>1, <3>2, ConsumerMoves DEF TakeJob
  <2>2. CASE ConsumerEnds(c)
    BY <1>0, <2>2, ConsumerMoves DEF ConsumerEnds, IdleConsumer, ConsumerPC
  <2>3. CASE AcquireStem(c) /\ ~ConsumerEnds(c)
    <3>1. ConsumerAt(c, IF c = GPUConsumer THEN "arbiter" ELSE "run")
      BY <2>3 DEF AcquireStem
    <3> QED
      BY <1>0, <2>0, <3>1, StemWavefrontAssumption
         DEF ConsumerAt, ConsumerTypes, ConsumerPC, Consumers
  <2>4. ASSUME NEW e \in ErrorClass \cup {None}, RunEnds(c, e) PROVE ConsumerTypes'
    <3>1. [consumer[c] EXCEPT !.pc = "release", !.err = e] \in Kind
      BY <2>0 DEF ConsumerPC
    <3> QED
      BY <1>0, <2>4, <3>1, ConsumerMoves DEF RunEnds
  <2>5. CASE AwaitArbiter(c) /\ ConsumerAt(c, "run")
    BY <1>0, <2>0, <2>5 DEF ConsumerAt, ConsumerTypes, ConsumerPC, Consumers
  <2>6. CASE AwaitArbiter(c) /\ ~ConsumerAt(c, "run")
    BY <2>4, <2>6 DEF AwaitArbiter, ErrorClass
  <2>7. CASE Run(c)
    BY <2>4, <2>7 DEF Run, ErrorClass
  <2>8. CASE ReleaseStem(c) /\ ~ConsumerEnds(c)
    BY <1>0, <2>8, ConsumerMoves DEF ReleaseStem, IdleConsumer, ConsumerPC
  <2> QED
    BY <1>2, <2>1, <2>2, <2>3, <2>5, <2>6, <2>7, <2>8 DEF Consume, Quit
<1>3. CASE UNCHANGED consumer
  BY <1>0, <1>3 DEF ConsumerTypes
<1> QED
  BY <1>1, <1>2, <1>3, Frames

\* The bounded variables: a step counts one fault at most.
LEMMA BoundTypesStep ==
  ASSUME IInv, [Next]_vars PROVE BoundTypes'
<1> USE DEF IInv
<1>0. BoundTypes
  BY TypeParts
<1>1. faults' = faults \/ (faults < MaxFaults /\ faults' = faults + 1)
  <2>1. CASE Stage
    BY <2>1 DEF Stage, AllocateArena, AcquireSlot, ReserveLease, AcquireDaemon, StartWave,
       AcquireArbiter,
       Separated, ReleaseCapacity, FailWave, CloseInput, Wait, AcquireForCleanup, CleanupGPU,
       Finish, Fault, NoFault
  <2>2. CASE Reader
    BY <2>2 DEF Reader, ReadEvent, ReadAnswer, FreezeStem, PublishStem, RecordStem, SendJob,
       Fault, NoFault
  <2>3. CASE \E c \in Consumers : Consume(c)
    BY <2>3 DEF Consume, TakeJob, Quit, AcquireStem, AwaitArbiter, Run, ReleaseStem, Fault,
       NoFault
  <2>4. CASE FailAll \/ UNCHANGED vars
    BY <2>4 DEF FailAll, vars
  <2>5. CASE Expire({"demucs"}) \/ Expire({"demucs", "post", "wave"})
    BY <2>5 DEF Expire, Fault
  <2> QED
    BY <2>1, <2>2, <2>3, <2>4, <2>5 DEF Next
<1>2. panicked' \in BOOLEAN
  <2>1. CASE Stage
    BY <1>0, <2>1 DEF Stage, AllocateArena, AcquireSlot, ReserveLease, AcquireDaemon, StartWave,
       AcquireArbiter, Separated, ReleaseCapacity, FailWave, CloseInput, Wait,
       AcquireForCleanup, CleanupGPU, Finish, StageStep, BoundTypes
  <2>2. CASE Reader
    BY <1>0, <2>2 DEF Reader, ReadEvent, ReadAnswer, FreezeStem, PublishStem, RecordStem,
       SendJob, BoundTypes
  <2>3. CASE \E c \in Consumers : Consume(c)
    BY <1>0, <2>3 DEF Consume, TakeJob, Quit, AcquireStem, AwaitArbiter, Run, ReleaseStem,
       ConsumerStep, BoundTypes
  <2>4. CASE FailAll \/ UNCHANGED vars
    BY <1>0, <2>4 DEF FailAll, vars, BoundTypes
  <2>5. CASE Expire({"demucs"}) \/ Expire({"demucs", "post", "wave"})
    BY <1>0, <2>5 DEF Expire, BoundTypes
  <2> QED
    BY <2>1, <2>2, <2>3, <2>4, <2>5 DEF Next
<1> QED
  BY <1>0, <1>1, <1>2, StemWavefrontAssumption DEF BoundTypes

(***************************************************************************)
(* What the stage holds, step by step.                                     *)
(***************************************************************************)
LEMMA HoldsTaken ==
  ASSUME HoldTypes, NEW r \in Resources, NEW rs \in SUBSET Resources, Holds(rs), r \notin rs,
         Take(r)
  PROVE  /\ held' \in [Resources -> Int]
         /\ \A q \in Resources : held'[q] = IF q \in rs \cup {r} THEN 1 ELSE 0
BY DEF HoldTypes, Holds, Take

LEMMA HoldsReturned ==
  ASSUME HoldTypes, NEW e, NEW given \in SUBSET Resources, Return(e, given),
         NEW rs \in SUBSET Resources, Holds(rs),
         given \cap deferred = {}, deferred \subseteq rs, given \subseteq rs \cup {"arena"}
  PROVE  /\ held' \in [Resources -> Int] /\ deferred' = {}
         /\ \A r \in Resources :
               held'[r] = IF r \in rs /\ r \notin given \cup deferred THEN 1 ELSE 0
<1>1. /\ held' = [r \in Resources |-> held[r] - Less(Returnable(given), r) - Less(deferred, r)]
      /\ deferred' = {}
  BY DEF Return
<1>2. \A r \in Resources : held[r] \in Int /\ Less(deferred, r) \in Int
                           /\ Less(Returnable(given), r) \in Int
  BY DEF HoldTypes, Less
<1>3. Returnable(given) = given \cap rs
  <2>1. held["arena"] = IF "arena" \in rs THEN 1 ELSE 0
    BY DEF Holds, Resources
  <2>2. ArenaOpen <=> "arena" \in rs
    BY <2>1 DEF ArenaOpen
  <2> QED
    BY <2>2 DEF Returnable
<1>4. ASSUME NEW r \in Resources
      PROVE  held'[r] = IF r \in rs /\ r \notin given \cup deferred THEN 1 ELSE 0
  <2>1. held'[r] = held[r] - Less(given \cap rs, r) - Less(deferred, r)
    BY <1>1, <1>3
  <2> QED
    BY <2>1 DEF Less, Holds
<1> QED
  BY <1>1, <1>2, <1>4

LEMMA HoldsGivenBack ==
  ASSUME HoldTypes, NEW gs \in SUBSET Resources, GivesBack(gs),
         NEW rs \in SUBSET Resources, Holds(rs), gs \subseteq rs
  PROVE  /\ held' \in [Resources -> Int] /\ deferred' = deferred \ gs
         /\ \A r \in Resources : held'[r] = IF r \in rs \ gs THEN 1 ELSE 0
<1>1. held' = [r \in Resources |-> held[r] - Less(gs, r)] /\ deferred' = deferred \ gs
  BY DEF GivesBack
<1>2. \A r \in Resources : held[r] \in Int /\ Less(gs, r) \in Int
  BY DEF HoldTypes, Less
<1>3. ASSUME NEW r \in Resources PROVE held'[r] = IF r \in rs \ gs THEN 1 ELSE 0
  BY <1>1 DEF Less, Holds
<1> QED
  BY <1>1, <1>2, <1>3

\* An error return from a place where all that is held is given back or deferred.
LEMMA ErrorReturns ==
  ASSUME HoldTypes, NEW e \in ErrorClass, NEW given \in SUBSET Resources, Return(e, given),
         NEW rs \in SUBSET Resources, Holds(rs),
         given \cap deferred = {}, rs \subseteq given \cup deferred,
         deferred \subseteq rs, given \subseteq rs \cup {"arena"}
  PROVE  HoldTypes' /\ HeldAt'
<1>1. held' \in [Resources -> Int] /\ deferred' = {} /\ \A r \in Resources : held'[r] = 0
  BY HoldsReturned
<1>2. pc' = "returned" /\ result' # "ok"
  BY StemWavefrontAssumption DEF Return, ErrorClass
<1> QED
  BY <1>1, <1>2 DEF HoldTypes, HeldAt, Holds

LEMMA TakenAt ==
  ASSUME HoldTypes, NEW r \in Resources, NEW rs \in SUBSET Resources, Holds(rs), r \notin rs,
         Take(r), NEW qs, qs = rs \cup {r}
  PROVE  held' \in [Resources -> Int] /\ Holds(qs)'
BY HoldsTaken DEF Holds

LEMMA HoldsStep ==
  ASSUME IInv, [Next]_vars PROVE HoldTypes' /\ HeldAt'
<1>0. HoldTypes /\ HeldAt /\ Resources = {"arena", "slot", "lease", "daemon", "gpu"}
  BY TypeParts DEF IInv, Places, Resources
<1>1. CASE AllocateArena
  <2>1. pc = "alloc" /\ Holds({}) /\ deferred = {}
    BY <1>0, <1>1 DEF AllocateArena, StageStep, HeldAt
  <2>2. CASE Takes("arena", "slot")
    <3>1. held' \in [Resources -> Int] /\ Holds({"arena"})'
      BY <1>0, <2>1, <2>2, TakenAt DEF Takes
    <3> QED
      BY <2>1, <2>2, <3>1 DEF Takes, Goto, HoldTypes, HeldAt
  <2>3. CASE Return("error", {"arena"})
    BY <1>0, <2>1, <2>3, ErrorReturns DEF ErrorClass
  <2> QED
    BY <1>1, <2>2, <2>3 DEF AllocateArena
<1>2. CASE AcquireSlot
  <2>1. pc = "slot" /\ Holds({"arena"}) /\ deferred = {}
    BY <1>0, <1>2 DEF AcquireSlot, StageStep, HeldAt
  <2>2. CASE TakesDeferred("slot", "lease")
    <3>1. held' \in [Resources -> Int] /\ Holds({"arena", "slot"})'
      BY <1>0, <2>1, <2>2, TakenAt DEF TakesDeferred
    <3> QED
      BY <1>0, <2>1, <2>2, <3>1 DEF TakesDeferred, Goto, HoldTypes, HeldAt
  <2>3. CASE Return("retry", {"arena"})
    BY <1>0, <2>1, <2>3, ErrorReturns DEF ErrorClass
  <2> QED
    BY <1>2, <2>2, <2>3 DEF AcquireSlot
<1>3. CASE ReserveLease
  <2>1. pc = "lease" /\ Holds({"arena", "slot"}) /\ deferred = {"slot"}
    BY <1>0, <1>3 DEF ReserveLease, StageStep, HeldAt
  <2>2. CASE TakesDeferred("lease", "daemon")
    <3>1. held' \in [Resources -> Int] /\ Holds({"arena", "slot", "lease"})'
      BY <1>0, <2>1, <2>2, TakenAt DEF TakesDeferred
    <3> QED
      BY <1>0, <2>1, <2>2, <3>1 DEF TakesDeferred, Goto, HoldTypes, HeldAt
  <2>3. CASE Return("retry", {"arena"})
    BY <1>0, <2>1, <2>3, ErrorReturns DEF ErrorClass
  <2> QED
    BY <1>3, <2>2, <2>3 DEF ReserveLease
<1>4. CASE AcquireDaemon
  <2>1. pc = "daemon" /\ Holds({"arena", "slot", "lease"}) /\ deferred = {"slot", "lease"}
    BY <1>0, <1>4 DEF AcquireDaemon, StageStep, HeldAt
  <2>2. CASE Takes("daemon", "wave")
    <3>1. held' \in [Resources -> Int] /\ Holds({"arena", "slot", "lease", "daemon"})'
      BY <1>0, <2>1, <2>2, TakenAt DEF Takes
    <3> QED
      BY <1>0, <2>1, <2>2, <3>1 DEF Takes, Goto, HoldTypes, HeldAt
  <2>3. CASE Return("error", {"arena"})
    BY <1>0, <2>1, <2>3, ErrorReturns DEF ErrorClass
  <2> QED
    BY <1>4, <2>2, <2>3 DEF AcquireDaemon
<1>5. CASE StartWave
  <2>1. /\ pc = "wave" /\ Holds({"arena", "slot", "lease", "daemon"})
        /\ deferred = {"slot", "lease"}
    BY <1>0, <1>5 DEF StartWave, StageStep, HeldAt
  <2>2. CASE Goto("arbiter") /\ UNCHANGED <<held, deferred>>
    BY <1>0, <2>1, <2>2 DEF Goto, HoldTypes, HeldAt, Holds
  <2>3. CASE Return("error", {"daemon", "arena"})
    BY <1>0, <2>1, <2>3, ErrorReturns DEF ErrorClass
  <2> QED
    BY <1>5, <2>2, <2>3 DEF StartWave, holds
<1>6. CASE AcquireArbiter
  <2>1. /\ pc = "arbiter" /\ Holds({"arena", "slot", "lease", "daemon"})
        /\ deferred = {"slot", "lease"}
    BY <1>0, <1>6 DEF AcquireArbiter, StageStep, HeldAt
  <2>2. CASE TakesDeferred("gpu", "separate")
    <3>1. held' \in [Resources -> Int] /\ Holds(Resources)'
      BY <1>0, <2>1, <2>2, TakenAt DEF TakesDeferred
    <3> QED
      BY <1>0, <2>1, <2>2, <3>1 DEF TakesDeferred, Goto, HoldTypes, HeldAt
  <2>3. ASSUME NEW e \in ErrorClass, Return(e, {"daemon", "arena"})
        PROVE  HoldTypes' /\ HeldAt'
    BY <1>0, <2>1, <2>3, ErrorReturns
  <2> QED
    BY <1>6, <2>2, <2>3 DEF AcquireArbiter
<1>7. CASE ReleaseCapacity
  <2>1. /\ pc = "release" /\ Holds(Resources) /\ deferred = {"slot", "lease", "gpu"}
        /\ GivesBack({"gpu", "daemon", "slot", "lease"}) /\ Goto("fail")
    BY <1>0, <1>7 DEF ReleaseCapacity, StageStep, HeldAt
  <2>2. /\ held' \in [Resources -> Int] /\ deferred' = {}
        /\ \A r \in Resources : held'[r] = IF r \in {"arena"} THEN 1 ELSE 0
    BY <1>0, <2>1, HoldsGivenBack
  <2> QED
    BY <2>1, <2>2 DEF Goto, HoldTypes, HeldAt, Holds
<1>8. CASE AcquireForCleanup
  <2>1. pc = "cleanup" /\ Holds({"arena"}) /\ deferred = {}
    BY <1>0, <1>8 DEF AcquireForCleanup, StageStep, HeldAt
  <2>2. CASE Takes("gpu", "cleaning")
    <3>1. held' \in [Resources -> Int] /\ Holds({"arena", "gpu"})'
      BY <1>0, <2>1, <2>2, TakenAt DEF Takes
    <3> QED
      BY <1>0, <2>1, <2>2, <3>1 DEF Takes, Goto, HoldTypes, HeldAt
  <2>3. CASE Goto("finish") /\ UNCHANGED <<held, deferred>>
    BY <1>0, <2>1, <2>3 DEF Goto, HoldTypes, HeldAt, Holds
  <2> QED
    BY <1>8, <2>2, <2>3 DEF AcquireForCleanup, holds
<1>9. CASE CleanupGPU
  <2>1. /\ pc = "cleaning" /\ Holds({"arena", "gpu"}) /\ deferred = {}
        /\ GivesBack({"gpu"}) /\ Goto("finish")
    BY <1>0, <1>9 DEF CleanupGPU, StageStep, HeldAt
  <2>2. /\ held' \in [Resources -> Int] /\ deferred' = {}
        /\ \A r \in Resources : held'[r] = IF r \in {"arena"} THEN 1 ELSE 0
    BY <1>0, <2>1, HoldsGivenBack
  <2> QED
    BY <2>1, <2>2 DEF Goto, HoldTypes, HeldAt, Holds
<1>10. CASE Finish
  <2>1. pc = "finish" /\ Holds({"arena"}) /\ deferred = {}
    BY <1>0, <1>10 DEF Finish, StageStep, HeldAt
  <2>2. ASSUME NEW e \in ErrorClass, Return(e, {"arena"})
        PROVE  HoldTypes' /\ HeldAt'
    BY <1>0, <2>1, <2>2, ErrorReturns
  <2>3. CASE Return(None, {})
    <3>1. /\ held' \in [Resources -> Int] /\ deferred' = {}
          /\ \A r \in Resources : held'[r] = IF r \in {"arena"} THEN 1 ELSE 0
      BY <1>0, <2>1, <2>3, HoldsReturned
    <3>2. pc' = "returned" /\ result' = "ok"
      BY <2>3 DEF Return
    <3> QED
      BY <3>1, <3>2 DEF HoldTypes, HeldAt, Holds
  <2>4. sepErr \in ErrorClass \cup {None} /\ waveErr \in ErrorClass \cup {None}
    BY TypeParts DEF IInv, StageTypes
  <2> QED
    BY <1>10, <2>2, <2>3, <2>4 DEF Finish, ErrorClass
<1>11. CASE Separated \/ FailWave \/ CloseInput \/ Wait
  BY <1>0, <1>11 DEF Separated, FailWave, CloseInput, Wait, StageStep, holds, Goto, HoldTypes,
     HeldAt, Holds
<1>12. CASE UNCHANGED stage
  BY <1>0, <1>12 DEF stage, HoldTypes, HeldAt, Holds
<1>13. Stage \/ UNCHANGED stage
  <2>1. CASE Reader
    BY <2>1 DEF Reader, ReadEvent, ReadAnswer, FreezeStem, PublishStem, RecordStem, SendJob,
       ReaderStep
  <2>2. CASE \E c \in Consumers : Consume(c)
    BY <2>2 DEF Consume, TakeJob, Quit, AcquireStem, AwaitArbiter, Run, ReleaseStem, ConsumerStep
  <2>3. CASE FailAll \/ Expire({"demucs"}) \/ Expire({"demucs", "post", "wave"}) \/ UNCHANGED vars
    BY <2>3 DEF FailAll, Expire, vars, stage
  <2> QED
    BY <2>1, <2>2, <2>3 DEF Next
<1> QED
  BY <1>1, <1>2, <1>3, <1>4, <1>5, <1>6, <1>7, <1>8, <1>9, <1>10, <1>11, <1>12, <1>13 DEF Stage

LEMMA TypeStep ==
  ASSUME IInv, [Next]_vars PROVE TypeOK' /\ InHand'
<1>1. (TypeOK /\ InHand)' <=>
        (StageTypes /\ HoldTypes /\ ReaderTypes /\ ContextTypes /\ StemTypes /\ WaveTypes
         /\ ConsumerTypes /\ BoundTypes)'
  BY TypeParts, PTL
<1> QED
  BY <1>1, StageTypesStep, HoldsStep, ReaderTypesStep, ContextTypesStep, StemTypesStep,
     WaveTypesStep,
     ConsumerTypesStep, BoundTypesStep

\* Who has the arbiter and whether the lanes are closed goes with where the stage is.
LEMMA PlacesStep ==
  ASSUME IInv, [Next]_vars PROVE ArbiterAt' /\ ClosedAt'
<1> USE DEF IInv
<1>0. HeldAt /\ ArbiterAt /\ ClosedAt /\ StageTypes /\ ContextTypes /\ ConsumerTypes
  BY TypeParts DEF Places
<1>1. CASE AllocateArena
  BY <1>0, <1>1, StemWavefrontAssumption DEF AllocateArena, StageStep, HeldAt, ArbiterAt,
     ClosedAt, Takes, TakesDeferred, Take, Goto, Return, StageTypes, ErrorClass
<1>2. CASE AcquireSlot
  BY <1>0, <1>2, StemWavefrontAssumption DEF AcquireSlot, StageStep, HeldAt, ArbiterAt,
     ClosedAt, Takes, TakesDeferred, Take, Goto, Return, StageTypes, ErrorClass
<1>3. CASE ReserveLease
  BY <1>0, <1>3, StemWavefrontAssumption DEF ReserveLease, StageStep, HeldAt, ArbiterAt,
     ClosedAt, Takes, TakesDeferred, Take, Goto, Return, StageTypes, ErrorClass
<1>4. CASE AcquireDaemon
  BY <1>0, <1>4, StemWavefrontAssumption DEF AcquireDaemon, StageStep, HeldAt, ArbiterAt,
     ClosedAt, Takes, TakesDeferred, Take, Goto, Return, StageTypes, ErrorClass
<1>5. CASE AcquireArbiter
  BY <1>0, <1>5, StemWavefrontAssumption DEF AcquireArbiter, StageStep, HeldAt, ArbiterAt,
     ClosedAt, TakesDeferred, Goto, Return, StageTypes, ErrorClass
<1>6. CASE Separated
  BY <1>0, <1>6, StemWavefrontAssumption DEF Separated, StageStep, HeldAt, ArbiterAt,
     ClosedAt, Goto, StageTypes, ErrorClass
<1>7. CASE ReleaseCapacity
  BY <1>0, <1>7, StemWavefrontAssumption DEF ReleaseCapacity, StageStep, HeldAt,
     ArbiterAt, ClosedAt, Goto, StageTypes, ErrorClass
<1>8. CASE FailWave
  BY <1>0, <1>8, StemWavefrontAssumption DEF FailWave, StageStep, HeldAt, ArbiterAt,
     ClosedAt, Goto, StageTypes, ErrorClass
<1>9. CASE CloseInput
  BY <1>0, <1>9, StemWavefrontAssumption DEF CloseInput, StageStep, HeldAt, ArbiterAt,
     ClosedAt, Goto, StageTypes, ErrorClass
<1>10. CASE Wait
  BY <1>0, <1>10, StemWavefrontAssumption DEF Wait, StageStep, HeldAt, ArbiterAt,
     ClosedAt, Goto, StageTypes, ErrorClass
<1>11. CASE AcquireForCleanup
  BY <1>0, <1>11, StemWavefrontAssumption DEF AcquireForCleanup, StageStep, HeldAt,
     ArbiterAt, ClosedAt, Takes, Goto, StageTypes, ErrorClass
<1>12. CASE CleanupGPU
  BY <1>0, <1>12, StemWavefrontAssumption DEF CleanupGPU, StageStep, HeldAt, ArbiterAt,
     ClosedAt, Goto, StageTypes, ErrorClass
<1>13. CASE Finish
  BY <1>0, <1>13, StemWavefrontAssumption DEF Finish, StageStep, HeldAt, ArbiterAt,
     ClosedAt, Return, StageTypes, ErrorClass
<1>14. CASE FreezeStem
  BY <1>0, <1>14 DEF FreezeStem, ReaderStep, stage, ArbiterAt, ClosedAt
<1>15. ASSUME NEW c \in Consumers, AwaitArbiter(c) \/ Run(c)
       PROVE  ArbiterAt' /\ ClosedAt'
  <2>1. UNCHANGED <<pc, closed>>
    BY <1>15 DEF AwaitArbiter, Run, ConsumerStep, stage
  <2>2. arbiter' = "stage" <=> arbiter = "stage"
    <3>1. CASE AwaitArbiter(c)
      BY <1>0, <3>1, StemWavefrontAssumption
         DEF AwaitArbiter, ConsumerStep, ConsumerTypes, Consumers
    <3>2. CASE Run(c)
      BY <1>0, <3>2, StemWavefrontAssumption DEF Run, ConsumerStep, GPULane, Places
    <3> QED
      BY <1>15, <3>1, <3>2
  <2> QED
    BY <1>0, <2>1, <2>2 DEF ArbiterAt, ClosedAt
<1>16. CASE UNCHANGED <<stage, arbiter, frozen, closed>>
  BY <1>0, <1>16 DEF stage, ArbiterAt, ClosedAt
<1>17. CASE StartWave
  BY <1>0, <1>17, StemWavefrontAssumption DEF StartWave, StageStep, HeldAt, ArbiterAt, ClosedAt,
     Goto, Return
<1> QED
  BY <1>17, <1>1, <1>2, <1>3, <1>4, <1>5, <1>6, <1>7, <1>8, <1>9, <1>10, <1>11, <1>12, <1>13, <1>14,
     <1>15, <1>16, Frames DEF Stage

\* The GPU consumer runs with the arbiter only.
LEMMA LaneStep ==
  ASSUME IInv, [Next]_vars PROVE GPULane'
<1> USE DEF IInv
<1>0. GPULane /\ ArbiterAt /\ HeldAt /\ ConsumerTypes /\ GPUConsumer \in Consumers
  BY TypeParts DEF Places, Consumers
<1>1. CASE Stage
  <2>0. ASSUME NEW e, NEW given, Return(e, given), UNCHANGED consumer,
               pc \in {"alloc", "slot", "lease", "daemon", "wave", "arbiter", "finish"}
        PROVE  GPULane'
    BY <1>0, <2>0 DEF Return, HeldAt, GPULane
  <2>1. CASE StartWave
    BY <1>0, <2>0, <2>1 DEF StartWave, StageStep, IdleConsumer, GPULane
  <2>2. CASE AcquireArbiter
    BY <1>0, <2>0, <2>2, StemWavefrontAssumption DEF AcquireArbiter, StageStep, GPULane
  <2>3. CASE ReleaseCapacity
    BY <1>0, <2>3, StemWavefrontAssumption
       DEF ReleaseCapacity, StageStep, GPULane, ArbiterAt
  <2>4. CASE AcquireForCleanup
    BY <1>0, <2>4, StemWavefrontAssumption DEF AcquireForCleanup, GPULane
  <2>5. CASE CleanupGPU
    BY <1>0, <2>5, StemWavefrontAssumption DEF CleanupGPU, StageStep, GPULane, ArbiterAt
  <2>6. CASE UNCHANGED <<arbiter, consumer>>
    BY <1>0, <2>6 DEF GPULane
  <2>7. CASE AllocateArena \/ AcquireSlot \/ ReserveLease \/ AcquireDaemon \/ Finish
    BY <2>7, <2>0, <2>6 DEF AllocateArena, AcquireSlot, ReserveLease, AcquireDaemon, Finish,
       StageStep
  <2>8. CASE Separated \/ FailWave \/ CloseInput \/ Wait
    BY <2>8, <2>6 DEF Separated, FailWave, CloseInput, Wait
  <2> QED
    BY <1>1, <2>1, <2>2, <2>3, <2>4, <2>5, <2>7, <2>8 DEF Stage
<1>2. ASSUME NEW c \in Consumers, Consume(c) PROVE GPULane'
  <2>1. CASE c # GPUConsumer
    <3>1. consumer'[GPUConsumer] = consumer[GPUConsumer]
      BY <1>0, <1>2, <2>1 DEF Consume, TakeJob, Quit, AcquireStem, AwaitArbiter, Run,
         ReleaseStem, ConsumerAt, ConsumerEnds, RunEnds, ConsumerTypes
    <3>2. arbiter' = arbiter
      BY <1>0, <1>2, <2>1 DEF Consume, TakeJob, Quit, AcquireStem, AwaitArbiter, Run,
         ReleaseStem, ConsumerStep, ConsumerTypes, Consumers
    <3> QED
      BY <1>0, <3>1, <3>2 DEF GPULane
  <2>2. CASE c = GPUConsumer
    <3>1. consumer'[c].pc # "run" \/ (AwaitArbiter(c) /\ arbiter' = c)
      <4>1. CASE AcquireStem(c)
        BY <1>0, <2>2, <4>1 DEF AcquireStem, ConsumerAt, ConsumerEnds, ConsumerTypes, IdleConsumer
      <4>2. CASE AwaitArbiter(c)
        <5>1. ASSUME NEW e, RunEnds(c, e) PROVE consumer'[c].pc = "release"
          BY <1>0, <5>1 DEF RunEnds, ConsumerTypes
        <5> QED
          BY <4>2, <5>1 DEF AwaitArbiter
      <4>3. CASE Run(c)
        BY <1>0, <4>3 DEF Run, RunEnds, ConsumerTypes
      <4>4. CASE ReleaseStem(c)
        BY <1>0, <4>4 DEF ReleaseStem, ConsumerEnds, ConsumerTypes, IdleConsumer
      <4>5. CASE TakeJob(c) \/ Quit(c)
        BY <1>0, <4>5 DEF TakeJob, Quit, ConsumerEnds, ConsumerTypes, IdleConsumer
      <4> QED
        BY <1>2, <4>1, <4>2, <4>3, <4>4, <4>5 DEF Consume
    <3> QED
      BY <2>2, <3>1 DEF GPULane
  <2> QED
    BY <2>1, <2>2
<1>3. CASE Reader \/ FailAll \/ Expire({"demucs"}) \/ Expire({"demucs", "post", "wave"})
           \/ UNCHANGED vars
  BY <1>0, <1>3 DEF Reader, ReadEvent, ReadAnswer, FreezeStem, PublishStem, RecordStem, SendJob,
     ReaderStep, FailAll, Expire, vars, GPULane
<1> QED
  BY <1>1, <1>2, <1>3 DEF Next

LEMMA LifetimesStep ==
  ASSUME IInv, [Next]_vars PROVE Lifetimes'
<1> USE DEF IInv
<1>0. Lifetimes /\ ClosedAt /\ StageTypes /\ ConsumerTypes /\ WaveTypes
  BY TypeParts DEF Places
<1>1. CASE Stage
  <2>0. UNCHANGED jobs
    BY <1>1 DEF Stage, AllocateArena, AcquireSlot, ReserveLease, AcquireDaemon, StartWave,
       AcquireArbiter,
       Separated, ReleaseCapacity, FailWave, CloseInput, Wait, AcquireForCleanup, CleanupGPU,
       Finish, StageStep
  <2>1. CASE AllocateArena \/ AcquireSlot \/ ReserveLease \/ AcquireDaemon
    BY <1>0, <2>0, <2>1 DEF AllocateArena, AcquireSlot, ReserveLease, AcquireDaemon, StageStep,
       Takes, TakesDeferred, Take, Goto,
       Return, daemon, Lifetimes, Unstarted, Joined, Working, ClosedAt
  <2>2. CASE StartWave
    BY <1>0, <2>0, <2>2 DEF StartWave, StageStep, Goto, Return, daemon, IdleConsumer,
       Lifetimes, Unstarted, Joined, Working, ClosedAt
  <2>3. CASE AcquireArbiter
    BY <1>0, <2>0, <2>3 DEF AcquireArbiter, StageStep, TakesDeferred, Goto, Return, Lifetimes,
       Unstarted,
       Joined, Working, ClosedAt
  <2>4. CASE Separated \/ ReleaseCapacity \/ FailWave \/ CloseInput
    BY <1>0, <2>4 DEF Separated, ReleaseCapacity, FailWave, CloseInput, StageStep, Goto,
       Lifetimes, Unstarted, Joined
  <2>5. CASE Wait
    BY <2>5 DEF Wait, Goto, Lifetimes, Unstarted, Joined
  <2>6. CASE AcquireForCleanup \/ CleanupGPU
    BY <1>0, <2>6 DEF AcquireForCleanup, CleanupGPU, StageStep, Takes, Goto, Lifetimes, Unstarted,
       Joined
  <2>7. CASE Finish
    BY <1>0, <2>7 DEF Finish, StageStep, Return, Lifetimes, Unstarted, Joined, ClosedAt
  <2> QED
    BY <1>1, <2>1, <2>2, <2>3, <2>4, <2>5, <2>6, <2>7 DEF Stage
<1>2. CASE Reader
  <2>1. reader.pc # "off" /\ UNCHANGED <<pc, closed, consumer>>
    BY <1>2 DEF Reader, ReadEvent, ReadAnswer, FreezeStem, PublishStem, RecordStem, SendJob,
       ReaderStep, stage
  <2> QED
    BY <1>0, <2>1 DEF Lifetimes, Unstarted, Joined
<1>3. ASSUME NEW c \in Consumers, Consume(c) PROVE Lifetimes'
  <2>1. UNCHANGED <<pc, closed, reader>> /\ consumer[c].pc # "gone"
    BY <1>3 DEF Consume, TakeJob, Quit, AcquireStem, AwaitArbiter, Run, ReleaseStem,
       ConsumerStep, stage, daemon
  <2>2. ~Joined /\ ~Joined'
    BY <1>0, <2>1 DEF Lifetimes, Joined
  <2>3. ASSUME Unstarted PROVE UNCHANGED jobs /\ ConsumerEnds(c)
    <3>1. ~Working(c) /\ \A l \in Lanes : jobs[l] = <<>>
      BY <1>0, <2>3 DEF Lifetimes
    <3>2. Quit(c)
      BY <1>3, <3>1 DEF Consume, TakeJob, AcquireStem, AwaitArbiter, Run, ReleaseStem,
         ConsumerStep, Working, LaneOf, Lanes
    <3> QED
      BY <3>2 DEF Quit
  <2> QED
    BY <1>0, <2>1, <2>2, <2>3 DEF Lifetimes, Unstarted, Working, ConsumerEnds, IdleConsumer,
       ConsumerTypes
<1>4. CASE FailAll \/ Expire({"demucs"}) \/ Expire({"demucs", "post", "wave"}) \/ UNCHANGED vars
  BY <1>0, <1>4 DEF FailAll, Expire, vars, stage, daemon, wave, Lifetimes, Unstarted, Joined,
     Working
<1> QED
  BY <1>1, <1>2, <1>3, <1>4 DEF Next

\* Nothing is unfrozen but by a return, when nobody works.
LEMMA MappedStep ==
  ASSUME IInv, [Next]_vars PROVE Mapped'
<1> USE DEF IInv
<1>0. Mapped /\ Lifetimes /\ HeldAt /\ ClosedAt
      /\ StageTypes /\ ReaderTypes /\ ConsumerTypes /\ WaveTypes
  BY TypeParts DEF Places
<1>1. CASE Stage
  <2>1. UNCHANGED jobs
    BY <1>1 DEF Stage, AllocateArena, AcquireSlot, ReserveLease, AcquireDaemon, StartWave,
       AcquireArbiter,
       Separated, ReleaseCapacity, FailWave, CloseInput, Wait, AcquireForCleanup, CleanupGPU,
       Finish, StageStep
  <2>2. CASE AllocateArena \/ AcquireSlot \/ ReserveLease \/ AcquireDaemon
    BY <1>0, <2>1, <2>2 DEF AllocateArena, AcquireSlot, ReserveLease, AcquireDaemon, StageStep,
       Takes, TakesDeferred, Take, Goto,
       Return, daemon, Lifetimes, Unstarted, Mapped, Working
  <2>3. CASE StartWave
    BY <1>0, <2>1, <2>3 DEF StartWave, StageStep, Goto, Return, daemon, IdleConsumer,
       Lifetimes, Unstarted, Mapped, Working
  <2>4. CASE AcquireArbiter
    BY <1>0, <2>1, <2>4 DEF AcquireArbiter, StageStep, TakesDeferred, Goto, Return, Lifetimes,
       Unstarted,
       Mapped, Working, ReaderTypes
  <2>5. CASE Separated \/ ReleaseCapacity \/ FailWave \/ CloseInput \/ Wait
             \/ AcquireForCleanup \/ CleanupGPU
    BY <1>0, <2>1, <2>5 DEF Separated, ReleaseCapacity, FailWave, CloseInput, Wait,
       AcquireForCleanup, CleanupGPU, StageStep, Takes, Goto, daemon, Mapped, Working
  <2>6. CASE Finish
    BY <1>0, <2>1, <2>6 DEF Finish, StageStep, Return, daemon, Lifetimes, Joined, ClosedAt,
       Mapped, Working
  <2> QED
    BY <1>1, <2>2, <2>3, <2>4, <2>5, <2>6 DEF Stage
<1>2. CASE Reader
  <2>0. UNCHANGED <<pc, closed, consumer>> /\ frozen \subseteq frozen'
    BY <1>2 DEF Reader, ReadEvent, ReadAnswer, FreezeStem, PublishStem, RecordStem, SendJob,
       ReaderStep, stage
  <2>1. CASE ReadEvent
    BY <1>0, <2>0, <2>1 DEF ReadEvent, Mapped, Working
  <2>2. CASE ReadAnswer
    BY <1>0, <2>0, <2>2 DEF ReadAnswer, Answers, Mapped, Working, ReaderTypes
  <2>3. CASE FreezeStem
    <3>1. pc = "returned" \/ ArenaOpen
      BY <1>0, <2>3 DEF FreezeStem, ReaderStep, HeldAt, Holds, Resources, ArenaOpen, StageTypes,
         StagePC,
         Lifetimes, Unstarted
    <3>2. ~ArenaOpen => closed
      BY <1>0, <2>3, <3>1 DEF FreezeStem, ReaderStep, Lifetimes, Unstarted
    <3>3. reader'.pc \in {"publish", "gone"} /\ reader'.stem \in {reader.stem, None}
          /\ (reader'.pc = "publish" => reader'.stem = reader.stem)
      BY <1>0, <2>3 DEF FreezeStem, ReaderAt, Answers, ReaderTypes
    <3>4. reader'.pc = "publish" /\ ~closed => reader.stem \in frozen'
      BY <1>0, <2>3, <3>2 DEF FreezeStem, Answers, ReaderTypes
    <3>5. UNCHANGED jobs
      BY <2>3 DEF FreezeStem
    <3> QED
      BY <1>0, <2>0, <3>3, <3>4, <3>5 DEF Mapped, Working
  <2>4. CASE PublishStem \/ RecordStem
    <3>1. UNCHANGED <<jobs, frozen>> /\ reader.pc \in {"publish", "ready"}
      BY <2>4 DEF PublishStem, RecordStem, ReaderStep
    <3>2. reader'.pc = "gone" \/ reader'.stem = reader.stem
      BY <1>0, <2>4 DEF PublishStem, RecordStem, ReaderAt, Answers, ReaderTypes
    <3> QED
      BY <1>0, <2>0, <3>1, <3>2 DEF Mapped, Working
  <2>5. ASSUME NEW lane \in Lanes, NEW there \in {"gpu", "read"}, SendJob(lane, there)
        PROVE  Mapped'
    <3>1. UNCHANGED frozen /\ reader.pc \in {"cpu", "gpu"}
      BY <2>5 DEF SendJob, ReaderStep, Lanes
    <3>2. reader'.pc = "gone" \/ reader'.stem = reader.stem
      BY <1>0, <2>5 DEF SendJob, ReaderAt, Answers, ReaderTypes
    <3>3. CASE UNCHANGED jobs
      BY <1>0, <2>0, <3>1, <3>2, <3>3 DEF Mapped, Working
    <3>4. CASE ~closed /\ jobs' = [jobs EXCEPT ![lane] = Append(@, reader.stem)]
      <4>1. reader.stem \in frozen
        BY <1>0, <3>1, <3>4 DEF Mapped
      <4>2. ASSUME pc # "returned", NEW l \in Lanes, NEW i \in 1..Len(jobs'[l])
            PROVE  jobs'[l][i] \in frozen
        <5>1. jobs[l] \in Seq(Stems) /\ jobs[lane] \in Seq(Stems)
          BY <1>0 DEF WaveTypes
        <5>2. CASE l = lane
          <6>1. jobs'[l] = Append(jobs[lane], reader.stem)
            BY <1>0, <3>4, <5>2 DEF WaveTypes
          <6>2. i = Len(jobs[lane]) + 1 \/ i \in 1..Len(jobs[lane])
            BY <4>2, <5>1, <6>1
          <6> QED
            BY <1>0, <4>1, <4>2, <5>1, <6>1, <6>2 DEF Mapped
        <5>3. CASE l # lane
          BY <1>0, <3>4, <4>2, <5>3 DEF Mapped, WaveTypes
        <5> QED
          BY <5>2, <5>3
      <4> QED
        BY <1>0, <2>0, <3>1, <3>2, <4>1, <4>2 DEF Mapped, Working
    <3> QED
      BY <2>5, <3>3, <3>4 DEF SendJob
  <2> QED
    BY <1>2, <2>1, <2>2, <2>3, <2>4, <2>5 DEF Reader, Lanes
<1>3. ASSUME NEW c \in Consumers, Consume(c) PROVE Mapped'
  <2>0. UNCHANGED <<pc, closed, reader, frozen>>
    BY <1>3 DEF Consume, TakeJob, Quit, AcquireStem, AwaitArbiter, Run, ReleaseStem,
       ConsumerStep, stage, daemon
  <2>1. CASE TakeJob(c)
    <3> DEFINE lane == LaneOf(c)
    <3>1. lane \in Lanes /\ jobs[lane] \in Seq(Stems) /\ jobs[lane] # <<>>
      BY <1>0, <2>1 DEF TakeJob, WaveTypes, LaneOf, Lanes
    <3>2. jobs' = [jobs EXCEPT ![lane] = Tail(jobs[lane])]
          /\ consumer'= [consumer EXCEPT ![c] = [pc |-> "acquire", stem |-> Head(jobs[lane]),
                                                 err |-> None]]
      BY <2>1 DEF TakeJob
    <3>3. pc # "returned"
      BY <1>0, <2>1, <3>1 DEF TakeJob, ConsumerStep, Lifetimes, Unstarted, Joined
    <3> HIDE DEF lane
    <3>4. Head(jobs[lane]) \in frozen
      BY <1>0, <3>1, <3>3 DEF Mapped
    <3>5. \A i \in 1..Len(Tail(jobs[lane])) : Tail(jobs[lane])[i] \in frozen
      <4>1. \A i \in 1..Len(Tail(jobs[lane])) :
               i + 1 \in 1..Len(jobs[lane]) /\ Tail(jobs[lane])[i] = jobs[lane][i + 1]
        BY <3>1
      <4> QED
        BY <1>0, <3>1, <3>3, <4>1 DEF Mapped
    <3>6. \A l \in Lanes : \A i \in 1..Len(jobs'[l]) : jobs'[l][i] \in frozen
      BY <1>0, <3>1, <3>2, <3>3, <3>5 DEF Mapped, WaveTypes
    <3>7. \A d \in Consumers : Working(d)' => consumer'[d].stem \in frozen
      BY <1>0, <3>2, <3>4 DEF Mapped, Working, ConsumerTypes
    <3> QED
      BY <1>0, <2>0, <3>6, <3>7 DEF Mapped
  <2>2. CASE ~TakeJob(c)
    <3>1. UNCHANGED jobs
      BY <1>3, <2>2 DEF Consume, Quit, AcquireStem, AwaitArbiter, Run, ReleaseStem
    <3>2. \A d \in Consumers : Working(d)' => Working(d) /\ consumer'[d].stem = consumer[d].stem
      <4>1. CASE ConsumerEnds(c)
        BY <1>0, <4>1 DEF ConsumerEnds, IdleConsumer, Working, ConsumerTypes
      <4>2. CASE AcquireStem(c) /\ ~ConsumerEnds(c)
        BY <1>0, <4>2 DEF AcquireStem, ConsumerStep, ConsumerAt, Working, ConsumerTypes
      <4>3. ASSUME NEW e, RunEnds(c, e), Working(c)
            PROVE  \A d \in Consumers :
                      Working(d)' => Working(d) /\ consumer'[d].stem = consumer[d].stem
        BY <1>0, <4>3 DEF RunEnds, Working, ConsumerTypes
      <4>4. CASE AwaitArbiter(c) /\ ConsumerAt(c, "run")
        BY <1>0, <4>4 DEF AwaitArbiter, ConsumerStep, ConsumerAt, Working, ConsumerTypes
      <4>5. CASE AwaitArbiter(c) /\ ~ConsumerAt(c, "run")
        BY <4>3, <4>5 DEF AwaitArbiter, ConsumerStep, Working
      <4>6. CASE Run(c)
        BY <4>3, <4>6 DEF Run, ConsumerStep, Working
      <4>7. CASE ReleaseStem(c) /\ ~ConsumerEnds(c)
        BY <1>0, <4>7 DEF ReleaseStem, IdleConsumer, Working, ConsumerTypes
      <4> QED
        BY <1>3, <2>2, <4>1, <4>2, <4>4, <4>5, <4>6, <4>7 DEF Consume, Quit
    <3> QED
      BY <1>0, <2>0, <3>1, <3>2 DEF Mapped
  <2> QED
    BY <2>1, <2>2
<1>4. CASE FailAll \/ Expire({"demucs"}) \/ Expire({"demucs", "post", "wave"}) \/ UNCHANGED vars
  BY <1>0, <1>4 DEF FailAll, Expire, vars, stage, daemon, wave, Mapped, Working
<1> QED
  BY <1>1, <1>2, <1>3, <1>4 DEF Next

LEMMA InitIInv == Init => IInv
<1> SUFFICES ASSUME Init PROVE IInv
  OBVIOUS
<1>0. HoldTypes
  BY DEF Init, HoldTypes
<1>1. StageTypes /\ ReaderTypes /\ ContextTypes
  BY DEF Init, IdleReader, StageTypes, ReaderTypes, ContextTypes, StagePC, ReaderPC
<1>2. StemTypes
  BY DEF Init, StemTypes, StemState
<1>3. WaveTypes
  BY DEF Init, WaveTypes
<1>4. ConsumerTypes
  BY DEF Init, IdleConsumer, ConsumerTypes, ConsumerPC, Consumers
<1>5. BoundTypes
  <2>1. panicked \in BOOLEAN
    BY DEF Init
  <2>2. faults \in 0..MaxFaults
    BY StemWavefrontAssumption DEF Init
  <2> QED
    BY <2>1, <2>2 DEF BoundTypes
<1>6. Places
  <2>1. HeldAt /\ ArbiterAt /\ ClosedAt
    BY StemWavefrontAssumption DEF Init, HeldAt, Holds, ArbiterAt, ClosedAt
  <2>2. GPULane
    BY DEF Init, IdleConsumer, GPULane, Consumers
  <2>3. Lifetimes
    BY DEF Init, IdleReader, IdleConsumer, Lifetimes, Joined, Working
  <2> QED
    BY <2>1, <2>2, <2>3 DEF Places
<1>7. Mapped
  BY DEF Init, IdleReader, IdleConsumer, Mapped, Working
<1> QED
  BY <1>0, <1>1, <1>2, <1>3, <1>4, <1>5, <1>6, <1>7, TypeParts DEF IInv

LEMMA NextIInv == IInv /\ [Next]_vars => IInv'
BY TypeStep, HoldsStep, PlacesStep, LaneStep, LifetimesStep, MappedStep DEF IInv, Places

LEMMA Invariance == Spec => []IInv
<1> QED
  BY InitIInv, NextIInv, PTL DEF Spec

\* Every variable of the stage, its reader, its lanes and its lifecycle keeps its type, and
\* no reference of a stem goes below zero, for any stems, consumers and number of faults.
THEOREM TypeCorrect == Spec => []TypeOK
<1>1. IInv => TypeOK
  BY DEF IInv
<1> QED
  BY Invariance, <1>1, PTL

\* A lane runs only on an arena that is mapped and frozen (consume, closeArenaOnError and
\* Wait in pipeline_demucs.go): nobody works before the separation or after the join, and
\* only a return unmaps.
THEOREM SafeReading == Spec => []ReadersAreSafe
<1>1. IInv => ReadersAreSafe
  <2> SUFFICES ASSUME IInv, NEW c \in Consumers, consumer[c].pc = "run"
               PROVE  ArenaOpen /\ consumer[c].stem \in frozen
    BY DEF ReadersAreSafe
  <2>1. Working(c)
    BY DEF Working
  <2>2. ~Unstarted /\ ~Joined
    BY <2>1 DEF IInv, Places, Lifetimes
  <2> QED
    BY <2>1, <2>2 DEF IInv, Mapped, Places, HeldAt, Holds, Resources, ArenaOpen, Unstarted,
       Joined, TypeOK, StagePC
<1> QED
  BY Invariance, <1>1, PTL

\* Every return of executeDemucsStage has given back slot, lease, daemon and GPU, and keeps
\* the arenas exactly when it succeeds.
THEOREM Returning == Spec => []HoldsAreReturned
<1>1. IInv => HoldsAreReturned
  BY DEF IInv, Places, HeldAt, Holds, ArbiterAt, HoldsAreReturned
<1> QED
  BY Invariance, <1>1, PTL

(***************************************************************************)
(* No stem is lost.  An induction over the run: the references count the   *)
(* readers (Counted); a stem is published once and is in one place of a    *)
(* lane, in its queue, with one of its consumers or in its features        *)
(* (OnceEach); until the wavefront fails each published stem is somewhere  *)
(* in each lane (NothingLost); and a separation without an error has no    *)
(* reader left (SeparationEnds).  When the consumers have quit, what was   *)
(* in a lane is in its features (AllRead), and stays so (AfterJoin) until  *)
(* the stage answers (Succeeded).                                          *)
(***************************************************************************)
\* The references of a stem count its readers, and what its state says of them.
Counted ==
    \A s \in Stems :
        /\ stem[s].state # "failed" => stem[s].refs = Cardinality(Reading(s))
        /\ stem[s].state \in {"pending", "frozen"} => stem[s].acquired = 0
        /\ stem[s].state = "released" => stem[s].refs = 0 /\ stem[s].acquired = ReadersPerStem
        /\ stem[s].state = "consuming" => stem[s].refs > 0 \/ stem[s].acquired < ReadersPerStem

\* Where a stem is on its way through a lane
Elements(q) == {q[i] : i \in 1..Len(q)}
Distinct(q) == \A i, j \in 1..Len(q) : i # j => q[i] # q[j]
Queued(l) == Elements(jobs[l])
Carried(l) == {consumer[c].stem : c \in {d \in Consumers : LaneOf(d) = l /\ Working(d)}}
Reached(l) == Queued(l) \cup Carried(l) \cup features[l]
Sending(l) ==
    IF reader.pc = "cpu" \/ (reader.pc = "gpu" /\ l = "gpu") THEN {reader.stem} ELSE {}
\* The consumer has a reference, and the stems the lane has taken one of.
Read(c) == consumer[c].pc \in {"arbiter", "run", "release"}
BeingRead(l) == {consumer[c].stem : c \in {d \in Consumers : LaneOf(d) = l /\ Read(d)}}
ReadIn(l) == features[l] \cup BeingRead(l)

\* A stem is published once, and is in one place of a lane.
LaneOnce(l) ==
    /\ Distinct(jobs[l])
    /\ Queued(l) \cap Carried(l) = {} /\ Queued(l) \cap features[l] = {}
    /\ Carried(l) \cap features[l] = {}
    /\ Reached(l) \cup Sending(l) \subseteq published /\ Reached(l) \cap Sending(l) = {}
Unique ==
    \A c, d \in Consumers :
        /\ LaneOf(c) = LaneOf(d) /\ Working(c) /\ Working(d)
        /\ consumer[c].stem = consumer[d].stem
        => c = d
NewOnly ==
    /\ reader.pc = "ready" => reader.stem \notin published
    /\ \A s \in Stems :
          stem[s].state = "pending" =>
              s \notin published /\ (reader.pc = "ready" => reader.stem # s)
OnceEach == (\A l \in Lanes : LaneOnce(l)) /\ Unique /\ NewOnly

One(b) == IF b THEN 1 ELSE 0
\* Until the wavefront fails nothing is lost.
NothingLost ==
    "wave" \notin done =>
        /\ err = None
        /\ \A l \in Lanes : published \subseteq Reached(l) \cup Sending(l)
        /\ \A c \in Consumers : consumer[c].pc = "gone" => closed /\ jobs[LaneOf(c)] = <<>>
        /\ \A s \in Stems :
              /\ stem[s].state # "failed"
              /\ stem[s].acquired = One(s \in ReadIn("cpu")) + One(s \in ReadIn("gpu"))

\* Past the separation, there is an error or the reader has gone; and the error fails the
\* wavefront.
SeparationEnds ==
    /\ answer # None => reader.pc = "gone"
    /\ (pc \in {"release", "fail", "close", "wait"} \/ Joined) /\ sepErr = None
       => reader.pc = "gone"
    /\ (pc \in {"close", "wait"} \/ Joined) /\ sepErr # None => err # None

\* A join without an error has every published stem from both lanes.
AfterJoin ==
    Joined /\ waveErr = None =>
        /\ sepErr = None /\ published # {}
        /\ \A l \in Lanes : features[l] = published
        /\ \A s \in published : stem[s].state = "released"

\* A success is a join without an error whose stems are those of the answer.
Succeeded == result = "ok" => Joined /\ waveErr = None /\ answer.stems = published

Types == StageTypes /\ ReaderTypes /\ ContextTypes /\ StemTypes /\ WaveTypes /\ ConsumerTypes
LEMMA TypesHold == IInv => Types
BY TypeParts DEF IInv, Types

Stays(c) == \A d \in Consumers : d # c => consumer'[d] = consumer[d]

(***************************************************************************)
(* What the steps of a lane consumer do to it.                             *)
(***************************************************************************)
LEMMA TakeJobDoes ==
  ASSUME ConsumerTypes, WaveTypes, NEW c \in Consumers, TakeJob(c)
  PROVE  /\ consumer[c].pc = "select" /\ consumer'[c].pc = "acquire" /\ Stays(c)
         /\ consumer'[c].stem = Head(jobs[LaneOf(c)])
         /\ LaneOf(c) \in Lanes /\ jobs[LaneOf(c)] \in Seq(Stems) /\ jobs[LaneOf(c)] # <<>>
         /\ jobs'[LaneOf(c)] = Tail(jobs[LaneOf(c)])
         /\ \A l \in Lanes : l # LaneOf(c) => jobs'[l] = jobs[l]
         /\ UNCHANGED <<stem, features, err, done>>
BY DEF TakeJob, ConsumerStep, ConsumerTypes, WaveTypes, Stays, LaneOf, Lanes, contexts

\* An error ends the consumer and the wavefront.
Ends(c) ==
    /\ consumer'[c].pc = "gone" /\ Stays(c)
    /\ UNCHANGED <<jobs, features>>

LEMMA QuitDoes ==
  ASSUME ConsumerTypes, NEW c \in Consumers, Quit(c)
  PROVE  /\ consumer[c].pc = "select" /\ Ends(c) /\ UNCHANGED <<stem, err, done>>
         /\ "wave" \notin done => closed /\ jobs[LaneOf(c)] = <<>>
<1>1. Ends(c)
  BY DEF Quit, ConsumerEnds, ConsumerTypes, IdleConsumer, Ends, Stays
<1> QED
  BY <1>1 DEF Quit, ConsumerStep, contexts

\* Consumer c takes a reference of stem s.
Acquires(c, s) ==
    /\ consumer'[c].pc \in {"arbiter", "run"} /\ consumer'[c].stem = s
    /\ Stays(c) /\ UNCHANGED <<jobs, features, err, done>>
    /\ stem[s].state \in {"frozen", "consuming"}
    /\ stem[s].acquired < 2
    /\ stem'[s] = [state |-> "consuming", refs |-> stem[s].refs + 1,
                   acquired |-> stem[s].acquired + 1]
    /\ \A x \in Stems : x # s => stem'[x] = stem[x]

LEMMA AcquireStemDoes ==
  ASSUME ConsumerTypes, StemTypes, Mapped, frozen \subseteq Stems,
         NEW c \in Consumers, AcquireStem(c)
  PROVE  /\ consumer[c].pc = "acquire" /\ consumer[c].stem \in Stems
         /\ \/ /\ Ends(c) /\ "wave" \in done' /\ UNCHANGED stem
            \/ Acquires(c, consumer[c].stem)
<1> DEFINE s == consumer[c].stem
<1>1. consumer[c].pc = "acquire" /\ s \in Stems
  BY DEF AcquireStem, ConsumerStep, Mapped, Working
<1>2. CASE Fail("error") /\ ConsumerEnds(c) /\ UNCHANGED stem
  BY <1>1, <1>2 DEF Fail, Cancel, ConsumerEnds, ConsumerTypes, IdleConsumer, Ends, Stays,
     AcquireStem
<1>3. CASE /\ stem[s].state \in {"frozen", "consuming"}
           /\ stem[s].acquired < ReadersPerStem
           /\ stem' = [stem EXCEPT ![s] = [state |-> "consuming", refs |-> @.refs + 1,
                                           acquired |-> @.acquired + 1]]
           /\ ConsumerAt(c, IF c = GPUConsumer THEN "arbiter" ELSE "run")
           /\ UNCHANGED <<err, contexts>>
  <2>1. /\ consumer'[c].pc \in {"arbiter", "run"} /\ consumer'[c].stem = s /\ Stays(c)
    BY <1>3 DEF ConsumerAt, ConsumerTypes, Stays
  <2>2. /\ stem'[s] = [state |-> "consuming", refs |-> stem[s].refs + 1,
                       acquired |-> stem[s].acquired + 1]
        /\ \A x \in Stems : x # s => stem'[x] = stem[x]
    BY <1>1, <1>3 DEF StemTypes
  <2>3. UNCHANGED <<jobs, features, err, done>>
    BY <1>3 DEF AcquireStem, contexts
  <2> QED
    BY <1>1, <1>3, <2>1, <2>2, <2>3 DEF ReadersPerStem, Acquires
<1> QED
  BY <1>2, <1>3 DEF AcquireStem

LEMMA WorkDoes ==
  ASSUME ConsumerTypes, NEW c \in Consumers, AwaitArbiter(c) \/ Run(c)
  PROVE  /\ Read(c) /\ Read(c)' /\ consumer'[c].stem = consumer[c].stem /\ Stays(c)
         /\ UNCHANGED <<stem, jobs, features, err, done>>
<1>1. ASSUME NEW e, RunEnds(c, e)
      PROVE  /\ Read(c)' /\ consumer'[c].stem = consumer[c].stem /\ Stays(c)
  BY <1>1 DEF RunEnds, ConsumerTypes, Read, Stays
<1>2. ASSUME ConsumerAt(c, "run")
      PROVE  /\ Read(c)' /\ consumer'[c].stem = consumer[c].stem /\ Stays(c)
  BY <1>2 DEF ConsumerAt, ConsumerTypes, Read, Stays
<1>3. CASE AwaitArbiter(c)
  BY <1>1, <1>2, <1>3 DEF AwaitArbiter, ConsumerStep, Read, contexts
<1>4. CASE Run(c)
  BY <1>1, <1>4 DEF Run, ConsumerStep, Read, contexts
<1> QED
  BY <1>3, <1>4

LEMMA ReleaseStemDoes ==
  ASSUME ConsumerTypes, StemTypes, WaveTypes, Mapped, NEW c \in Consumers, ReleaseStem(c),
         frozen \subseteq Stems
  PROVE  /\ consumer[c].pc = "release" /\ consumer[c].stem \in Stems /\ Stays(c)
         /\ \A s \in Stems : s # consumer[c].stem => stem'[s] = stem[s]
         /\ stem'[consumer[c].stem] =
                IF Readable(consumer[c].stem) THEN Released(consumer[c].stem)
                ELSE stem[consumer[c].stem]
         /\ \/ Ends(c) /\ "wave" \in done'
            \/ /\ consumer'[c].pc = "select" /\ UNCHANGED <<jobs, err, done>>
               /\ features'[LaneOf(c)] = features[LaneOf(c)] \cup {consumer[c].stem}
               /\ \A l \in Lanes : l # LaneOf(c) => features'[l] = features[l]
               /\ Readable(consumer[c].stem)
<1> DEFINE s == consumer[c].stem
<1>1. consumer[c].pc = "release" /\ s \in Stems
  BY DEF ReleaseStem, ConsumerStep, Mapped, Working
<1>2. /\ \A x \in Stems : x # s => stem'[x] = stem[x]
      /\ stem'[s] = IF Readable(s) THEN Released(s) ELSE stem[s]
  <2>1. stem' = IF Readable(s) THEN [stem EXCEPT ![s] = Released(s)] ELSE stem
    BY DEF ReleaseStem
  <2> HIDE DEF s
  <2> QED
    BY <1>1, <2>1 DEF StemTypes
<1>3. CASE ConsumerEnds(c) /\ UNCHANGED features
  BY <1>1, <1>2, <1>3 DEF ReleaseStem, Fail, Cancel, ConsumerEnds, ConsumerTypes, IdleConsumer,
     Ends, Stays
<1>4. CASE /\ Readable(s)
           /\ features' = [features EXCEPT ![LaneOf(c)] = @ \cup {s}]
           /\ consumer' = [consumer EXCEPT ![c] = [IdleConsumer EXCEPT !.pc = "select"]]
           /\ UNCHANGED <<err, contexts>>
  <2>1. consumer'[c].pc = "select" /\ Stays(c)
    BY <1>4 DEF ConsumerTypes, IdleConsumer, Stays
  <2>2. /\ features'[LaneOf(c)] = features[LaneOf(c)] \cup {s}
        /\ \A l \in Lanes : l # LaneOf(c) => features'[l] = features[l]
    BY <1>4 DEF WaveTypes, LaneOf, Lanes
  <2>3. UNCHANGED <<jobs, err, done>>
    BY <1>4 DEF ReleaseStem, contexts
  <2> QED
    BY <1>1, <1>2, <1>4, <2>1, <2>2, <2>3
<1> QED
  BY <1>3, <1>4 DEF ReleaseStem

(***************************************************************************)
(* The references.                                                         *)
(***************************************************************************)
LEMMA ReadingFinite ==
  \A s : IsFiniteSet(Reading(s)) /\ Cardinality(Reading(s)) \in Nat
<1> SUFFICES ASSUME NEW s PROVE IsFiniteSet(Reading(s)) /\ Cardinality(Reading(s)) \in Nat
  OBVIOUS
<1>1. IsFiniteSet(Consumers)
  BY StemWavefrontAssumption, FS_AddElement DEF Consumers
<1>2. Reading(s) \subseteq Consumers
  BY DEF Reading
<1> QED
  BY <1>1, <1>2, FS_Subset, FS_CardinalityType

\* A stem has one reader more, one fewer, or the same.
LEMMA MoreReading ==
  ASSUME NEW c \in Consumers, NEW s, ~Read(c), Read(c)', consumer'[c].stem = s, Stays(c)
  PROVE  /\ Cardinality(Reading(s)') = Cardinality(Reading(s)) + 1
         /\ \A x : x # s => Reading(x)' = Reading(x)
<1>1. Reading(s)' = Reading(s) \cup {c} /\ c \notin Reading(s)
  BY DEF Reading, Read, Stays
<1>2. \A x : x # s => Reading(x)' = Reading(x)
  BY DEF Reading, Read, Stays
<1> QED
  BY <1>1, <1>2, ReadingFinite, FS_AddElement

LEMMA FewerReading ==
  ASSUME NEW c \in Consumers, NEW s, Read(c), consumer[c].stem = s, ~Read(c)', Stays(c)
  PROVE  /\ Cardinality(Reading(s)) > 0
         /\ Cardinality(Reading(s)') = Cardinality(Reading(s)) - 1
         /\ \A x : x # s => Reading(x)' = Reading(x)
<1>1. Reading(s)' = Reading(s) \ {c} /\ c \in Reading(s)
  BY DEF Reading, Read, Stays
<1>2. \A x : x # s => Reading(x)' = Reading(x)
  BY DEF Reading, Read, Stays
<1>3. Cardinality(Reading(s)') = Cardinality(Reading(s)) - 1 /\ Cardinality(Reading(s)) > 0
  <2>1. Cardinality(Reading(s) \ {c}) = Cardinality(Reading(s)) - 1
    BY <1>1, ReadingFinite, FS_RemoveElement
  <2>2. Cardinality(Reading(s)) # 0
    BY <1>1, ReadingFinite, FS_EmptySet
  <2> QED
    BY <1>1, <2>1, <2>2, ReadingFinite
<1> QED
  BY <1>2, <1>3

LEMMA SameReading ==
  ASSUME NEW c \in Consumers, Stays(c),
         \/ ~Read(c) /\ ~Read(c)'
         \/ Read(c) /\ Read(c)' /\ consumer'[c].stem = consumer[c].stem
  PROVE  \A x : Reading(x)' = Reading(x)
BY DEF Reading, Read, Stays

CountedAt(s) ==
    /\ stem[s].state # "failed" => stem[s].refs = Cardinality(Reading(s))
    /\ stem[s].state \in {"pending", "frozen"} => stem[s].acquired = 0
    /\ stem[s].state = "released" => stem[s].refs = 0 /\ stem[s].acquired = 2
    /\ stem[s].state = "consuming" => stem[s].refs > 0 \/ stem[s].acquired < 2

LEMMA CountedByStem == Counted <=> \A s \in Stems : CountedAt(s)
BY DEF Counted, CountedAt, ReadersPerStem

LEMMA CountedStep ==
  ASSUME IInv, Counted, [Next]_vars
  PROVE  Counted'
<1>0. Types /\ Mapped /\ Lifetimes /\ frozen \subseteq Stems
  BY TypesHold DEF IInv, Places, Types, StageTypes
<1>a. \A s \in Stems : CountedAt(s)
  BY CountedByStem
<1>b. \A s \in Stems : /\ stem[s] \in [state : StemState, refs : 0..2, acquired : 0..2]
                       /\ stem[s].refs <= stem[s].acquired
  BY <1>0 DEF Types, StemTypes
<1>c. ASSUME UNCHANGED stem, \A s : Reading(s)' = Reading(s) PROVE Counted'
  BY <1>a, <1>c DEF Counted, CountedAt, ReadersPerStem
<1>1. ASSUME NEW c \in Consumers, TakeJob(c) \/ Quit(c) PROVE Counted'
  <2>1. UNCHANGED stem /\ Stays(c) /\ ~Read(c) /\ ~Read(c)'
    BY <1>0, <1>1, TakeJobDoes, QuitDoes DEF Types, Read, Ends
  <2> QED
    BY <1>c, <2>1, SameReading
<1>2. ASSUME NEW c \in Consumers, AcquireStem(c) PROVE Counted'
  <2>0. PICK s : s = consumer[c].stem
    OBVIOUS
  <2>1. s \in Stems /\ ~Read(c)
    BY <1>0, <1>2, <2>0, AcquireStemDoes DEF Types, Read
  <2>2. CASE Ends(c) /\ UNCHANGED stem
    BY <1>c, <2>1, <2>2, SameReading DEF Ends, Read
  <2>3. CASE ~(Ends(c) /\ UNCHANGED stem)
    <3>1. /\ Read(c)' /\ consumer'[c].stem = s /\ Stays(c)
          /\ stem[s].state \in {"frozen", "consuming"}
          /\ stem'[s] = [state |-> "consuming", refs |-> stem[s].refs + 1,
                         acquired |-> stem[s].acquired + 1]
          /\ \A x \in Stems : x # s => stem'[x] = stem[x]
      <4>1. Acquires(c, s)
        BY <1>0, <1>2, <2>0, <2>3, AcquireStemDoes DEF Types
      <4> QED
        BY <4>1 DEF Acquires, Read
    <3>2. /\ Cardinality(Reading(s)') = Cardinality(Reading(s)) + 1
          /\ \A x : x # s => Reading(x)' = Reading(x)
      BY <2>1, <3>1, MoreReading
    <3>3. /\ stem'[s].state = "consuming" /\ stem'[s].refs = Cardinality(Reading(s)')
          /\ stem'[s].refs > 0
      <4>1. stem[s].refs = Cardinality(Reading(s)) /\ stem[s].refs \in 0..2
        BY <1>a, <1>b, <2>1, <3>1 DEF CountedAt
      <4>2. stem'[s].state = "consuming" /\ stem'[s].refs = stem[s].refs + 1
        BY <3>1
      <4> QED
        BY <3>2, <4>1, <4>2
    <3>4. CountedAt(s)'
      BY <3>3 DEF CountedAt
    <3>5. \A x \in Stems : x # s => CountedAt(x)'
      BY <1>a, <3>1, <3>2 DEF CountedAt
    <3>6. \A x \in Stems : CountedAt(x)'
      BY <3>4, <3>5
    <3> QED
      BY <3>6 DEF Counted, CountedAt, ReadersPerStem
  <2> QED
    BY <2>2, <2>3
<1>3. ASSUME NEW c \in Consumers, AwaitArbiter(c) \/ Run(c) PROVE Counted'
  BY <1>0, <1>c, <1>3, WorkDoes, SameReading DEF Types
<1>4. ASSUME NEW c \in Consumers, ReleaseStem(c) PROVE Counted'
  <2>0. PICK s : s = consumer[c].stem
    OBVIOUS
  <2>1. /\ s \in Stems /\ Read(c) /\ ~Read(c)' /\ Stays(c)
        /\ \A x \in Stems : x # s => stem'[x] = stem[x]
        /\ stem'[s] = IF Readable(s) THEN Released(s) ELSE stem[s]
    BY <1>0, <1>4, <2>0, ReleaseStemDoes DEF Types, Read, Ends
  <2>2. /\ Cardinality(Reading(s)) > 0
        /\ Cardinality(Reading(s)') = Cardinality(Reading(s)) - 1
        /\ \A x : x # s => Reading(x)' = Reading(x)
    BY <2>0, <2>1, FewerReading
  <2>3. CountedAt(s) /\ stem[s].refs \in 0..2 /\ stem[s].acquired \in 0..2
        /\ stem[s].refs <= stem[s].acquired /\ stem[s].state \in StemState
    BY <1>a, <1>b, <2>1
  <2>4. stem[s].state # "failed" => stem[s].state = "consuming" /\ stem[s].refs > 0
    BY <2>2, <2>3 DEF CountedAt, StemState
  <2>5. CountedAt(s)'
    <3>1. CASE stem[s].state = "failed"
      <4>1. stem'[s] = stem[s]
        BY <2>1, <3>1 DEF Readable
      <4> QED
        BY <3>1, <4>1 DEF CountedAt
    <3>2. CASE stem[s].state # "failed"
      <4>1. stem'[s] = Released(s)
        BY <2>1, <2>4, <3>2 DEF Readable
      <4>2. stem[s] \in [state : StemState, refs : 0..2, acquired : 0..2]
        BY <1>b, <2>1
      <4>3. /\ stem'[s].refs = stem[s].refs - 1 /\ stem'[s].acquired = stem[s].acquired
            /\ stem'[s].state = IF stem[s].refs = 1 /\ stem[s].acquired = 2
                                THEN "released" ELSE stem[s].state
        BY <4>1, <4>2 DEF Released, ReadersPerStem
      <4>4. stem[s].refs = Cardinality(Reading(s)) /\ stem[s].state = "consuming"
            /\ stem[s].refs > 0
        BY <2>3, <2>4, <3>2 DEF CountedAt
      <4> QED
        BY <2>2, <2>3, <4>3, <4>4 DEF CountedAt
    <3> QED
      BY <3>1, <3>2
  <2>6. \A x \in Stems : x # s => CountedAt(x)'
    BY <1>a, <2>1, <2>2 DEF CountedAt
  <2>7. \A x \in Stems : CountedAt(x)'
    BY <2>5, <2>6
  <2> QED
    BY <2>7 DEF Counted, CountedAt, ReadersPerStem
<1>5. CASE PublishStem
  <2>1. UNCHANGED consumer
    BY <1>5 DEF PublishStem, ReaderStep
  <2>2. \A s : Reading(s)' = Reading(s)
    BY <2>1 DEF Reading
  <2>3. CASE UNCHANGED stem
    BY <1>c, <2>2, <2>3
  <2>4. CASE stem[reader.stem].state = "pending"
             /\ stem' = [stem EXCEPT ![reader.stem].state = "frozen"]
    <3>1. ASSUME NEW s \in Stems PROVE CountedAt(s)'
      <4>1. s # reader.stem => stem'[s] = stem[s]
        BY <1>0, <2>4 DEF Types, StemTypes
      <4>2. s = reader.stem => stem'[s] = [stem[s] EXCEPT !.state = "frozen"]
        BY <1>0, <2>4 DEF Types, StemTypes
      <4>3. CASE s # reader.stem
        BY <1>a, <2>2, <4>1, <4>3 DEF CountedAt
      <4>4. CASE s = reader.stem
        <5>1. /\ stem'[s].state = "frozen" /\ stem'[s].refs = stem[s].refs
              /\ stem'[s].acquired = stem[s].acquired /\ stem[s].state = "pending"
          BY <1>b, <2>4, <4>2, <4>4
        <5> QED
          BY <1>a, <2>2, <5>1 DEF CountedAt
      <4> QED
        BY <4>3, <4>4
    <3> QED
      BY <3>1 DEF Counted, CountedAt, ReadersPerStem
  <2> QED
    BY <1>5, <2>3, <2>4 DEF PublishStem
<1>6. CASE FailAll
  <2>1. \A s : Reading(s)' = Reading(s)
    BY <1>6 DEF FailAll, Reading
  <2>2. \A s \in Stems : stem'[s] = stem[s] \/ stem'[s].state = "failed"
    BY <1>6 DEF FailAll
  <2>3. \A s \in Stems : CountedAt(s)'
    BY <1>a, <2>1, <2>2 DEF CountedAt
  <2> QED
    BY <2>3 DEF Counted, CountedAt, ReadersPerStem
<1>7. CASE StartWave
  <2>1. UNCHANGED stem
    BY <1>7 DEF StartWave, StageStep
  <2>2. UNCHANGED consumer
        \/ consumer' = [c \in Consumers |-> [IdleConsumer EXCEPT !.pc = "select"]]
    BY <1>7 DEF StartWave
  <2>3. \A c \in Consumers : ~Working(c)
    BY <1>0, <1>7 DEF StartWave, StageStep, Lifetimes, Unstarted
  <2>4. \A c \in Consumers : ~Read(c) /\ ~Read(c)'
    BY <2>2, <2>3 DEF Working, Read, IdleConsumer
  <2>5. \A s : Reading(s)' = Reading(s)
    BY <2>4 DEF Reading, Read
  <2> QED
    BY <1>c, <2>1, <2>5
<1>8. CASE UNCHANGED <<stem, consumer>>
  BY <1>c, <1>8 DEF Reading
<1> QED
  BY <1>1, <1>2, <1>3, <1>4, <1>5, <1>6, <1>7, <1>8, Frames DEF Consume

(***************************************************************************)
(* The way of a stem.                                                      *)
(***************************************************************************)
LEMMA TailTakes ==
  ASSUME NEW S, NEW q \in Seq(S), q # <<>>, Distinct(q)
  PROVE  /\ Elements(Tail(q)) = Elements(q) \ {Head(q)} /\ Head(q) \in Elements(q)
         /\ Distinct(Tail(q))
<1>1. /\ Len(q) \in Nat /\ Len(q) > 0 /\ Len(Tail(q)) = Len(q) - 1 /\ Head(q) = q[1]
      /\ \A i \in 1..(Len(q) - 1) : Tail(q)[i] = q[i + 1]
  OBVIOUS
<1>2. Head(q) \in Elements(q)
  BY <1>1 DEF Elements
<1>3. Elements(Tail(q)) = Elements(q) \ {Head(q)}
  <2>1. ASSUME NEW x \in Elements(Tail(q)) PROVE x \in Elements(q) /\ x # Head(q)
    <3>1. PICK i \in 1..(Len(q) - 1) : x = Tail(q)[i]
      BY <1>1 DEF Elements
    <3>2. x = q[i + 1] /\ i + 1 \in 1..Len(q) /\ i + 1 # 1 /\ 1 \in 1..Len(q)
      BY <1>1, <3>1
    <3> QED
      BY <1>1, <3>2 DEF Elements, Distinct
  <2>2. ASSUME NEW x \in Elements(q), x # Head(q) PROVE x \in Elements(Tail(q))
    <3>1. PICK i \in 1..Len(q) : x = q[i]
      BY DEF Elements
    <3>2. i # 1
      BY <1>1, <2>2, <3>1
    <3>3. i - 1 \in 1..(Len(q) - 1) /\ (i - 1) + 1 = i
      BY <1>1, <3>2
    <3>4. Tail(q)[i - 1] = x
      BY <1>1, <3>1, <3>3
    <3> QED
      BY <1>1, <3>3, <3>4 DEF Elements
  <2> QED
    BY <2>1, <2>2
<1>4. ASSUME NEW i \in 1..Len(Tail(q)), NEW j \in 1..Len(Tail(q)), i # j
      PROVE  Tail(q)[i] # Tail(q)[j]
  <2>1. i + 1 \in 1..Len(q) /\ j + 1 \in 1..Len(q) /\ i + 1 # j + 1
    BY <1>1, <1>4
  <2>2. Tail(q)[i] = q[i + 1] /\ Tail(q)[j] = q[j + 1]
    BY <1>1
  <2> QED
    BY <2>1, <2>2 DEF Distinct
<1> QED
  BY <1>2, <1>3, <1>4 DEF Distinct

LEMMA AppendAdds ==
  ASSUME NEW S, NEW q \in Seq(S), Distinct(q), NEW x \in S, x \notin Elements(q)
  PROVE  /\ Elements(Append(q, x)) = Elements(q) \cup {x}
         /\ Distinct(Append(q, x))
<1> DEFINE n == Len(q)
           long == Append(q, x)
<1>1. /\ n \in Nat /\ Len(long) = n + 1 /\ long[n + 1] = x
      /\ \A i \in 1..n : long[i] = q[i]
  OBVIOUS
<1> HIDE DEF n, long
<1>2. \A i \in 1..(n + 1) : i = n + 1 \/ i \in 1..n
  BY <1>1
<1>3. \A i \in 1..n : i \in 1..(n + 1) /\ i # n + 1
  BY <1>1
<1>4. n + 1 \in 1..(n + 1)
  BY <1>1
<1>5. Elements(long) = Elements(q) \cup {x}
  BY <1>1, <1>2, <1>3, <1>4 DEF Elements, n
<1>6. ASSUME NEW i \in 1..(n + 1), NEW j \in 1..(n + 1), i # j PROVE long[i] # long[j]
  BY <1>1, <1>2, <1>6 DEF Elements, Distinct, n
<1> QED
  BY <1>1, <1>5, <1>6 DEF Distinct, long

\* What a lane carries and reads as one of its consumers takes a stem up or puts it down.
LEMMA TakesUp ==
  ASSUME NEW c \in Consumers, NEW s, ~Working(c), Working(c)', consumer'[c].stem = s, Stays(c),
         Unique, s \notin Carried(LaneOf(c))
  PROVE  /\ Unique'
         /\ \A l \in Lanes : Carried(l)' = IF l = LaneOf(c) THEN Carried(l) \cup {s} ELSE Carried(l)
<1>1. Unique'
  BY DEF Unique, Carried, Working, Stays
<1>2. ASSUME NEW l \in Lanes
      PROVE  Carried(l)' = IF l = LaneOf(c) THEN Carried(l) \cup {s} ELSE Carried(l)
  BY DEF Carried, Working, Stays
<1> QED
  BY <1>1, <1>2

LEMMA PutsDown ==
  ASSUME NEW c \in Consumers, NEW s, Working(c), ~Working(c)', consumer[c].stem = s, Stays(c),
         Unique
  PROVE  /\ Unique' /\ s \in Carried(LaneOf(c))
         /\ \A l \in Lanes : Carried(l)' = IF l = LaneOf(c) THEN Carried(l) \ {s} ELSE Carried(l)
<1>1. Unique' /\ s \in Carried(LaneOf(c))
  BY DEF Unique, Carried, Working, Stays
<1>2. ASSUME NEW l \in Lanes
      PROVE  Carried(l)' = IF l = LaneOf(c) THEN Carried(l) \ {s} ELSE Carried(l)
  BY DEF Carried, Working, Stays, Unique
<1> QED
  BY <1>1, <1>2

LEMMA KeepsOn ==
  ASSUME NEW c \in Consumers, Stays(c), Unique,
         \/ ~Working(c) /\ ~Working(c)'
         \/ Working(c) /\ Working(c)' /\ consumer'[c].stem = consumer[c].stem
  PROVE  /\ Unique'
         /\ \A l \in Lanes : Carried(l)' = Carried(l)
<1>1. Unique'
  BY DEF Unique, Working, Stays
<1>2. ASSUME NEW l \in Lanes PROVE Carried(l)' = Carried(l)
  BY DEF Carried, Working, Stays
<1> QED
  BY <1>1, <1>2

LEMMA BeginsReading ==
  ASSUME NEW c \in Consumers, NEW s, ~Read(c), Read(c)', consumer'[c].stem = s, Stays(c)
  PROVE  \A l \in Lanes :
            BeingRead(l)' = IF l = LaneOf(c) THEN BeingRead(l) \cup {s} ELSE BeingRead(l)
<1>1. ASSUME NEW l \in Lanes
      PROVE  BeingRead(l)' = IF l = LaneOf(c) THEN BeingRead(l) \cup {s} ELSE BeingRead(l)
  BY DEF BeingRead, Read, Stays
<1> QED
  BY <1>1

LEMMA EndsReading ==
  ASSUME NEW c \in Consumers, NEW s, Read(c), ~Read(c)', consumer[c].stem = s, Stays(c), Unique
  PROVE  /\ s \in BeingRead(LaneOf(c))
         /\ \A l \in Lanes :
              BeingRead(l)' = IF l = LaneOf(c) THEN BeingRead(l) \ {s} ELSE BeingRead(l)
<1>1. s \in BeingRead(LaneOf(c))
  BY DEF BeingRead
<1>2. ASSUME NEW l \in Lanes
      PROVE  BeingRead(l)' = IF l = LaneOf(c) THEN BeingRead(l) \ {s} ELSE BeingRead(l)
  BY DEF BeingRead, Read, Stays, Unique, Working
<1> QED
  BY <1>1, <1>2

LEMMA ReadsOn ==
  ASSUME NEW c \in Consumers, Stays(c),
         \/ ~Read(c) /\ ~Read(c)'
         \/ Read(c) /\ Read(c)' /\ consumer'[c].stem = consumer[c].stem
  PROVE  \A l \in Lanes : BeingRead(l)' = BeingRead(l)
<1>1. ASSUME NEW l \in Lanes PROVE BeingRead(l)' = BeingRead(l)
  BY DEF BeingRead, Read, Stays
<1> QED
  BY <1>1

\* A step that moves nothing along a lane.
LEMMA QuietOnce ==
  ASSUME OnceEach, UNCHANGED <<published, features, jobs>>, Unique',
         \A l \in Lanes : Carried(l)' \subseteq Carried(l) /\ Sending(l)' \subseteq Sending(l),
         reader'.pc = "ready" => reader.pc = "ready" /\ reader'.stem = reader.stem,
         \A s \in Stems : stem'[s].state = "pending" => stem[s].state = "pending"
  PROVE  OnceEach'
<1>1. ASSUME NEW l \in Lanes PROVE LaneOnce(l)'
  <2>1. LaneOnce(l) /\ Queued(l)' = Queued(l)
    BY DEF OnceEach, Queued
  <2> QED
    BY <2>1 DEF LaneOnce, Reached
<1>2. NewOnly'
  BY DEF OnceEach, NewOnly
<1> QED
  BY <1>1, <1>2 DEF OnceEach

\* The stage moves no stem; its consumers start before there is one.
LEMMA StageKeeps ==
  ASSUME IInv, Unique, Stage
  PROVE  /\ UNCHANGED <<stem, published, features, jobs>> /\ Unique'
         /\ \A l \in Lanes : /\ Carried(l)' = Carried(l) /\ BeingRead(l)' = BeingRead(l)
                             /\ Sending(l)' = Sending(l)
         /\ UNCHANGED reader \/ (reader.pc = "off" /\ reader'.pc = "read")
         /\ closed => closed'
         /\ UNCHANGED consumer \/ \A c \in Consumers : consumer'[c].pc = "select"
         /\ UNCHANGED err \/ (err' # None /\ "wave" \in done')
<1>0. Types /\ Lifetimes
  BY TypesHold DEF IInv, Places
<1>1. UNCHANGED <<stem, published, features, jobs>> /\ (closed => closed')
  BY DEF Stage, AllocateArena, AcquireSlot, ReserveLease, AcquireDaemon, StartWave, AcquireArbiter,
     Separated, ReleaseCapacity, FailWave, CloseInput, Wait, AcquireForCleanup, CleanupGPU,
     Finish, StageStep
<1>2. UNCHANGED reader \/ (reader.pc = "off" /\ reader'.pc = "read")
  <2>1. CASE AcquireArbiter
    BY <1>0, <2>1 DEF AcquireArbiter, StageStep, Lifetimes, Unstarted, Types, ReaderTypes
  <2>2. CASE ~AcquireArbiter
    BY <2>2 DEF Stage, AllocateArena, AcquireSlot, ReserveLease, AcquireDaemon, StartWave,
     Separated, ReleaseCapacity, FailWave, CloseInput, Wait, AcquireForCleanup, CleanupGPU,
     Finish, daemon
  <2> QED
    BY <2>1, <2>2
<1>3. UNCHANGED consumer
      \/ (\A c \in Consumers : ~Working(c) /\ consumer'[c].pc = "select")
  <2>1. CASE StartWave
    BY <1>0, <2>1 DEF StartWave, StageStep, Lifetimes, Unstarted, IdleConsumer
  <2>2. CASE ~StartWave
    BY <2>2 DEF Stage, AllocateArena, AcquireSlot, ReserveLease, AcquireDaemon, AcquireArbiter,
     Separated, ReleaseCapacity, FailWave, CloseInput, Wait, AcquireForCleanup, CleanupGPU,
     Finish
  <2> QED
    BY <2>1, <2>2
<1>4. Unique' /\ \A l \in Lanes : Carried(l)' = Carried(l) /\ BeingRead(l)' = BeingRead(l)
  <2>1. CASE UNCHANGED consumer
    BY <2>1 DEF Unique, Carried, BeingRead, Working, Read
  <2>2. CASE \A c \in Consumers : ~Working(c) /\ consumer'[c].pc = "select"
    <3>1. \A c \in Consumers : ~Working(c)' /\ ~Read(c) /\ ~Read(c)'
      BY <2>2 DEF Working, Read
    <3> QED
      BY <2>2, <3>1 DEF Unique, Carried, BeingRead
  <2> QED
    BY <1>3, <2>1, <2>2
<1>5. \A l \in Lanes : Sending(l)' = Sending(l)
  BY <1>2 DEF Sending
<1>6. UNCHANGED err \/ (err' # None /\ "wave" \in done')
  <2>1. CASE FailWave
    BY <2>1 DEF FailWave, Fail, Cancel
  <2>2. CASE ~FailWave
    BY <2>2 DEF Stage, AllocateArena, AcquireSlot, ReserveLease, AcquireDaemon, StartWave,
       AcquireArbiter,
     Separated, ReleaseCapacity, CloseInput, Wait, AcquireForCleanup, CleanupGPU,
     Finish
  <2> QED
    BY <2>1, <2>2
<1> QED
  BY <1>1, <1>2, <1>3, <1>4, <1>5, <1>6

\* The steps of the reader
LEMMA AnswersDoes ==
  ASSUME ReaderTypes, NEW e, NEW ss, Answers(e, ss)
  PROVE  /\ reader'.pc = "gone"
         /\ \A l \in Lanes : Sending(l)' = {}
<1>1. reader'.pc = "gone"
  BY DEF Answers, ReaderTypes
<1> QED
  BY <1>1 DEF Sending

LEMMA ReaderAtDoes ==
  ASSUME ReaderTypes, NEW there, ReaderAt(there)
  PROVE  reader'.pc = there /\ reader'.stem = reader.stem
BY DEF ReaderAt, ReaderTypes

LEMMA OnceEachStep ==
  ASSUME IInv, OnceEach, [Next]_vars
  PROVE  OnceEach'
<1>0. Types /\ Mapped /\ Lifetimes /\ frozen \subseteq Stems /\ Unique /\ NewOnly
  BY TypesHold DEF IInv, Places, Types, StageTypes, OnceEach
<1>a. \A l \in Lanes : LaneOnce(l)
  BY DEF OnceEach
<1>b. \A c \in Consumers : LaneOf(c) \in Lanes
  BY DEF LaneOf, Lanes
<1>c. ASSUME UNCHANGED reader PROVE \A l \in Lanes : Sending(l)' = Sending(l)
  BY <1>c DEF Sending
<1>d. ASSUME NEW c \in Consumers, Ends(c), UNCHANGED <<published, reader>>,
             \A s \in Stems : stem'[s].state = "pending" => stem[s].state = "pending"
      PROVE  OnceEach'
  <2>1. ~Working(c)'
    BY <1>d DEF Ends, Working
  <2>2. Unique' /\ \A l \in Lanes : Carried(l)' \subseteq Carried(l)
    <3>1. CASE Working(c)
      BY <1>0, <1>d, <2>1, <3>1, PutsDown DEF Ends
    <3>2. CASE ~Working(c)
      BY <1>0, <1>d, <2>1, <3>2, KeepsOn DEF Ends
    <3> QED
      BY <3>1, <3>2
  <2> QED
    BY <1>c, <1>d, <2>2, QuietOnce DEF Ends
<1>1. ASSUME NEW c \in Consumers, Consume(c) PROVE OnceEach'
  <2>0. UNCHANGED <<published, reader>>
    BY <1>1 DEF Consume, TakeJob, Quit, AcquireStem, AwaitArbiter, Run, ReleaseStem,
       ConsumerStep, daemon
  <2>1. CASE TakeJob(c)
    <3>0. PICK lane \in Lanes : lane = LaneOf(c)
      BY <1>b
    <3>1. PICK s : s = Head(jobs[lane])
      OBVIOUS
    <3>2. /\ consumer[c].pc = "select" /\ consumer'[c].pc = "acquire" /\ Stays(c)
          /\ consumer'[c].stem = s
          /\ jobs[lane] \in Seq(Stems) /\ jobs[lane] # <<>>
          /\ jobs'[lane] = Tail(jobs[lane])
          /\ \A l \in Lanes : l # lane => jobs'[l] = jobs[l]
          /\ UNCHANGED <<stem, features>>
      BY <1>0, <2>1, <3>0, <3>1, TakeJobDoes DEF Types
    <3>3. /\ Elements(jobs'[lane]) = Elements(jobs[lane]) \ {s} /\ s \in Elements(jobs[lane])
          /\ Distinct(jobs'[lane])
      BY <1>a, <3>1, <3>2, TailTakes DEF LaneOnce
    <3>4. s \notin Carried(lane) /\ s \notin features[lane]
      BY <1>a, <3>3 DEF LaneOnce, Queued
    <3>5. /\ Unique'
          /\ \A l \in Lanes : Carried(l)' = IF l = lane THEN Carried(l) \cup {s} ELSE Carried(l)
      BY <1>0, <3>0, <3>2, <3>4, TakesUp DEF Working
    <3>6. ASSUME NEW l \in Lanes PROVE LaneOnce(l)'
      <4>1. CASE l = lane
        <5>1. Queued(l)' = Queued(l) \ {s} /\ s \in Queued(l)
          BY <3>3, <4>1 DEF Queued
        <5>2. Carried(l)' = Carried(l) \cup {s} /\ Distinct(jobs[l])'
          BY <3>3, <3>5, <4>1
        <5>3. Sending(l)' = Sending(l) /\ UNCHANGED <<published, features>>
          BY <1>c, <2>0, <3>2
        <5> QED
          BY <1>a, <3>4, <4>1, <5>1, <5>2, <5>3 DEF LaneOnce, Reached
      <4>2. CASE l # lane
        <5>1. Queued(l)' = Queued(l) /\ Distinct(jobs[l])' /\ Carried(l)' = Carried(l)
          BY <1>a, <3>2, <3>5, <4>2 DEF Queued, LaneOnce
        <5>2. Sending(l)' = Sending(l) /\ UNCHANGED <<published, features>>
          BY <1>c, <2>0, <3>2
        <5> QED
          BY <1>a, <5>1, <5>2 DEF LaneOnce, Reached
      <4> QED
        BY <4>1, <4>2
    <3>7. NewOnly'
      BY <1>0, <2>0, <3>2 DEF NewOnly
    <3> QED
      BY <3>5, <3>6, <3>7 DEF OnceEach
  <2>2. CASE Quit(c)
    BY <1>0, <1>d, <2>0, <2>2, QuitDoes DEF Types
  <2>3. CASE AcquireStem(c)
    <3>1. CASE Ends(c) /\ UNCHANGED stem
      BY <1>d, <2>0, <3>1
    <3>2. CASE ~(Ends(c) /\ UNCHANGED stem)
      <4>0. PICK s : s = consumer[c].stem
        OBVIOUS
      <4>a. /\ Working(c) /\ Working(c)' /\ consumer'[c].stem = s /\ Stays(c)
            /\ UNCHANGED <<jobs, features>> /\ stem'[s].state = "consuming"
            /\ \A x \in Stems : x # s => stem'[x] = stem[x]
        <5>1. Acquires(c, s) /\ consumer[c].pc = "acquire"
          BY <1>0, <2>3, <3>2, <4>0, AcquireStemDoes DEF Types
        <5> QED
          BY <5>1 DEF Acquires, Working
      <4>1. /\ Working(c) /\ Working(c)' /\ consumer'[c].stem = consumer[c].stem /\ Stays(c)
            /\ UNCHANGED <<jobs, features>>
            /\ \A x \in Stems : stem'[x].state = "pending" => stem[x].state = "pending"
        BY <4>0, <4>a
      <4>2. Unique' /\ \A l \in Lanes : Carried(l)' = Carried(l)
        BY <1>0, <4>1, KeepsOn
      <4> QED
        BY <1>c, <2>0, <4>1, <4>2, QuietOnce
    <3> QED
      BY <3>1, <3>2
  <2>4. CASE AwaitArbiter(c) \/ Run(c)
    <3>1. /\ Working(c) /\ Working(c)' /\ consumer'[c].stem = consumer[c].stem /\ Stays(c)
          /\ UNCHANGED <<stem, jobs, features>>
      BY <1>0, <2>4, WorkDoes DEF Types, Working, Read
    <3>2. Unique' /\ \A l \in Lanes : Carried(l)' = Carried(l)
      BY <1>0, <3>1, KeepsOn
    <3> QED
      BY <1>c, <2>0, <3>1, <3>2, QuietOnce
  <2>5. CASE ReleaseStem(c)
    <3>0. PICK lane \in Lanes : lane = LaneOf(c)
      BY <1>b
    <3>1. PICK s : s = consumer[c].stem
      OBVIOUS
    <3>2. /\ consumer[c].pc = "release" /\ s \in Stems /\ Stays(c)
          /\ \A x \in Stems : x # s => stem'[x] = stem[x]
          /\ stem'[s] = IF Readable(s) THEN Released(s) ELSE stem[s]
      BY <1>0, <2>5, <3>1, ReleaseStemDoes DEF Types
    <3>3. \A x \in Stems : stem'[x].state = "pending" => stem[x].state = "pending"
      <4>1. Readable(s) => /\ stem[s].state = "consuming"
                           /\ stem[s] \in [state : StemState, refs : 0..2, acquired : 0..2]
        BY <1>0, <3>2 DEF Readable, Types, StemTypes
      <4>2. Readable(s) => stem'[s].state # "pending"
        BY <3>2, <4>1 DEF Released
      <4> QED
        BY <3>2, <4>2
    <3>4. CASE Ends(c)
      BY <1>d, <2>0, <3>3, <3>4
    <3>5. CASE ~Ends(c)
      <4>1. /\ consumer'[c].pc = "select" /\ UNCHANGED jobs
            /\ features'[lane] = features[lane] \cup {s}
            /\ \A l \in Lanes : l # lane => features'[l] = features[l]
        BY <1>0, <2>5, <3>0, <3>1, <3>5, ReleaseStemDoes DEF Types
      <4>2. /\ Unique' /\ s \in Carried(lane)
            /\ \A l \in Lanes : Carried(l)' = IF l = lane THEN Carried(l) \ {s} ELSE Carried(l)
        BY <1>0, <3>0, <3>1, <3>2, <4>1, PutsDown DEF Working
      <4>3. ASSUME NEW l \in Lanes PROVE LaneOnce(l)'
        <5>1. /\ Sending(l)' = Sending(l) /\ UNCHANGED published
              /\ Queued(l)' = Queued(l) /\ Distinct(jobs[l])'
          BY <1>a, <1>c, <2>0, <4>1 DEF Queued, LaneOnce
        <5>2. CASE l = lane
          BY <1>a, <4>1, <4>2, <5>1, <5>2 DEF LaneOnce, Reached
        <5>3. CASE l # lane
          BY <1>a, <4>1, <4>2, <5>1, <5>3 DEF LaneOnce, Reached
        <5> QED
          BY <5>2, <5>3
      <4>4. NewOnly'
        BY <1>0, <2>0, <3>3 DEF NewOnly
      <4> QED
        BY <4>2, <4>3, <4>4 DEF OnceEach
    <3> QED
      BY <3>4, <3>5
  <2> QED
    BY <1>1, <2>1, <2>2, <2>3, <2>4, <2>5 DEF Consume
<1>2. CASE Stage
  BY <1>0, <1>2, StageKeeps, QuietOnce
<1>3. CASE Reader
  <2>0. UNCHANGED <<features, consumer>>
    BY <1>3 DEF Reader, ReadEvent, ReadAnswer, FreezeStem, PublishStem, RecordStem, SendJob,
       ReaderStep
  <2>1. Unique' /\ \A l \in Lanes : Carried(l)' = Carried(l)
    BY <1>0, <2>0 DEF Unique, Carried, Working
  <2>2. ASSUME NEW e, NEW ss, Answers(e, ss), UNCHANGED <<stem, jobs, published>> PROVE OnceEach'
    BY <1>0, <2>0, <2>1, <2>2, AnswersDoes, QuietOnce DEF Types
  <2>3. ASSUME UNCHANGED <<stem, jobs, published, reader>> PROVE OnceEach'
    BY <1>c, <2>0, <2>1, <2>3, QuietOnce
  <2>4. CASE ReadEvent
    <3>1. reader'.pc = "freeze" /\ UNCHANGED <<stem, jobs, published>>
      BY <2>4 DEF ReadEvent
    <3>2. \A l \in Lanes : Sending(l)' = {}
      BY <3>1 DEF Sending
    <3> QED
      BY <2>0, <2>1, <3>1, <3>2, QuietOnce
  <2>5. CASE ReadAnswer
    BY <2>2, <2>5 DEF ReadAnswer
  <2>6. CASE FreezeStem
    <3>1. CASE ReaderAt("publish")
      <4>1. reader'.pc = "publish" /\ UNCHANGED <<stem, jobs, published>>
        BY <1>0, <2>6, <3>1, ReaderAtDoes DEF FreezeStem, Types
      <4>2. \A l \in Lanes : Sending(l)' = {}
        BY <4>1 DEF Sending
      <4> QED
        BY <2>0, <2>1, <4>1, <4>2, QuietOnce
    <3>2. CASE Answers("error", {})
      BY <2>2, <2>6, <3>2 DEF FreezeStem
    <3> QED
      BY <2>6, <3>1, <3>2 DEF FreezeStem
  <2>7. CASE PublishStem
    <3>1. CASE Answers("error", {}) /\ UNCHANGED stem
      BY <2>2, <2>7, <3>1 DEF PublishStem
    <3>2. CASE /\ stem[reader.stem].state = "pending"
               /\ stem' = [stem EXCEPT ![reader.stem].state = "frozen"]
               /\ ReaderAt("ready")
      <4>1. PICK s \in Stems : s = reader.stem
        BY <1>0, <2>7 DEF PublishStem, ReaderStep, Types, ReaderTypes
      <4>2. /\ reader'.pc = "ready" /\ reader'.stem = s /\ UNCHANGED <<jobs, published>>
            /\ reader.pc = "publish"
        BY <1>0, <2>7, <3>2, <4>1, ReaderAtDoes DEF PublishStem, ReaderStep, Types
      <4>3. \A x \in Stems : x # s => stem'[x] = stem[x]
        BY <1>0, <3>2, <4>1 DEF Types, StemTypes
      <4>4. stem'[s].state = "frozen"
        BY <1>0, <3>2, <4>1 DEF Types, StemTypes
      <4>5. NewOnly'
        BY <1>0, <3>2, <4>1, <4>2, <4>3, <4>4 DEF NewOnly
      <4>6. ASSUME NEW l \in Lanes PROVE LaneOnce(l)'
        <5>1. /\ Sending(l)' = Sending(l) /\ UNCHANGED <<published, features>>
              /\ Queued(l)' = Queued(l) /\ Distinct(jobs[l])' /\ Carried(l)' = Carried(l)
          BY <1>a, <2>0, <2>1, <4>2 DEF Queued, LaneOnce, Sending
        <5> QED
          BY <1>a, <5>1 DEF LaneOnce, Reached
      <4> QED
        BY <2>1, <4>5, <4>6 DEF OnceEach
    <3> QED
      BY <2>7, <3>1, <3>2 DEF PublishStem
  <2>8. CASE RecordStem
    <3>1. CASE /\ published' = published \cup {reader.stem}
               /\ ReaderAt("cpu")
      <4>1. PICK s \in Stems : s = reader.stem
        BY <1>0, <2>8 DEF RecordStem, ReaderStep, Types, ReaderTypes
      <4>2. /\ reader'.pc = "cpu" /\ reader'.stem = s /\ UNCHANGED <<jobs, stem>>
            /\ reader.pc = "ready" /\ published' = published \cup {s}
        BY <1>0, <2>8, <3>1, <4>1, ReaderAtDoes DEF RecordStem, ReaderStep, Types
      <4>3. s \notin published /\ stem[s].state # "pending"
        BY <1>0, <4>1, <4>2 DEF NewOnly
      <4>4. NewOnly'
        BY <1>0, <4>2, <4>3 DEF NewOnly
      <4>5. ASSUME NEW l \in Lanes PROVE LaneOnce(l)'
        <5>1. /\ Sending(l)' = {s} /\ UNCHANGED features
              /\ Queued(l)' = Queued(l) /\ Distinct(jobs[l])' /\ Carried(l)' = Carried(l)
          BY <1>a, <2>0, <2>1, <4>2 DEF Queued, LaneOnce, Sending
        <5>2. Reached(l)' = Reached(l)
          BY <5>1 DEF Reached
        <5> QED
          BY <1>a, <4>2, <4>3, <5>1, <5>2 DEF LaneOnce
      <4> QED
        BY <2>1, <4>4, <4>5 DEF OnceEach
    <3>2. CASE \E e : Answers(e, {}) /\ UNCHANGED published
      BY <2>2, <2>8, <3>2 DEF RecordStem
    <3> QED
      BY <2>8, <3>1, <3>2 DEF RecordStem
  <2>9. ASSUME NEW lane \in Lanes, NEW there,
               (lane = "cpu" /\ there = "gpu") \/ (lane = "gpu" /\ there = "read"),
               SendJob(lane, there)
        PROVE  OnceEach'
    <3>1. CASE UNCHANGED <<reader, jobs>>
      BY <2>3, <2>9, <3>1 DEF SendJob
    <3>2. CASE Answers(cause, {}) /\ UNCHANGED jobs
      BY <2>2, <2>9, <3>2 DEF SendJob
    <3>3. CASE jobs' = [jobs EXCEPT ![lane] = Append(@, reader.stem)] /\ ReaderAt(there)
      <4>1. PICK s \in Stems : s = reader.stem
        BY <1>0, <2>9 DEF SendJob, ReaderStep, Types, ReaderTypes, Lanes
      <4>2. /\ reader.pc = lane /\ reader'.pc = there /\ reader'.stem = s
            /\ UNCHANGED <<published, stem>>
        BY <1>0, <2>9, <3>3, <4>1, ReaderAtDoes DEF SendJob, ReaderStep, Types
      <4>3. /\ jobs[lane] \in Seq(Stems) /\ jobs'[lane] = Append(jobs[lane], s)
            /\ \A l \in Lanes : l # lane => jobs'[l] = jobs[l]
        BY <1>0, <3>3, <4>1 DEF Types, WaveTypes
      <4>4. s \in Sending(lane) /\ s \in published
        <5>1. s \in Sending(lane)
          BY <2>9, <4>1, <4>2 DEF Sending
        <5> QED
          BY <1>a, <5>1 DEF LaneOnce
      <4>5. s \notin Reached(lane)
        BY <1>a, <4>4 DEF LaneOnce
      <4>6. Elements(jobs'[lane]) = Elements(jobs[lane]) \cup {s} /\ Distinct(jobs'[lane])
        BY <1>a, <4>3, <4>5, AppendAdds DEF LaneOnce, Reached, Queued
      <4>7. Sending(lane)' = {}
        BY <2>9, <4>2 DEF Sending
      <4>8. \A l \in Lanes : Sending(l)' \subseteq Sending(l)
        BY <2>9, <4>1, <4>2, <4>7 DEF Sending, Lanes
      <4>9. ASSUME NEW l \in Lanes PROVE LaneOnce(l)'
        <5>1. UNCHANGED <<published, features>> /\ Carried(l)' = Carried(l)
          BY <2>0, <2>1, <4>2
        <5>2. CASE l = lane
          <6>1. Queued(l)' = Queued(l) \cup {s} /\ Distinct(jobs[l])' /\ Sending(l)' = {}
            BY <4>6, <4>7, <5>2 DEF Queued
          <6> QED
            BY <1>a, <4>4, <4>5, <5>1, <5>2, <6>1 DEF LaneOnce, Reached
        <5>3. CASE l # lane
          <6>1. Queued(l)' = Queued(l) /\ Distinct(jobs[l])' /\ Sending(l)' \subseteq Sending(l)
            BY <1>a, <4>3, <4>8, <5>3 DEF Queued, LaneOnce
          <6> QED
            BY <1>a, <5>1, <6>1 DEF LaneOnce, Reached
        <5> QED
          BY <5>2, <5>3
      <4>10. NewOnly'
        BY <1>0, <2>9, <4>2 DEF NewOnly
      <4> QED
        BY <2>1, <4>9, <4>10 DEF OnceEach
    <3> QED
      BY <2>9, <3>1, <3>2, <3>3 DEF SendJob
  <2>10. CASE SendJob("cpu", "gpu")
    BY <2>9, <2>10 DEF Lanes
  <2>11. CASE SendJob("gpu", "read")
    BY <2>9, <2>11 DEF Lanes
  <2> QED
    BY <1>3, <2>4, <2>5, <2>6, <2>7, <2>8, <2>10, <2>11 DEF Reader
<1>4. CASE FailAll
  <2>1. UNCHANGED <<published, features, jobs, consumer, reader>>
    BY <1>4 DEF FailAll, wave, daemon
  <2>2. \A s \in Stems : stem'[s].state = "pending" => stem[s].state = "pending"
    BY <1>4 DEF FailAll
  <2>3. Unique' /\ \A l \in Lanes : Carried(l)' = Carried(l)
    BY <1>0, <2>1 DEF Unique, Carried, Working
  <2> QED
    BY <1>c, <2>1, <2>2, <2>3, QuietOnce
<1>5. CASE Expire({"demucs"}) \/ Expire({"demucs", "post", "wave"}) \/ UNCHANGED vars
  <2>1. UNCHANGED <<published, features, jobs, consumer, reader, stem>>
    BY <1>5 DEF Expire, wave, daemon, vars
  <2>2. Unique' /\ \A l \in Lanes : Carried(l)' = Carried(l)
    BY <1>0, <2>1 DEF Unique, Carried, Working
  <2> QED
    BY <1>c, <2>1, <2>2, QuietOnce
<1> QED
  BY <1>1, <1>2, <1>3, <1>4, <1>5 DEF Next

\* A lane that carries and reads the same stems as before keeps its count.
LEMMA QuietLost ==
  ASSUME NothingLost, "wave" \notin done, UNCHANGED <<published, features, jobs, err>>,
         closed => closed',
         \A l \in Lanes : /\ Carried(l)' = Carried(l) /\ BeingRead(l)' = BeingRead(l)
                          /\ Sending(l) \subseteq Sending(l)',
         \A c \in Consumers : consumer'[c].pc = "gone" => consumer[c].pc = "gone",
         \A s \in Stems : /\ stem'[s].state = "failed" => stem[s].state = "failed"
                          /\ stem'[s].acquired = stem[s].acquired
  PROVE  NothingLost'
<1>1. \A l \in Lanes : /\ Reached(l)' = Reached(l) /\ ReadIn(l)' = ReadIn(l)
  BY DEF Reached, ReadIn, Queued
<1>2. "cpu" \in Lanes /\ "gpu" \in Lanes
  BY DEF Lanes
<1>3. err' = None /\ \A l \in Lanes : (published \subseteq Reached(l) \cup Sending(l))'
  BY <1>1 DEF NothingLost
<1>4. \A c \in Consumers : consumer'[c].pc = "gone" => closed' /\ jobs'[LaneOf(c)] = <<>>
  BY DEF NothingLost
<1>5. ASSUME NEW s \in Stems
      PROVE  /\ stem'[s].state # "failed"
             /\ stem'[s].acquired = One(s \in ReadIn("cpu")') + One(s \in ReadIn("gpu")')
  <2>1. stem[s].state # "failed"
        /\ stem[s].acquired = One(s \in ReadIn("cpu")) + One(s \in ReadIn("gpu"))
    BY DEF NothingLost
  <2> QED
    BY <1>1, <1>2, <2>1
<1> QED
  BY <1>3, <1>4, <1>5 DEF NothingLost

LEMMA NothingLostStep ==
  ASSUME IInv, OnceEach, NothingLost, [Next]_vars
  PROVE  NothingLost'
<1> SUFFICES ASSUME "wave" \notin done' PROVE NothingLost'
  BY DEF NothingLost
<1>0. /\ Types /\ Mapped /\ Lifetimes /\ frozen \subseteq Stems /\ Unique /\ NewOnly
      /\ \A l \in Lanes : LaneOnce(l)
      /\ \A c \in Consumers : LaneOf(c) \in Lanes
      /\ "cpu" \in Lanes /\ "gpu" \in Lanes
  BY TypesHold DEF IInv, Places, Types, StageTypes, OnceEach, LaneOf, Lanes
<1>a. ASSUME UNCHANGED reader PROVE \A l \in Lanes : Sending(l)' = Sending(l)
  BY <1>a DEF Sending
<1>1. ASSUME NEW c \in Consumers, Consume(c) PROVE NothingLost'
  <2>0. UNCHANGED <<published, reader, closed>>
    BY <1>1 DEF Consume, TakeJob, Quit, AcquireStem, AwaitArbiter, Run, ReleaseStem,
       ConsumerStep, daemon
  <2>a. PICK lane \in Lanes : lane = LaneOf(c)
    BY <1>0
  <2>b. PICK s : s = consumer[c].stem
    OBVIOUS
  <2>c. \A l \in Lanes : Sending(l)' = Sending(l)
    BY <1>a, <2>0
  <2>1. CASE TakeJob(c)
    <3>1. PICK x : x = Head(jobs[lane])
      OBVIOUS
    <3>2. /\ consumer[c].pc = "select" /\ consumer'[c].pc = "acquire" /\ Stays(c)
          /\ consumer'[c].stem = x
          /\ jobs[lane] \in Seq(Stems) /\ jobs[lane] # <<>>
          /\ jobs'[lane] = Tail(jobs[lane])
          /\ \A l \in Lanes : l # lane => jobs'[l] = jobs[l]
          /\ UNCHANGED <<stem, features, err, done>>
      BY <1>0, <2>1, <2>a, <3>1, TakeJobDoes DEF Types
    <3>3. /\ Elements(jobs'[lane]) = Elements(jobs[lane]) \ {x} /\ x \in Elements(jobs[lane])
      BY <1>0, <3>1, <3>2, TailTakes DEF LaneOnce
    <3>4. x \notin Carried(lane)
      BY <1>0, <3>3 DEF LaneOnce, Queued
    <3>5. \A l \in Lanes : Carried(l)' = IF l = lane THEN Carried(l) \cup {x} ELSE Carried(l)
      BY <1>0, <2>a, <3>2, <3>4, TakesUp DEF Working
    <3>6. \A l \in Lanes : BeingRead(l)' = BeingRead(l)
      BY <3>2, ReadsOn DEF Read
    <3>7. \A l \in Lanes : Reached(l)' = Reached(l)
      BY <3>2, <3>3, <3>5 DEF Reached, Queued
    <3>8. \A l \in Lanes : (published \subseteq Reached(l) \cup Sending(l))'
      BY <2>0, <2>c, <3>2, <3>7 DEF NothingLost
    <3>9. \A d \in Consumers : consumer'[d].pc = "gone" => closed' /\ jobs'[LaneOf(d)] = <<>>
      <4>1. ASSUME NEW d \in Consumers, consumer'[d].pc = "gone"
            PROVE  closed' /\ jobs'[LaneOf(d)] = <<>>
        <5>1. d # c /\ consumer[d].pc = "gone"
          BY <3>2, <4>1 DEF Stays
        <5>2. closed /\ jobs[LaneOf(d)] = <<>>
          BY <3>2, <5>1 DEF NothingLost
        <5> QED
          BY <1>0, <2>0, <3>2, <5>2
      <4> QED
        BY <4>1
    <3>10. ReadIn("cpu")' = ReadIn("cpu") /\ ReadIn("gpu")' = ReadIn("gpu")
      BY <1>0, <3>2, <3>6 DEF ReadIn
    <3>11. ASSUME NEW y \in Stems
           PROVE  /\ stem'[y].state # "failed"
                  /\ stem'[y].acquired = One(y \in ReadIn("cpu")') + One(y \in ReadIn("gpu")')
      BY <3>2, <3>10 DEF NothingLost
    <3> QED
      BY <3>2, <3>8, <3>9, <3>11 DEF NothingLost
  <2>2. CASE Quit(c)
    <3>1. /\ consumer[c].pc = "select" /\ Ends(c) /\ UNCHANGED <<stem, err, done>>
          /\ closed /\ jobs[LaneOf(c)] = <<>>
      BY <1>0, <2>2, QuitDoes DEF Types
    <3>2. \A l \in Lanes : Carried(l)' = Carried(l) /\ BeingRead(l)' = BeingRead(l)
      BY <1>0, <3>1, KeepsOn, ReadsOn DEF Ends, Working, Read
    <3>3. \A l \in Lanes : Reached(l)' = Reached(l) /\ ReadIn(l)' = ReadIn(l)
      BY <3>1, <3>2 DEF Reached, ReadIn, Queued, Ends
    <3>4. \A l \in Lanes : (published \subseteq Reached(l) \cup Sending(l))'
      BY <2>0, <2>c, <3>1, <3>3 DEF NothingLost
    <3>5. \A d \in Consumers : consumer'[d].pc = "gone" => closed' /\ jobs'[LaneOf(d)] = <<>>
      BY <2>0, <3>1 DEF Ends, Stays, NothingLost
    <3>6. ASSUME NEW y \in Stems
          PROVE  /\ stem'[y].state # "failed"
                 /\ stem'[y].acquired = One(y \in ReadIn("cpu")') + One(y \in ReadIn("gpu")')
      BY <1>0, <3>1, <3>3 DEF NothingLost
    <3> QED
      BY <3>1, <3>4, <3>5, <3>6 DEF NothingLost
  <2>3. CASE AcquireStem(c)
    <3>1. Acquires(c, s) /\ consumer[c].pc = "acquire" /\ s \in Stems
      BY <1>0, <2>3, <2>b, AcquireStemDoes DEF Types
    <3>2. /\ Working(c) /\ Working(c)' /\ ~Read(c) /\ Read(c)' /\ consumer'[c].stem = s
          /\ Stays(c) /\ UNCHANGED <<jobs, features, err, done>>
      BY <3>1 DEF Acquires, Working, Read
    <3>3. /\ \A l \in Lanes : Carried(l)' = Carried(l)
          /\ \A l \in Lanes :
                BeingRead(l)' = IF l = lane THEN BeingRead(l) \cup {s} ELSE BeingRead(l)
      BY <1>0, <2>a, <2>b, <3>2, KeepsOn, BeginsReading
    <3>4. \A l \in Lanes : Reached(l)' = Reached(l)
      BY <3>2, <3>3 DEF Reached, Queued
    <3>5. \A l \in Lanes : (published \subseteq Reached(l) \cup Sending(l))'
      BY <2>0, <2>c, <3>2, <3>4 DEF NothingLost
    <3>6. \A d \in Consumers : consumer'[d].pc = "gone" => closed' /\ jobs'[LaneOf(d)] = <<>>
      BY <2>0, <3>2 DEF Stays, NothingLost, Read
    <3>7. s \notin ReadIn(lane)
      <4>1. s \in Carried(lane)
        BY <2>a, <2>b, <3>2 DEF Carried
      <4>2. s \notin features[lane]
        BY <1>0, <4>1 DEF LaneOnce
      <4>3. s \notin BeingRead(lane)
        BY <1>0, <2>a, <2>b, <3>2 DEF BeingRead, Unique, Read, Working
      <4> QED
        BY <4>2, <4>3 DEF ReadIn
    <3>8. \A l \in Lanes : ReadIn(l)' = IF l = lane THEN ReadIn(l) \cup {s} ELSE ReadIn(l)
      BY <3>2, <3>3 DEF ReadIn
    <3>9. ASSUME NEW y \in Stems
          PROVE  /\ stem'[y].state # "failed"
                 /\ stem'[y].acquired = One(y \in ReadIn("cpu")') + One(y \in ReadIn("gpu")')
      <4>1. /\ stem[y].state # "failed"
            /\ stem[y].acquired = One(y \in ReadIn("cpu")) + One(y \in ReadIn("gpu"))
        BY <3>2 DEF NothingLost
      <4>2. CASE y # s
        BY <1>0, <3>1, <3>8, <4>1, <4>2 DEF Acquires
      <4>3. CASE y = s
        <5>1. stem'[s].state = "consuming" /\ stem'[s].acquired = stem[s].acquired + 1
          BY <3>1 DEF Acquires
        <5>2. CASE lane = "cpu"
          BY <1>0, <3>7, <3>8, <4>1, <4>3, <5>1, <5>2 DEF One
        <5>3. CASE lane = "gpu"
          BY <1>0, <3>7, <3>8, <4>1, <4>3, <5>1, <5>3 DEF One
        <5> QED
          BY <2>a, <5>2, <5>3 DEF Lanes
      <4> QED
        BY <4>2, <4>3
    <3> QED
      BY <3>2, <3>5, <3>6, <3>9 DEF NothingLost
  <2>4. CASE AwaitArbiter(c) \/ Run(c)
    <3>1. /\ Read(c) /\ Read(c)' /\ consumer'[c].stem = consumer[c].stem /\ Stays(c)
          /\ UNCHANGED <<stem, jobs, features, err, done>>
      BY <1>0, <2>4, WorkDoes DEF Types
    <3>2. \A l \in Lanes : Carried(l)' = Carried(l) /\ BeingRead(l)' = BeingRead(l)
      BY <1>0, <3>1, KeepsOn, ReadsOn DEF Read, Working
    <3>3. \A d \in Consumers : consumer'[d].pc = "gone" => consumer[d].pc = "gone"
      BY <3>1 DEF Stays, Read
    <3> QED
      BY <2>0, <2>c, <3>1, <3>2, <3>3, QuietLost
  <2>5. CASE ReleaseStem(c)
    <3>1. /\ consumer[c].pc = "release" /\ s \in Stems /\ Stays(c)
          /\ \A x \in Stems : x # s => stem'[x] = stem[x]
          /\ stem'[s] = Released(s) /\ stem[s].state = "consuming"
          /\ consumer'[c].pc = "select" /\ UNCHANGED <<jobs, err, done>>
          /\ features'[lane] = features[lane] \cup {s}
          /\ \A l \in Lanes : l # lane => features'[l] = features[l]
      BY <1>0, <2>5, <2>a, <2>b, ReleaseStemDoes DEF Types, Readable
    <3>2. /\ \A l \in Lanes : Carried(l)' = IF l = lane THEN Carried(l) \ {s} ELSE Carried(l)
          /\ s \in Carried(lane)
      BY <1>0, <2>a, <2>b, <3>1, PutsDown DEF Working
    <3>3. /\ \A l \in Lanes :
               BeingRead(l)' = IF l = lane THEN BeingRead(l) \ {s} ELSE BeingRead(l)
          /\ s \in BeingRead(lane)
      BY <1>0, <2>a, <2>b, <3>1, EndsReading DEF Read
    <3>4. \A l \in Lanes : Reached(l)' = Reached(l) /\ ReadIn(l)' = ReadIn(l)
      BY <3>1, <3>2, <3>3 DEF Reached, Queued, ReadIn
    <3>5. \A l \in Lanes : (published \subseteq Reached(l) \cup Sending(l))'
      BY <2>0, <2>c, <3>1, <3>4 DEF NothingLost
    <3>6. \A d \in Consumers : consumer'[d].pc = "gone" => closed' /\ jobs'[LaneOf(d)] = <<>>
      BY <2>0, <3>1 DEF Stays, NothingLost
    <3>7. /\ stem'[s].state # "failed" /\ stem'[s].acquired = stem[s].acquired
      <4>1. stem[s] \in [state : StemState, refs : 0..2, acquired : 0..2]
        BY <1>0, <3>1 DEF Types, StemTypes
      <4> QED
        BY <3>1, <4>1 DEF Released
    <3>8. ASSUME NEW y \in Stems
          PROVE  /\ stem'[y].state # "failed"
                 /\ stem'[y].acquired = One(y \in ReadIn("cpu")') + One(y \in ReadIn("gpu")')
      <4>1. /\ stem[y].state # "failed"
            /\ stem[y].acquired = One(y \in ReadIn("cpu")) + One(y \in ReadIn("gpu"))
        BY <3>1 DEF NothingLost
      <4> QED
        BY <1>0, <3>1, <3>4, <3>7, <4>1
    <3> QED
      BY <3>1, <3>5, <3>6, <3>8 DEF NothingLost
  <2> QED
    BY <1>1, <2>1, <2>2, <2>3, <2>4, <2>5 DEF Consume
<1>2. CASE Stage
  <2>1. "wave" \notin done
    BY <1>2 DEF Stage, AllocateArena, AcquireSlot, ReserveLease, AcquireDaemon, StartWave,
       AcquireArbiter,
     Separated, ReleaseCapacity, FailWave, CloseInput, Wait, AcquireForCleanup, CleanupGPU,
     Finish, Takes, TakesDeferred, Take, Goto, Return, Fail, Cancel, contexts
  <2>2. /\ UNCHANGED <<stem, published, features, jobs, err>>
        /\ \A l \in Lanes : /\ Carried(l)' = Carried(l) /\ BeingRead(l)' = BeingRead(l)
                            /\ Sending(l)' = Sending(l)
        /\ closed => closed'
        /\ UNCHANGED consumer \/ \A c \in Consumers : consumer'[c].pc = "select"
    BY <1>0, <1>2, StageKeeps
  <2> QED
    BY <2>1, <2>2, QuietLost
<1>3. CASE Reader
  <2>0. UNCHANGED <<features, consumer, closed>>
    BY <1>3 DEF Reader, ReadEvent, ReadAnswer, FreezeStem, PublishStem, RecordStem, SendJob,
       ReaderStep
  <2>a. "wave" \notin done /\ UNCHANGED err
    BY <1>3 DEF Reader, ReadEvent, ReadAnswer, FreezeStem, PublishStem, RecordStem, SendJob,
       Fail, Cancel, contexts
  <2>b. \A l \in Lanes : Carried(l)' = Carried(l) /\ BeingRead(l)' = BeingRead(l)
    BY <2>0 DEF Carried, BeingRead, Working, Read
  <2>c. ASSUME reader.pc \in {"read", "freeze", "publish"} PROVE \A l \in Lanes : Sending(l) = {}
    BY <2>c DEF Sending
  <2>1. CASE ReadEvent \/ ReadAnswer \/ FreezeStem
    <3>1. reader.pc \in {"read", "freeze"} /\ UNCHANGED <<stem, jobs, published>>
      BY <2>1 DEF ReadEvent, ReadAnswer, FreezeStem, ReaderStep
    <3> QED
      BY <2>0, <2>a, <2>b, <2>c, <3>1, QuietLost
  <2>2. CASE PublishStem
    <3>1. reader.pc = "publish" /\ UNCHANGED <<jobs, published>> /\ reader.stem \in Stems
      BY <1>0, <2>2 DEF PublishStem, ReaderStep, Types, ReaderTypes
    <3>2. ASSUME NEW y \in Stems
          PROVE  /\ stem'[y].state = "failed" => stem[y].state = "failed"
                 /\ stem'[y].acquired = stem[y].acquired
      <4>1. CASE UNCHANGED stem
        BY <4>1
      <4>2. CASE stem' = [stem EXCEPT ![reader.stem].state = "frozen"]
        <5>1. stem[y] \in [state : StemState, refs : 0..2, acquired : 0..2]
          BY <1>0 DEF Types, StemTypes
        <5>2. stem'[y] = IF y = reader.stem THEN [stem[y] EXCEPT !.state = "frozen"] ELSE stem[y]
          BY <1>0, <3>1, <4>2 DEF Types, StemTypes
        <5> QED
          BY <5>1, <5>2
      <4> QED
        BY <2>2, <4>1, <4>2 DEF PublishStem
    <3> QED
      BY <2>0, <2>a, <2>b, <2>c, <3>1, <3>2, QuietLost
  <2>3. CASE RecordStem
    <3>1. PICK s : s = reader.stem
      OBVIOUS
    <3>2. /\ reader'.pc = "cpu" /\ reader'.stem = s /\ UNCHANGED <<jobs, stem>>
          /\ reader.pc = "ready" /\ published' = published \cup {s}
      <4>1. published' = published \cup {reader.stem} /\ ReaderAt("cpu")
        BY <2>3, <2>a DEF RecordStem, Fail, Cancel
      <4> QED
        BY <1>0, <2>3, <3>1, <4>1, ReaderAtDoes DEF RecordStem, ReaderStep, Types
    <3>3. \A l \in Lanes : /\ Reached(l)' = Reached(l) /\ ReadIn(l)' = ReadIn(l)
                           /\ Sending(l) = {} /\ Sending(l)' = {s}
      BY <2>0, <2>b, <3>2 DEF Reached, ReadIn, Sending, Queued
    <3>4. \A l \in Lanes : (published \subseteq Reached(l) \cup Sending(l))'
      BY <2>a, <3>2, <3>3 DEF NothingLost
    <3>5. \A d \in Consumers : consumer'[d].pc = "gone" => closed' /\ jobs'[LaneOf(d)] = <<>>
      BY <2>0, <2>a, <3>2 DEF NothingLost
    <3>6. ASSUME NEW y \in Stems
          PROVE  /\ stem'[y].state # "failed"
                 /\ stem'[y].acquired = One(y \in ReadIn("cpu")') + One(y \in ReadIn("gpu")')
      BY <1>0, <2>a, <3>2, <3>3 DEF NothingLost
    <3> QED
      BY <2>a, <3>4, <3>5, <3>6 DEF NothingLost
  <2>4. ASSUME NEW lane \in Lanes, NEW there,
               (lane = "cpu" /\ there = "gpu") \/ (lane = "gpu" /\ there = "read"),
               SendJob(lane, there)
        PROVE  NothingLost'
    <3>1. CASE UNCHANGED <<reader, jobs>>
      BY <1>a, <2>0, <2>4, <2>a, <2>b, <3>1, QuietLost DEF SendJob
    <3>2. CASE ~closed /\ jobs' = [jobs EXCEPT ![lane] = Append(@, reader.stem)] /\ ReaderAt(there)
      <4>1. PICK s \in Stems : s = reader.stem
        BY <1>0, <2>4 DEF SendJob, ReaderStep, Types, ReaderTypes, Lanes
      <4>2. /\ reader.pc = lane /\ reader'.pc = there /\ reader'.stem = s
            /\ UNCHANGED <<published, stem>>
        BY <1>0, <2>4, <3>2, <4>1, ReaderAtDoes DEF SendJob, ReaderStep, Types
      <4>3. /\ jobs[lane] \in Seq(Stems) /\ jobs'[lane] = Append(jobs[lane], s)
            /\ \A l \in Lanes : l # lane => jobs'[l] = jobs[l]
        BY <1>0, <3>2, <4>1 DEF Types, WaveTypes
      <4>4. s \notin Reached(lane)
        BY <1>0, <2>4, <4>1, <4>2 DEF LaneOnce, Sending
      <4>5. Elements(jobs'[lane]) = Elements(jobs[lane]) \cup {s}
        BY <1>0, <4>3, <4>4, AppendAdds DEF LaneOnce, Reached, Queued
      <4>6. \A l \in Lanes : Reached(l)' = IF l = lane THEN Reached(l) \cup {s} ELSE Reached(l)
        BY <2>0, <2>b, <4>3, <4>5 DEF Reached, Queued
      <4>7. \A l \in Lanes : l # lane => Sending(l)' = Sending(l)
        BY <2>4, <4>1, <4>2 DEF Sending, Lanes
      <4>8. \A l \in Lanes : Sending(l) \subseteq {s}
        BY <4>1 DEF Sending
      <4>9. \A l \in Lanes : (published \subseteq Reached(l) \cup Sending(l))'
        BY <2>a, <4>2, <4>6, <4>7, <4>8 DEF NothingLost
      <4>10. \A d \in Consumers : consumer'[d].pc # "gone"
        BY <2>0, <2>a, <3>2 DEF NothingLost
      <4>11. \A l \in Lanes : ReadIn(l)' = ReadIn(l)
        BY <2>0, <2>b DEF ReadIn
      <4>12. ASSUME NEW y \in Stems
             PROVE  /\ stem'[y].state # "failed"
                    /\ stem'[y].acquired = One(y \in ReadIn("cpu")') + One(y \in ReadIn("gpu")')
        BY <1>0, <2>a, <4>2, <4>11 DEF NothingLost
      <4> QED
        BY <2>a, <4>9, <4>10, <4>12 DEF NothingLost
    <3> QED
      BY <2>4, <2>a, <3>1, <3>2 DEF SendJob
  <2>5. CASE SendJob("cpu", "gpu")
    BY <1>0, <2>4, <2>5
  <2>6. CASE SendJob("gpu", "read")
    BY <1>0, <2>4, <2>6
  <2> QED
    BY <1>3, <2>1, <2>2, <2>3, <2>5, <2>6 DEF Reader
<1>4. CASE FailAll
  BY <1>4 DEF FailAll
<1>5. CASE Expire({"demucs"}) \/ Expire({"demucs", "post", "wave"}) \/ UNCHANGED vars
  <2>1. UNCHANGED <<published, features, jobs, consumer, reader, stem, closed, err>>
    BY <1>5 DEF Expire, wave, daemon, vars
  <2>2. \A l \in Lanes : /\ Carried(l)' = Carried(l) /\ BeingRead(l)' = BeingRead(l)
                         /\ Sending(l)' = Sending(l)
    BY <2>1 DEF Carried, BeingRead, Sending, Working, Read
  <2>3. "wave" \notin done
    BY <1>5 DEF Expire, vars
  <2> QED
    BY <2>1, <2>2, <2>3, QuietLost
<1> QED
  BY <1>1, <1>2, <1>3, <1>4, <1>5 DEF Next

\* A reader that has gone does nothing more, and only one that has gone leaves an answer.
LEMMA GoneIsFinal ==
  ASSUME IInv, SeparationEnds, [Next]_vars
  PROVE  /\ reader.pc = "gone" => UNCHANGED <<reader, answer, published>>
         /\ answer' # None => reader'.pc = "gone"
<1>0. Types /\ Lifetimes /\ (answer # None => reader.pc = "gone")
  BY TypesHold DEF IInv, Places, SeparationEnds
<1>1. CASE Reader
  <2>1. reader.pc # "gone" /\ answer = None
    BY <1>0, <1>1 DEF Reader, ReadEvent, ReadAnswer, FreezeStem, PublishStem, RecordStem, SendJob,
       ReaderStep
  <2>2. UNCHANGED answer \/ \E e, ss : Answers(e, ss)
    BY <1>1 DEF Reader, ReadEvent, ReadAnswer, FreezeStem, PublishStem, RecordStem, SendJob
  <2>3. \A e, ss : Answers(e, ss) => reader'.pc = "gone"
    BY <1>0, AnswersDoes DEF Types
  <2> QED
    BY <2>1, <2>2, <2>3
<1>2. CASE AcquireArbiter
  <2>1. reader.pc = "off" /\ UNCHANGED answer
    BY <1>0, <1>2 DEF AcquireArbiter, StageStep, Lifetimes, Unstarted
  <2> QED
    BY <1>0, <2>1
<1>3. CASE UNCHANGED <<reader, answer, published>>
  BY <1>0, <1>3
<1>4. CASE Stage \/ FailAll \/ (\E c \in Consumers : Consume(c)) \/ Expire({"demucs"})
           \/ Expire({"demucs", "post", "wave"}) \/ UNCHANGED vars
  <2>1. UNCHANGED published
    BY <1>4 DEF Stage, AllocateArena, AcquireSlot, ReserveLease, AcquireDaemon, StartWave,
       AcquireArbiter,
     Separated, ReleaseCapacity, FailWave, CloseInput, Wait, AcquireForCleanup, CleanupGPU,
     Finish, StageStep, Consume, TakeJob, Quit, AcquireStem, AwaitArbiter, Run, ReleaseStem,
     ConsumerStep, FailAll, Expire, wave, vars
  <2>2. AcquireArbiter \/ Reader \/ UNCHANGED daemon
    BY Frames
  <2> QED
    BY <1>1, <1>2, <1>3, <2>1, <2>2 DEF daemon
<1> QED
  BY <1>1, <1>4 DEF Next

\* Where the stage goes, and which of its errors a step may write.
LEMMA StageMoves ==
  ASSUME IInv, [Next]_vars
  PROVE  /\ UNCHANGED <<pc, sepErr, waveErr, closed>>
         \/ /\ pc = "separate" /\ pc' = "release" /\ Separated
         \/ /\ pc = "release" /\ pc' = "fail" /\ UNCHANGED <<sepErr, waveErr, closed>>
         \/ /\ pc = "fail" /\ pc' = "close" /\ FailWave /\ UNCHANGED <<sepErr, waveErr, closed>>
         \/ /\ pc = "close" /\ pc' = "wait" /\ UNCHANGED <<sepErr, waveErr>>
         \/ /\ pc = "wait" /\ Joined' /\ Wait /\ UNCHANGED <<sepErr, closed>>
         \/ /\ Joined /\ Joined' /\ UNCHANGED <<sepErr, waveErr, closed>>
         \/ /\ ~Joined /\ ~Joined' /\ pc' \notin {"release", "fail", "close", "wait"}
            /\ UNCHANGED <<sepErr, waveErr, closed>>
<1>0. ClosedAt
  BY DEF IInv, Places
<1>1. CASE Stage
  BY <1>0, <1>1 DEF Stage, AllocateArena, AcquireSlot, ReserveLease, AcquireDaemon, StartWave,
     AcquireArbiter, Separated, ReleaseCapacity, FailWave, CloseInput, Wait, AcquireForCleanup,
     CleanupGPU, Finish, StageStep, Goto, Takes, TakesDeferred, Return, Joined, ClosedAt
<1>2. CASE ~Stage
  <2>1. UNCHANGED stage /\ UNCHANGED closed
    BY <1>2 DEF Next, Reader, ReadEvent, ReadAnswer, FreezeStem, PublishStem, RecordStem, SendJob,
     ReaderStep, Consume, TakeJob, Quit, AcquireStem, AwaitArbiter, Run, ReleaseStem,
     ConsumerStep, FailAll, Expire, wave, vars, stage
  <2> QED
    BY <2>1 DEF stage
<1> QED
  BY <1>1, <1>2

\* An error of the wavefront stays, and so does the end of its context.
LEMMA ErrorsStay ==
  ASSUME ContextTypes, [Next]_vars
  PROVE  /\ err # None => err' # None
         /\ done \subseteq done'
<1>1. ASSUME NEW e, Fail(e) PROVE err # None => err' # None
  BY <1>1 DEF Fail
<1>2. ASSUME NEW e, Fail(e) PROVE done \subseteq done'
  BY <1>2 DEF Fail, Cancel
<1>3. ASSUME NEW e, NEW given, Return(e, given) PROVE done \subseteq done'
  BY <1>3 DEF Return, ContextTypes
<1>4. CASE Stage
  BY <1>1, <1>2, <1>3, <1>4 DEF Stage, AllocateArena, AcquireSlot, ReserveLease, AcquireDaemon,
     StartWave,
     AcquireArbiter, Separated, ReleaseCapacity, FailWave, CloseInput, Wait, AcquireForCleanup,
     CleanupGPU, Finish, contexts
<1>5. CASE Reader
  BY <1>1, <1>2, <1>5 DEF Reader, ReadEvent, ReadAnswer, FreezeStem, PublishStem, RecordStem,
     SendJob,
     contexts
<1>6. CASE \E c \in Consumers : Consume(c)
  BY <1>1, <1>2, <1>6 DEF Consume, TakeJob, Quit, AcquireStem, AwaitArbiter, Run, ReleaseStem,
     contexts
<1>7. CASE FailAll \/ Expire({"demucs"}) \/ Expire({"demucs", "post", "wave"}) \/ UNCHANGED vars
  BY <1>7 DEF FailAll, Expire, wave, vars
<1> QED
  BY <1>4, <1>5, <1>6, <1>7 DEF Next

LEMMA SeparationEndsStep ==
  ASSUME IInv, SeparationEnds, [Next]_vars
  PROVE  SeparationEnds'
<1>0. /\ Types /\ (err # None => err' # None)
      /\ reader.pc = "gone" => UNCHANGED <<reader, answer, published>>
      /\ answer' # None => reader'.pc = "gone"
  BY TypesHold, GoneIsFinal, ErrorsStay DEF Types
<1>1. CASE UNCHANGED <<pc, sepErr, waveErr, closed>>
  BY <1>0, <1>1 DEF SeparationEnds, Joined
<1>2. CASE pc = "separate" /\ pc' = "release" /\ Separated
  <2>1. sepErr' = None => reader.pc = "gone"
    BY <1>2, StemWavefrontAssumption DEF Separated, SeparationEnds
  <2> QED
    BY <1>0, <1>2, <2>1 DEF SeparationEnds, Joined
<1>3. CASE pc = "release" /\ pc' = "fail" /\ UNCHANGED <<sepErr, waveErr, closed>>
  BY <1>0, <1>3 DEF SeparationEnds, Joined
<1>4. CASE pc = "fail" /\ pc' = "close" /\ FailWave /\ UNCHANGED <<sepErr, waveErr, closed>>
  <2>1. sepErr # None => err' # None
    BY <1>4 DEF FailWave, Fail
  <2> QED
    BY <1>0, <1>4, <2>1 DEF SeparationEnds, Joined
<1>5. CASE pc = "close" /\ pc' = "wait" /\ UNCHANGED <<sepErr, waveErr>>
  BY <1>0, <1>5 DEF SeparationEnds, Joined
<1>6. CASE pc = "wait" /\ Joined' /\ Wait /\ UNCHANGED <<sepErr, closed>>
  BY <1>0, <1>6 DEF SeparationEnds
<1>7. CASE Joined /\ Joined' /\ UNCHANGED <<sepErr, waveErr, closed>>
  BY <1>0, <1>7 DEF SeparationEnds
<1>8. CASE /\ ~Joined /\ ~Joined' /\ pc' \notin {"release", "fail", "close", "wait"}
           /\ UNCHANGED <<sepErr, waveErr, closed>>
  BY <1>0, <1>8 DEF SeparationEnds
<1> QED
  BY <1>1, <1>2, <1>3, <1>4, <1>5, <1>6, <1>7, <1>8, StageMoves

\* When every consumer has quit an unfailed wavefront, every published stem has been read by
\* both lanes.
LEMMA AllRead ==
  ASSUME IInv, Counted, OnceEach, NothingLost, "wave" \notin done, reader.pc = "gone",
         \A c \in Consumers : consumer[c].pc = "gone"
  PROVE  /\ \A l \in Lanes : features[l] = published
         /\ \A s \in published : stem[s].state = "released"
<1>0. Types
  BY TypesHold
<1>1. \A l \in Lanes : Carried(l) = {} /\ BeingRead(l) = {} /\ Sending(l) = {}
  BY DEF Carried, BeingRead, Working, Read, Sending
<1>2. ASSUME NEW l \in Lanes PROVE Queued(l) = {}
  <2>1. PICK c \in Consumers : LaneOf(c) = l
    <3>1. PICK d \in CPUConsumers : TRUE
      BY StemWavefrontAssumption
    <3>2. d \in Consumers /\ GPUConsumer \in Consumers /\ d # GPUConsumer
      BY <3>1, StemWavefrontAssumption DEF Consumers
    <3> QED
      BY <3>2 DEF LaneOf, Lanes
  <2>2. jobs[l] = <<>>
    BY <2>1 DEF NothingLost
  <2> QED
    BY <2>2 DEF Queued, Elements
<1>3. ASSUME NEW l \in Lanes PROVE features[l] = published
  <2>1. published \subseteq features[l]
    BY <1>1, <1>2 DEF NothingLost, Reached
  <2>2. features[l] \subseteq published
    BY DEF OnceEach, LaneOnce, Reached
  <2> QED
    BY <2>1, <2>2
<1>4. ASSUME NEW s \in published PROVE stem[s].state = "released"
  <2>1. s \in Stems /\ stem[s] \in [state : StemState, refs : 0..2, acquired : 0..2]
    BY <1>0 DEF Types, WaveTypes, StemTypes
  <2>2. s \in ReadIn("cpu") /\ s \in ReadIn("gpu")
    BY <1>3 DEF ReadIn, Lanes
  <2>3. stem[s].state # "failed" /\ stem[s].acquired = 2
    BY <2>1, <2>2 DEF NothingLost, One
  <2>4. stem[s].refs = 0
    <3>1. Reading(s) = {}
      BY DEF Reading
    <3> QED
      BY <2>1, <2>3, <3>1, FS_EmptySet DEF Counted
  <2> QED
    BY <2>1, <2>3, <2>4 DEF Counted, StemState, ReadersPerStem
<1> QED
  BY <1>3, <1>4

LEMMA AfterJoinStep ==
  ASSUME IInv, Counted, OnceEach, NothingLost, SeparationEnds, AfterJoin, [Next]_vars
  PROVE  AfterJoin'
<1>0. Types /\ Lifetimes /\ (reader.pc = "gone" => UNCHANGED <<reader, answer, published>>)
  BY TypesHold, GoneIsFinal DEF IInv, Places
<1>1. CASE Joined /\ Joined' /\ UNCHANGED <<sepErr, waveErr, closed>>
  <2> SUFFICES ASSUME waveErr = None PROVE AfterJoin'
    BY <1>1 DEF AfterJoin
  <2>1. reader.pc = "gone" /\ \A c \in Consumers : consumer[c].pc = "gone"
    BY <1>0, <1>1 DEF AfterJoin, SeparationEnds, Lifetimes
  <2>2. UNCHANGED published
    BY <1>0, <2>1
  <2>3. ~\E c \in Consumers : Consume(c)
    BY <2>1 DEF Consume, TakeJob, Quit, AcquireStem, AwaitArbiter, Run, ReleaseStem, ConsumerStep
  <2>4. ~Reader
    BY <2>1 DEF Reader, ReadEvent, ReadAnswer, FreezeStem, PublishStem, RecordStem, SendJob,
       ReaderStep
  <2>5. UNCHANGED features
    BY <2>3, <2>4 DEF Next, Stage, AllocateArena, AcquireSlot, ReserveLease, AcquireDaemon,
       StartWave,
     AcquireArbiter, Separated, ReleaseCapacity, FailWave, CloseInput, Wait, AcquireForCleanup,
     CleanupGPU, Finish, StageStep, FailAll, Expire, wave, vars
  <2>6. FailAll \/ UNCHANGED stem
    BY <2>3, <2>4 DEF Next, Stage, AllocateArena, AcquireSlot, ReserveLease, AcquireDaemon,
       StartWave,
     AcquireArbiter, Separated, ReleaseCapacity, FailWave, CloseInput, Wait, AcquireForCleanup,
     CleanupGPU, Finish, StageStep, Expire, vars
  <2>7. \A s \in Stems : stem[s].state = "released" => stem'[s].state = "released"
    BY <2>6 DEF FailAll
  <2>8. published \subseteq Stems
    BY <1>0 DEF Types, WaveTypes
  <2> QED
    BY <1>1, <2>2, <2>5, <2>7, <2>8 DEF AfterJoin
<1>2. CASE pc = "wait" /\ Joined' /\ Wait /\ UNCHANGED <<sepErr, closed>>
  <2> SUFFICES ASSUME waveErr' = None PROVE AfterJoin'
    BY DEF AfterJoin
  <2>1. err = None /\ "wave" \notin done /\ published # {}
        /\ \A c \in Consumers : consumer[c].pc = "gone"
    BY <1>2, StemWavefrontAssumption DEF Wait
  <2>2. sepErr = None /\ reader.pc = "gone"
    BY <1>2, <2>1 DEF SeparationEnds
  <2>3. UNCHANGED <<stem, published, features>>
    BY <1>2 DEF Wait, StageStep
  <2>4. /\ \A l \in Lanes : features[l] = published
        /\ \A s \in published : stem[s].state = "released"
    BY <2>1, <2>2, AllRead
  <2> QED
    BY <1>2, <2>1, <2>2, <2>3, <2>4 DEF AfterJoin
<1>3. CASE ~Joined'
  BY <1>3 DEF AfterJoin
<1>4. CASE UNCHANGED <<pc, sepErr, waveErr, closed>>
  BY <1>1, <1>3, <1>4 DEF Joined
<1>5. CASE pc' \in {"release", "fail", "close", "wait"}
  BY <1>3, <1>5 DEF Joined
<1> QED
  BY <1>1, <1>2, <1>3, <1>4, <1>5, StageMoves

LEMMA SucceededStep ==
  ASSUME IInv, SeparationEnds, AfterJoin, Succeeded, [Next]_vars
  PROVE  Succeeded'
<1>0. /\ Types /\ ClosedAt /\ (reader.pc = "gone" => UNCHANGED <<reader, answer, published>>)
  BY TypesHold, GoneIsFinal DEF IInv, Places
<1>1. CASE Finish
  <2> SUFFICES ASSUME result' = "ok" PROVE Succeeded'
    BY DEF Succeeded
  <2>1. closed' /\ pc' = "returned" /\ UNCHANGED <<waveErr, answer, published>>
    BY <1>0, <1>1 DEF Finish, StageStep, Return, ClosedAt, daemon
  <2>2. waveErr = None /\ StemsMatch
    <3>1. sepErr \in ErrorClass \cup {None} /\ waveErr \in ErrorClass \cup {None}
      BY <1>0 DEF Types, StageTypes
    <3> QED
      BY <1>1, <3>1, StemWavefrontAssumption DEF Finish, Return, ErrorClass
  <2> QED
    BY <2>1, <2>2 DEF Succeeded, Joined, StemsMatch
<1>2. CASE ~Finish
  <2> SUFFICES ASSUME result' = "ok" PROVE Succeeded'
    BY DEF Succeeded
  <2>1. result = "ok"
    <3>1. \A e \in ErrorClass : \A given : Return(e, given) => result' # "ok"
      BY StemWavefrontAssumption DEF Return, ErrorClass
    <3>2. CASE Stage
      BY <1>2, <3>1, <3>2 DEF Stage, AllocateArena, AcquireSlot, ReserveLease, AcquireDaemon,
         StartWave,
       AcquireArbiter, Separated, ReleaseCapacity, FailWave, CloseInput, Wait, AcquireForCleanup,
       CleanupGPU, Takes, TakesDeferred, Take, Goto, ErrorClass
    <3>3. CASE ~Stage
      BY <3>3 DEF Next, Reader, ReadEvent, ReadAnswer, FreezeStem, PublishStem, RecordStem,
       SendJob, ReaderStep, Consume, TakeJob, Quit, AcquireStem, AwaitArbiter, Run, ReleaseStem,
       ConsumerStep, FailAll, Expire, vars, stage
    <3> QED
      BY <3>2, <3>3
  <2>2. Joined /\ waveErr = None /\ answer.stems = published /\ sepErr = None
    BY <2>1 DEF Succeeded, AfterJoin
  <2>3. UNCHANGED <<answer, published>>
    BY <1>0, <2>2 DEF SeparationEnds
  <2>4. Joined' /\ UNCHANGED waveErr
    BY <2>2, StageMoves DEF Joined
  <2> QED
    BY <2>2, <2>3, <2>4 DEF Succeeded
<1> QED
  BY <1>1, <1>2

(***************************************************************************)
(* The theorems.                                                           *)
(***************************************************************************)
LEMMA StartsWhole ==
  ASSUME Init
  PROVE  Counted /\ OnceEach /\ NothingLost /\ SeparationEnds /\ AfterJoin /\ Succeeded
<1>1. /\ \A c \in Consumers : consumer[c].pc = "off"
      /\ \A l \in Lanes : jobs[l] = <<>> /\ features[l] = {}
      /\ \A s \in Stems : stem[s] = [state |-> "pending", refs |-> 0, acquired |-> 0]
      /\ reader.pc = "off" /\ published = {} /\ answer = None /\ err = None
      /\ pc = "alloc" /\ result = None
  BY DEF Init, IdleConsumer, IdleReader
<1>2. Counted
  <2>1. \A s : Cardinality(Reading(s)) = 0
    <3>1. \A s : Reading(s) = {}
      BY <1>1 DEF Reading
    <3> QED
      BY <3>1, FS_EmptySet
  <2>2. ASSUME NEW s \in Stems PROVE CountedAt(s)
    BY <1>1, <2>1 DEF CountedAt
  <2> QED
    BY <2>2, CountedByStem
<1>3. \A l \in Lanes : /\ Queued(l) = {} /\ Carried(l) = {} /\ BeingRead(l) = {}
                       /\ Sending(l) = {} /\ Reached(l) = {} /\ ReadIn(l) = {}
  BY <1>1 DEF Queued, Elements, Carried, BeingRead, Sending, Reached, ReadIn, Working, Read
<1>4. OnceEach
  <2>1. ASSUME NEW l \in Lanes PROVE LaneOnce(l)
    BY <1>1, <1>3 DEF LaneOnce, Distinct
  <2>2. Unique /\ NewOnly
    BY <1>1 DEF Unique, NewOnly, Working
  <2> QED
    BY <2>1, <2>2 DEF OnceEach
<1>5. NothingLost
  BY <1>1, <1>3 DEF NothingLost, One, Lanes
<1>6. SeparationEnds /\ AfterJoin /\ Succeeded
  BY <1>1, StemWavefrontAssumption DEF SeparationEnds, AfterJoin, Succeeded, Joined
<1> QED
  BY <1>2, <1>4, <1>5, <1>6

WholeInv ==
    /\ IInv /\ Counted /\ OnceEach /\ NothingLost /\ SeparationEnds /\ AfterJoin /\ Succeeded

LEMMA WholeInvariance == Spec => []WholeInv
<1>1. Init => WholeInv
  BY InitIInv, StartsWhole DEF WholeInv
<1>2. WholeInv /\ [Next]_vars => WholeInv'
  <2> SUFFICES ASSUME WholeInv, [Next]_vars PROVE WholeInv'
    OBVIOUS
  <2>1. IInv'
    BY NextIInv DEF WholeInv
  <2>2. Counted' /\ OnceEach' /\ NothingLost'
    BY CountedStep, OnceEachStep, NothingLostStep DEF WholeInv
  <2>3. SeparationEnds' /\ AfterJoin' /\ Succeeded'
    BY SeparationEndsStep, AfterJoinStep, SucceededStep DEF WholeInv
  <2> QED
    BY <2>1, <2>2, <2>3 DEF WholeInv
<1> QED
  BY <1>1, <1>2, PTL DEF Spec

\* The reference count of a stem is the number of lane consumers that are reading it, and a
\* released stem has been read by both lanes (Acquire and Release in stem_lifecycle.go),
\* for any stems and any number of consumers.
THEOREM References == Spec => []RefsAreReaders
<1>1. WholeInv => RefsAreReaders
  BY DEF WholeInv, Counted, RefsAreReaders
<1> QED
  BY WholeInvariance, <1>1, PTL

\* A stage that succeeds has the features of every stem of its final answer from both
\* lanes, each stem released by both its readers (Wait and executeDemucsStage in
\* pipeline_demucs.go), for any stems, consumers and number of faults.
THEOREM Completeness == Spec => []FeaturesAreComplete
<1>1. WholeInv => FeaturesAreComplete
  BY DEF WholeInv, Succeeded, AfterJoin, FeaturesAreComplete
<1> QED
  BY WholeInvariance, <1>1, PTL

=============================================================================
