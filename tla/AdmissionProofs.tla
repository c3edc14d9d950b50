--------------------------- MODULE AdmissionProofs ---------------------------
(***************************************************************************)
(* The arithmetic of the controller and of the ledger, for words of any    *)
(* width, any capacity and any number of runs, keys and leases.            *)
(*                                                                         *)
(* ReservationsFit assumes nothing of the sums: a wrapped word would still *)
(* be a word, and what keeps a reservation below the capacity is that the  *)
(* free amount is a clamped difference.  Balance is about the sums: a      *)
(* total is a fold over a finite set, what one changed entry does to it is *)
(* shown by induction over that set (TotalOfChange), and Books says who    *)
(* holds each lease and each entry, so that the one a step returns is      *)
(* there and is counted once.                                              *)
(***************************************************************************)
EXTENDS Admission, Induction

\* A run that has begun has a key.
KeysGiven == \A r \in Runs : job[r].at # "queued" => job[r].key \in Keys
IInv == AdmissionTypeOK /\ KeysGiven

LEMMA Words ==
  ASSUME NEW a \in Word, NEW b \in Word
  PROVE  /\ (a + b) % (MaxWord + 1) \in Word
         /\ a + b <= MaxWord => (a + b) % (MaxWord + 1) = a + b
         /\ SafeSub(a, b) \in Word /\ SafeSub(a, b) <= a
<1>1. MaxWord + 1 \in Nat \ {0} /\ a + b \in Nat
  BY AdmissionAssumption DEF Word
<1>2. (a + b) % (MaxWord + 1) \in 0..MaxWord
  BY <1>1, AdmissionAssumption
<1>3. a + b <= MaxWord => (a + b) % (MaxWord + 1) = a + b
  BY <1>1, AdmissionAssumption
<1> QED
  BY <1>2, <1>3, AdmissionAssumption DEF Word, SafeSub

LEMMA PlansAreWords ==
  ASSUME NEW p \in Plans, NEW q \in Plans
  PROVE  Plus(p, q) \in Plans /\ Minus(p, q) \in Plans
BY Words DEF Plus, Minus, Plans

LEMMA PlansOfTasks ==
  /\ Zero \in Plans /\ ExecutionPlan \in Plans
  /\ \A ram \in RAMSizes : TaskPlan(ram) \in Plans
  /\ \A ram \in RAMSizes, vram \in {0, VRAMSize} : Machine(ram, vram) \in Plans
BY AdmissionAssumption DEF Zero, ExecutionPlan, TaskPlan, Machine, Plans, Word, Resources,
   Counts, Bytes

\* What the two sides of the books do to the controller, the ledger and the receipts.
LEMMA ReserveTypes ==
  ASSUME AdmissionTypeOK, NEW plan \in Plans, AtomicReserve(plan)
  PROVE  /\ capacity' \in Plans /\ used' \in Plans /\ lease' \in [Tokens -> Plans]
         /\ nextID' \in 1..MaxTokens
<1>1. nextID' \in 1..MaxTokens
  BY AdmissionAssumption DEF AdmissionTypeOK, AtomicReserve
<1> QED
  BY <1>1, PlansAreWords DEF AdmissionTypeOK, AtomicReserve

LEMMA ReturnTypes ==
  ASSUME AdmissionTypeOK, NEW n, ReturnLease(n)
  PROVE  /\ capacity' \in Plans /\ used' \in Plans /\ lease' \in [Tokens -> Plans]
         /\ nextID' \in 0..MaxTokens
BY PlansAreWords, PlansOfTasks DEF AdmissionTypeOK, ReturnLease

LEMMA BookTypes ==
  ASSUME AdmissionTypeOK, NEW k \in Keys, NEW bytes \in Word, BookRam(k, bytes)
  PROVE  /\ inFlight' \in Word /\ ramSequence' \in Nat /\ ramSequence' >= ramSequence
         /\ ramEntry' \in [Keys -> [token : 0..ramSequence', bytes : Word]]
<1>1. ramSequence' = ramSequence + 1 /\ ramSequence \in Nat
  BY DEF BookRam, AdmissionTypeOK
<1>2. inFlight' \in Word
  BY Words DEF BookRam, AdmissionTypeOK
<1>3. [token |-> ramSequence', bytes |-> bytes] \in [token : 0..ramSequence', bytes : Word]
  BY <1>1
<1>4. \A j \in Keys : ramEntry[j] \in [token : 0..ramSequence', bytes : Word]
  BY <1>1 DEF AdmissionTypeOK
<1> QED
  BY <1>1, <1>2, <1>3, <1>4 DEF BookRam, AdmissionTypeOK

LEMMA UnbookTypes ==
  ASSUME AdmissionTypeOK, NEW k \in Keys, NEW entry, UnbookRam(k, entry)
  PROVE  /\ inFlight' \in Word /\ ramSequence' = ramSequence
         /\ ramEntry' \in [Keys -> [token : 0..ramSequence', bytes : Word]]
<1> USE DEF UnbookRam, AdmissionTypeOK
<1>1. ramEntry[k].bytes \in Word /\ ramSequence' = ramSequence /\ ramSequence \in Nat
  OBVIOUS
<1>2. inFlight' \in Word
  BY <1>1, Words
<1>3. NoEntry \in [token : 0..ramSequence, bytes : Word]
  BY <1>1, AdmissionAssumption DEF NoEntry, Word
<1>4. ramEntry' \in [Keys -> [token : 0..ramSequence, bytes : Word]]
  BY <1>3
<1> QED
  BY <1>1, <1>2, <1>4

JobsNow ==
    [at : JobAt, key : Keys \cup {NoKey}, plan : Plans, token : 0..MaxTokens,
     ram : [token : 0..ramSequence, bytes : Word], execution : 0..MaxTokens]

LEMMA QueuedIsJob == AdmissionTypeOK => Queued \in JobsNow
BY PlansOfTasks, AdmissionAssumption DEF Queued, JobsNow, JobAt, NoEntry, Word, AdmissionTypeOK

LEMMA PlannedIsJob ==
  ASSUME AdmissionTypeOK, NEW k \in Keys, NEW ram \in RAMSizes
  PROVE  [at |-> "planned", key |-> k, plan |-> TaskPlan(ram), token |-> 0,
          ram |-> NoEntry, execution |-> 0] \in JobsNow
<1>1. TaskPlan(ram) \in Plans
  BY PlansOfTasks
<1>2. NoEntry \in [token : 0..ramSequence, bytes : Word]
  BY AdmissionAssumption DEF NoEntry, Word, AdmissionTypeOK
<1>3. 0 \in 0..MaxTokens
  BY AdmissionAssumption
<1> QED
  BY <1>1, <1>2, <1>3 DEF JobsNow, JobAt

LEMMA InitIInv == AdmissionInit => IInv
<1> SUFFICES ASSUME AdmissionInit PROVE IInv
  OBVIOUS
<1>1. Queued \in JobsNow
  BY PlansOfTasks, AdmissionAssumption DEF AdmissionInit, Queued, JobsNow, JobAt, NoEntry, Word
<1>2. AdmissionTypeOK
  BY <1>1, PlansOfTasks, AdmissionAssumption DEF AdmissionInit, AdmissionTypeOK, JobsNow, NoEntry,
     Word
<1>3. KeysGiven
  BY DEF AdmissionInit, KeysGiven, Queued
<1> QED
  BY <1>2, <1>3 DEF IInv

LEMMA StepPlanTask ==
  ASSUME IInv, NEW r \in Runs, PlanTask(r)
  PROVE  IInv'
<1> USE AdmissionAssumption DEF IInv, PlanTask, Becomes, Over, controllerVars, ledgerVars
<1>1. job[r] \in JobsNow /\ Queued \in JobsNow /\ (job[r].at # "queued" => Key(r) \in Keys)
  BY QueuedIsJob DEF AdmissionTypeOK, JobsNow, KeysGiven, Key
<1>2. capacity' \in Plans /\ used' \in Plans /\ lease' \in [Tokens -> Plans] /\ nextID' \in 0..MaxTokens
  BY PlansOfTasks DEF AdmissionTypeOK
<1>3. /\ inFlight' \in Word /\ ramSequence' \in Nat /\ ramSequence' >= ramSequence
      /\ ramEntry' \in [Keys -> [token : 0..ramSequence', bytes : Word]]
  BY <1>1 DEF AdmissionTypeOK, JobsNow
<1>4. taskLease' \in [Keys -> 0..MaxTokens]
  BY <1>1 DEF AdmissionTypeOK, JobsNow
<1>5. job'[r] \in JobsNow' /\ (job'[r].at # "queued" => job'[r].key \in Keys)
  <2>1. PICK k \in Keys, ram \in RAMSizes :
           job' = [job EXCEPT ![r] = [Queued EXCEPT !.at = "planned", !.key = k, !.plan = TaskPlan(ram)]]
    OBVIOUS
  <2>2. job'[r] = [Queued EXCEPT !.at = "planned", !.key = k, !.plan = TaskPlan(ram)]
    BY <2>1 DEF AdmissionTypeOK
  <2>3. UNCHANGED ramSequence
    OBVIOUS
  <2>4. job'[r] = [at |-> "planned", key |-> k, plan |-> TaskPlan(ram), token |-> 0,
                   ram |-> NoEntry, execution |-> 0]
    BY <2>2 DEF Queued
  <2>6. job'[r] \in JobsNow
    BY <2>4, PlannedIsJob
  <2>7. JobsNow' = JobsNow
    BY <2>3 DEF JobsNow
  <2> QED
    BY <2>4, <2>6, <2>7
<1>6. \A u \in Runs \ {r} : job'[u] = job[u]
  BY DEF AdmissionTypeOK
<1>7. JobsNow \subseteq JobsNow'
  BY <1>3 DEF JobsNow, AdmissionTypeOK
<1>8. job' \in [Runs -> JobsNow'] /\ KeysGiven'
  <2>1. DOMAIN job' = Runs /\ job' = [u \in Runs |-> job'[u]]
    BY DEF AdmissionTypeOK
  <2> QED
    BY <1>5, <1>6, <1>7, <2>1 DEF AdmissionTypeOK, KeysGiven, JobsNow
<1> QED
  BY <1>2, <1>3, <1>4, <1>8 DEF AdmissionTypeOK, JobsNow

LEMMA StepReserveLease ==
  ASSUME IInv, NEW r \in Runs, ReserveLease(r)
  PROVE  IInv'
<1> USE AdmissionAssumption DEF IInv, ReserveLease, Becomes, Over, controllerVars, ledgerVars
<1>1. job[r] \in JobsNow /\ Queued \in JobsNow /\ (job[r].at # "queued" => Key(r) \in Keys)
  BY QueuedIsJob DEF AdmissionTypeOK, JobsNow, KeysGiven, Key
<1>2. capacity' \in Plans /\ used' \in Plans /\ lease' \in [Tokens -> Plans] /\ nextID' \in 0..MaxTokens
  BY <1>1, ReserveTypes, PlansOfTasks DEF AdmissionTypeOK, JobsNow
<1>3. /\ inFlight' \in Word /\ ramSequence' \in Nat /\ ramSequence' >= ramSequence
      /\ ramEntry' \in [Keys -> [token : 0..ramSequence', bytes : Word]]
  BY <1>1 DEF AdmissionTypeOK, JobsNow
<1>4. taskLease' \in [Keys -> 0..MaxTokens]
  BY <1>1 DEF AdmissionTypeOK, JobsNow
<1>5. job'[r] \in JobsNow' /\ (job'[r].at # "queued" => job'[r].key \in Keys)
  BY <1>1, <1>2, <1>3, PlansOfTasks DEF AdmissionTypeOK, JobsNow, JobAt, Key, Queued
<1>6. \A u \in Runs \ {r} : job'[u] = job[u]
  BY DEF AdmissionTypeOK
<1>7. JobsNow \subseteq JobsNow'
  BY <1>3 DEF JobsNow, AdmissionTypeOK
<1>8. job' \in [Runs -> JobsNow'] /\ KeysGiven'
  <2>1. DOMAIN job' = Runs /\ job' = [u \in Runs |-> job'[u]]
    BY DEF AdmissionTypeOK
  <2> QED
    BY <1>5, <1>6, <1>7, <2>1 DEF AdmissionTypeOK, KeysGiven, JobsNow
<1> QED
  BY <1>2, <1>3, <1>4, <1>8 DEF AdmissionTypeOK, JobsNow

LEMMA StepLeaseRefused ==
  ASSUME IInv, NEW r \in Runs, LeaseRefused(r)
  PROVE  IInv'
<1> USE AdmissionAssumption DEF IInv, LeaseRefused, Becomes, Over, controllerVars, ledgerVars
<1>1. job[r] \in JobsNow /\ Queued \in JobsNow /\ (job[r].at # "queued" => Key(r) \in Keys)
  BY QueuedIsJob DEF AdmissionTypeOK, JobsNow, KeysGiven, Key
<1>2. capacity' \in Plans /\ used' \in Plans /\ lease' \in [Tokens -> Plans] /\ nextID' \in 0..MaxTokens
  BY <1>1, PlansOfTasks DEF AdmissionTypeOK, JobsNow
<1>3. /\ inFlight' \in Word /\ ramSequence' \in Nat /\ ramSequence' >= ramSequence
      /\ ramEntry' \in [Keys -> [token : 0..ramSequence', bytes : Word]]
  BY <1>1 DEF AdmissionTypeOK, JobsNow
<1>4. taskLease' \in [Keys -> 0..MaxTokens]
  BY <1>1 DEF AdmissionTypeOK, JobsNow
<1>5. job'[r] \in JobsNow' /\ (job'[r].at # "queued" => job'[r].key \in Keys)
  BY <1>1, <1>2, <1>3, PlansOfTasks DEF AdmissionTypeOK, JobsNow, JobAt, Key, Queued
<1>6. \A u \in Runs \ {r} : job'[u] = job[u]
  BY DEF AdmissionTypeOK
<1>7. JobsNow \subseteq JobsNow'
  BY <1>3 DEF JobsNow, AdmissionTypeOK
<1>8. job' \in [Runs -> JobsNow'] /\ KeysGiven'
  <2>1. DOMAIN job' = Runs /\ job' = [u \in Runs |-> job'[u]]
    BY DEF AdmissionTypeOK
  <2> QED
    BY <1>5, <1>6, <1>7, <2>1 DEF AdmissionTypeOK, KeysGiven, JobsNow
<1> QED
  BY <1>2, <1>3, <1>4, <1>8 DEF AdmissionTypeOK, JobsNow

LEMMA StepReserveRam ==
  ASSUME IInv, NEW r \in Runs, ReserveRam(r)
  PROVE  IInv'
<1> USE AdmissionAssumption DEF IInv, ReserveRam, Becomes, Over, controllerVars, ledgerVars
<1>1. job[r] \in JobsNow /\ Queued \in JobsNow /\ (job[r].at # "queued" => Key(r) \in Keys)
  BY QueuedIsJob DEF AdmissionTypeOK, JobsNow, KeysGiven, Key
<1>2. capacity' \in Plans /\ used' \in Plans /\ lease' \in [Tokens -> Plans] /\ nextID' \in 0..MaxTokens
  BY <1>1, PlansOfTasks DEF AdmissionTypeOK, JobsNow
<1>3. /\ inFlight' \in Word /\ ramSequence' \in Nat /\ ramSequence' >= ramSequence
      /\ ramEntry' \in [Keys -> [token : 0..ramSequence', bytes : Word]]
  <2>1. job[r].plan["ram"] \in Word /\ Key(r) \in Keys
    BY <1>1 DEF JobsNow, Plans, Resources, Bytes
  <2> QED
    BY <2>1, BookTypes
<1>4. taskLease' \in [Keys -> 0..MaxTokens]
  BY <1>1 DEF AdmissionTypeOK, JobsNow
<1>5. job'[r] \in JobsNow' /\ (job'[r].at # "queued" => job'[r].key \in Keys)
  BY <1>1, <1>2, <1>3, PlansOfTasks DEF AdmissionTypeOK, JobsNow, JobAt, Key, Queued
<1>6. \A u \in Runs \ {r} : job'[u] = job[u]
  BY DEF AdmissionTypeOK
<1>7. JobsNow \subseteq JobsNow'
  BY <1>3 DEF JobsNow, AdmissionTypeOK
<1>8. job' \in [Runs -> JobsNow'] /\ KeysGiven'
  <2>1. DOMAIN job' = Runs /\ job' = [u \in Runs |-> job'[u]]
    BY DEF AdmissionTypeOK
  <2> QED
    BY <1>5, <1>6, <1>7, <2>1 DEF AdmissionTypeOK, KeysGiven, JobsNow
<1> QED
  BY <1>2, <1>3, <1>4, <1>8 DEF AdmissionTypeOK, JobsNow

LEMMA StepRamRefused ==
  ASSUME IInv, NEW r \in Runs, RamRefused(r)
  PROVE  IInv'
<1> USE AdmissionAssumption DEF IInv, RamRefused, Becomes, Over, controllerVars, ledgerVars
<1>1. job[r] \in JobsNow /\ Queued \in JobsNow /\ (job[r].at # "queued" => Key(r) \in Keys)
  BY QueuedIsJob DEF AdmissionTypeOK, JobsNow, KeysGiven, Key
<1>2. capacity' \in Plans /\ used' \in Plans /\ lease' \in [Tokens -> Plans] /\ nextID' \in 0..MaxTokens
  BY <1>1, ReturnTypes, PlansOfTasks DEF AdmissionTypeOK, JobsNow
<1>3. /\ inFlight' \in Word /\ ramSequence' \in Nat /\ ramSequence' >= ramSequence
      /\ ramEntry' \in [Keys -> [token : 0..ramSequence', bytes : Word]]
  BY <1>1 DEF AdmissionTypeOK, JobsNow
<1>4. taskLease' \in [Keys -> 0..MaxTokens]
  BY <1>1 DEF AdmissionTypeOK, JobsNow
<1>5. job'[r] \in JobsNow' /\ (job'[r].at # "queued" => job'[r].key \in Keys)
  BY <1>1, <1>2, <1>3, PlansOfTasks DEF AdmissionTypeOK, JobsNow, JobAt, Key, Queued
<1>6. \A u \in Runs \ {r} : job'[u] = job[u]
  BY DEF AdmissionTypeOK
<1>7. JobsNow \subseteq JobsNow'
  BY <1>3 DEF JobsNow, AdmissionTypeOK
<1>8. job' \in [Runs -> JobsNow'] /\ KeysGiven'
  <2>1. DOMAIN job' = Runs /\ job' = [u \in Runs |-> job'[u]]
    BY DEF AdmissionTypeOK
  <2> QED
    BY <1>5, <1>6, <1>7, <2>1 DEF AdmissionTypeOK, KeysGiven, JobsNow
<1> QED
  BY <1>2, <1>3, <1>4, <1>8 DEF AdmissionTypeOK, JobsNow

LEMMA StepFileLease ==
  ASSUME IInv, NEW r \in Runs, FileLease(r)
  PROVE  IInv'
<1> USE AdmissionAssumption DEF IInv, FileLease, Becomes, Over, controllerVars, ledgerVars
<1>1. job[r] \in JobsNow /\ Queued \in JobsNow /\ (job[r].at # "queued" => Key(r) \in Keys)
  BY QueuedIsJob DEF AdmissionTypeOK, JobsNow, KeysGiven, Key
<1>2. capacity' \in Plans /\ used' \in Plans /\ lease' \in [Tokens -> Plans] /\ nextID' \in 0..MaxTokens
  BY <1>1, PlansOfTasks DEF AdmissionTypeOK, JobsNow
<1>3. /\ inFlight' \in Word /\ ramSequence' \in Nat /\ ramSequence' >= ramSequence
      /\ ramEntry' \in [Keys -> [token : 0..ramSequence', bytes : Word]]
  BY <1>1 DEF AdmissionTypeOK, JobsNow
<1>4. taskLease' \in [Keys -> 0..MaxTokens]
  BY <1>1 DEF AdmissionTypeOK, JobsNow
<1>5. job'[r] \in JobsNow' /\ (job'[r].at # "queued" => job'[r].key \in Keys)
  BY <1>1, <1>2, <1>3, PlansOfTasks DEF AdmissionTypeOK, JobsNow, JobAt, Key, Queued
<1>6. \A u \in Runs \ {r} : job'[u] = job[u]
  BY DEF AdmissionTypeOK
<1>7. JobsNow \subseteq JobsNow'
  BY <1>3 DEF JobsNow, AdmissionTypeOK
<1>8. job' \in [Runs -> JobsNow'] /\ KeysGiven'
  <2>1. DOMAIN job' = Runs /\ job' = [u \in Runs |-> job'[u]]
    BY DEF AdmissionTypeOK
  <2> QED
    BY <1>5, <1>6, <1>7, <2>1 DEF AdmissionTypeOK, KeysGiven, JobsNow
<1> QED
  BY <1>2, <1>3, <1>4, <1>8 DEF AdmissionTypeOK, JobsNow

LEMMA StepUnstart ==
  ASSUME IInv, NEW r \in Runs, Unstart(r)
  PROVE  IInv'
<1> USE AdmissionAssumption DEF IInv, Unstart, Becomes, Over, controllerVars, ledgerVars
<1>1. job[r] \in JobsNow /\ Queued \in JobsNow /\ (job[r].at # "queued" => Key(r) \in Keys)
  BY QueuedIsJob DEF AdmissionTypeOK, JobsNow, KeysGiven, Key
<1>2. capacity' \in Plans /\ used' \in Plans /\ lease' \in [Tokens -> Plans] /\ nextID' \in 0..MaxTokens
  BY <1>1, PlansOfTasks DEF AdmissionTypeOK, JobsNow
<1>3. /\ inFlight' \in Word /\ ramSequence' \in Nat /\ ramSequence' >= ramSequence
      /\ ramEntry' \in [Keys -> [token : 0..ramSequence', bytes : Word]]
  BY <1>1, UnbookTypes DEF AdmissionTypeOK, JobsNow
<1>4. taskLease' \in [Keys -> 0..MaxTokens]
  BY <1>1 DEF AdmissionTypeOK, JobsNow
<1>5. job'[r] \in JobsNow' /\ (job'[r].at # "queued" => job'[r].key \in Keys)
  <2>1. job'[r] = [job[r] EXCEPT !.at = "unstarting"] /\ job[r].at = "ready"
    BY DEF AdmissionTypeOK
  <2>2. UNCHANGED ramSequence
    BY DEF UnbookRam
  <2> QED
    BY <1>1, <2>1, <2>2 DEF JobsNow, JobAt, Key
<1>6. \A u \in Runs \ {r} : job'[u] = job[u]
  BY DEF AdmissionTypeOK
<1>7. JobsNow \subseteq JobsNow'
  BY <1>3 DEF JobsNow, AdmissionTypeOK
<1>8. job' \in [Runs -> JobsNow'] /\ KeysGiven'
  <2>1. DOMAIN job' = Runs /\ job' = [u \in Runs |-> job'[u]]
    BY DEF AdmissionTypeOK
  <2> QED
    BY <1>5, <1>6, <1>7, <2>1 DEF AdmissionTypeOK, KeysGiven, JobsNow
<1> QED
  BY <1>2, <1>3, <1>4, <1>8 DEF AdmissionTypeOK, JobsNow

LEMMA StepUnstartLease ==
  ASSUME IInv, NEW r \in Runs, UnstartLease(r)
  PROVE  IInv'
<1> USE AdmissionAssumption DEF IInv, UnstartLease, Becomes, Over, controllerVars, ledgerVars
<1>1. job[r] \in JobsNow /\ Queued \in JobsNow /\ (job[r].at # "queued" => Key(r) \in Keys)
  BY QueuedIsJob DEF AdmissionTypeOK, JobsNow, KeysGiven, Key
<1>2. capacity' \in Plans /\ used' \in Plans /\ lease' \in [Tokens -> Plans] /\ nextID' \in 0..MaxTokens
  BY <1>1, ReturnTypes, PlansOfTasks DEF AdmissionTypeOK, JobsNow
<1>3. /\ inFlight' \in Word /\ ramSequence' \in Nat /\ ramSequence' >= ramSequence
      /\ ramEntry' \in [Keys -> [token : 0..ramSequence', bytes : Word]]
  BY <1>1 DEF AdmissionTypeOK, JobsNow
<1>4. taskLease' \in [Keys -> 0..MaxTokens]
  BY <1>1 DEF AdmissionTypeOK, JobsNow
<1>5. job'[r] \in JobsNow' /\ (job'[r].at # "queued" => job'[r].key \in Keys)
  BY <1>1, <1>2, <1>3, PlansOfTasks DEF AdmissionTypeOK, JobsNow, JobAt, Key, Queued
<1>6. \A u \in Runs \ {r} : job'[u] = job[u]
  BY DEF AdmissionTypeOK
<1>7. JobsNow \subseteq JobsNow'
  BY <1>3 DEF JobsNow, AdmissionTypeOK
<1>8. job' \in [Runs -> JobsNow'] /\ KeysGiven'
  <2>1. DOMAIN job' = Runs /\ job' = [u \in Runs |-> job'[u]]
    BY DEF AdmissionTypeOK
  <2> QED
    BY <1>5, <1>6, <1>7, <2>1 DEF AdmissionTypeOK, KeysGiven, JobsNow
<1> QED
  BY <1>2, <1>3, <1>4, <1>8 DEF AdmissionTypeOK, JobsNow

LEMMA StepHandOver ==
  ASSUME IInv, NEW r \in Runs, HandOver(r)
  PROVE  IInv'
<1> USE AdmissionAssumption DEF IInv, HandOver, Becomes, Over, controllerVars, ledgerVars
<1>1. job[r] \in JobsNow /\ Queued \in JobsNow /\ (job[r].at # "queued" => Key(r) \in Keys)
  BY QueuedIsJob DEF AdmissionTypeOK, JobsNow, KeysGiven, Key
<1>2. capacity' \in Plans /\ used' \in Plans /\ lease' \in [Tokens -> Plans] /\ nextID' \in 0..MaxTokens
  BY <1>1, PlansOfTasks DEF AdmissionTypeOK, JobsNow
<1>3. /\ inFlight' \in Word /\ ramSequence' \in Nat /\ ramSequence' >= ramSequence
      /\ ramEntry' \in [Keys -> [token : 0..ramSequence', bytes : Word]]
  BY <1>1 DEF AdmissionTypeOK, JobsNow
<1>4. taskLease' \in [Keys -> 0..MaxTokens]
  BY <1>1 DEF AdmissionTypeOK, JobsNow
<1>5. job'[r] \in JobsNow' /\ (job'[r].at # "queued" => job'[r].key \in Keys)
  BY <1>1, <1>2, <1>3, PlansOfTasks DEF AdmissionTypeOK, JobsNow, JobAt, Key, Queued
<1>6. \A u \in Runs \ {r} : job'[u] = job[u]
  BY DEF AdmissionTypeOK
<1>7. JobsNow \subseteq JobsNow'
  BY <1>3 DEF JobsNow, AdmissionTypeOK
<1>8. job' \in [Runs -> JobsNow'] /\ KeysGiven'
  <2>1. DOMAIN job' = Runs /\ job' = [u \in Runs |-> job'[u]]
    BY DEF AdmissionTypeOK
  <2> QED
    BY <1>5, <1>6, <1>7, <2>1 DEF AdmissionTypeOK, KeysGiven, JobsNow
<1> QED
  BY <1>2, <1>3, <1>4, <1>8 DEF AdmissionTypeOK, JobsNow

LEMMA StepTakeLease ==
  ASSUME IInv, NEW r \in Runs, TakeLease(r)
  PROVE  IInv'
<1> USE AdmissionAssumption DEF IInv, TakeLease, Becomes, Over, controllerVars, ledgerVars
<1>1. job[r] \in JobsNow /\ Queued \in JobsNow /\ (job[r].at # "queued" => Key(r) \in Keys)
  BY QueuedIsJob DEF AdmissionTypeOK, JobsNow, KeysGiven, Key
<1>2. capacity' \in Plans /\ used' \in Plans /\ lease' \in [Tokens -> Plans] /\ nextID' \in 0..MaxTokens
  BY <1>1, PlansOfTasks DEF AdmissionTypeOK, JobsNow
<1>3. /\ inFlight' \in Word /\ ramSequence' \in Nat /\ ramSequence' >= ramSequence
      /\ ramEntry' \in [Keys -> [token : 0..ramSequence', bytes : Word]]
  BY <1>1 DEF AdmissionTypeOK, JobsNow
<1>4. taskLease' \in [Keys -> 0..MaxTokens]
  BY <1>1 DEF AdmissionTypeOK, JobsNow
<1>5. job'[r] \in JobsNow' /\ (job'[r].at # "queued" => job'[r].key \in Keys)
  BY <1>1, <1>2, <1>3, PlansOfTasks DEF AdmissionTypeOK, JobsNow, JobAt, Key, Queued
<1>6. \A u \in Runs \ {r} : job'[u] = job[u]
  BY DEF AdmissionTypeOK
<1>7. JobsNow \subseteq JobsNow'
  BY <1>3 DEF JobsNow, AdmissionTypeOK
<1>8. job' \in [Runs -> JobsNow'] /\ KeysGiven'
  <2>1. DOMAIN job' = Runs /\ job' = [u \in Runs |-> job'[u]]
    BY DEF AdmissionTypeOK
  <2> QED
    BY <1>5, <1>6, <1>7, <2>1 DEF AdmissionTypeOK, KeysGiven, JobsNow
<1> QED
  BY <1>2, <1>3, <1>4, <1>8 DEF AdmissionTypeOK, JobsNow

LEMMA StepReadEntry ==
  ASSUME IInv, NEW r \in Runs, ReadEntry(r)
  PROVE  IInv'
<1> USE AdmissionAssumption DEF IInv, ReadEntry, Becomes, Over, controllerVars, ledgerVars
<1>1. job[r] \in JobsNow /\ Queued \in JobsNow /\ (job[r].at # "queued" => Key(r) \in Keys)
  BY QueuedIsJob DEF AdmissionTypeOK, JobsNow, KeysGiven, Key
<1>2. capacity' \in Plans /\ used' \in Plans /\ lease' \in [Tokens -> Plans] /\ nextID' \in 0..MaxTokens
  BY <1>1, PlansOfTasks DEF AdmissionTypeOK, JobsNow
<1>3. /\ inFlight' \in Word /\ ramSequence' \in Nat /\ ramSequence' >= ramSequence
      /\ ramEntry' \in [Keys -> [token : 0..ramSequence', bytes : Word]]
  BY <1>1 DEF AdmissionTypeOK, JobsNow
<1>4. taskLease' \in [Keys -> 0..MaxTokens]
  BY <1>1 DEF AdmissionTypeOK, JobsNow
<1>5. job'[r] \in JobsNow' /\ (job'[r].at # "queued" => job'[r].key \in Keys)
  BY <1>1, <1>2, <1>3, PlansOfTasks DEF AdmissionTypeOK, JobsNow, JobAt, Key, Queued
<1>6. \A u \in Runs \ {r} : job'[u] = job[u]
  BY DEF AdmissionTypeOK
<1>7. JobsNow \subseteq JobsNow'
  BY <1>3 DEF JobsNow, AdmissionTypeOK
<1>8. job' \in [Runs -> JobsNow'] /\ KeysGiven'
  <2>1. DOMAIN job' = Runs /\ job' = [u \in Runs |-> job'[u]]
    BY DEF AdmissionTypeOK
  <2> QED
    BY <1>5, <1>6, <1>7, <2>1 DEF AdmissionTypeOK, KeysGiven, JobsNow
<1> QED
  BY <1>2, <1>3, <1>4, <1>8 DEF AdmissionTypeOK, JobsNow

LEMMA StepReserveExecution ==
  ASSUME IInv, NEW r \in Runs, ReserveExecution(r)
  PROVE  IInv'
<1> USE AdmissionAssumption DEF IInv, ReserveExecution, Becomes, Over, controllerVars, ledgerVars
<1>1. job[r] \in JobsNow /\ Queued \in JobsNow /\ (job[r].at # "queued" => Key(r) \in Keys)
  BY QueuedIsJob DEF AdmissionTypeOK, JobsNow, KeysGiven, Key
<1>2. capacity' \in Plans /\ used' \in Plans /\ lease' \in [Tokens -> Plans] /\ nextID' \in 0..MaxTokens
  BY <1>1, ReserveTypes, PlansOfTasks DEF AdmissionTypeOK, JobsNow
<1>3. /\ inFlight' \in Word /\ ramSequence' \in Nat /\ ramSequence' >= ramSequence
      /\ ramEntry' \in [Keys -> [token : 0..ramSequence', bytes : Word]]
  BY <1>1 DEF AdmissionTypeOK, JobsNow
<1>4. taskLease' \in [Keys -> 0..MaxTokens]
  BY <1>1 DEF AdmissionTypeOK, JobsNow
<1>5. job'[r] \in JobsNow' /\ (job'[r].at # "queued" => job'[r].key \in Keys)
  BY <1>1, <1>2, <1>3, PlansOfTasks DEF AdmissionTypeOK, JobsNow, JobAt, Key, Queued
<1>6. \A u \in Runs \ {r} : job'[u] = job[u]
  BY DEF AdmissionTypeOK
<1>7. JobsNow \subseteq JobsNow'
  BY <1>3 DEF JobsNow, AdmissionTypeOK
<1>8. job' \in [Runs -> JobsNow'] /\ KeysGiven'
  <2>1. DOMAIN job' = Runs /\ job' = [u \in Runs |-> job'[u]]
    BY DEF AdmissionTypeOK
  <2> QED
    BY <1>5, <1>6, <1>7, <2>1 DEF AdmissionTypeOK, KeysGiven, JobsNow
<1> QED
  BY <1>2, <1>3, <1>4, <1>8 DEF AdmissionTypeOK, JobsNow

LEMMA StepReleaseExecution ==
  ASSUME IInv, NEW r \in Runs, ReleaseExecution(r)
  PROVE  IInv'
<1> USE AdmissionAssumption DEF IInv, ReleaseExecution, Becomes, Over, controllerVars, ledgerVars
<1>1. job[r] \in JobsNow /\ Queued \in JobsNow /\ (job[r].at # "queued" => Key(r) \in Keys)
  BY QueuedIsJob DEF AdmissionTypeOK, JobsNow, KeysGiven, Key
<1>2. capacity' \in Plans /\ used' \in Plans /\ lease' \in [Tokens -> Plans] /\ nextID' \in 0..MaxTokens
  BY <1>1, ReturnTypes, PlansOfTasks DEF AdmissionTypeOK, JobsNow
<1>3. /\ inFlight' \in Word /\ ramSequence' \in Nat /\ ramSequence' >= ramSequence
      /\ ramEntry' \in [Keys -> [token : 0..ramSequence', bytes : Word]]
  BY <1>1 DEF AdmissionTypeOK, JobsNow
<1>4. taskLease' \in [Keys -> 0..MaxTokens]
  BY <1>1 DEF AdmissionTypeOK, JobsNow
<1>5. job'[r] \in JobsNow' /\ (job'[r].at # "queued" => job'[r].key \in Keys)
  BY <1>1, <1>2, <1>3, PlansOfTasks DEF AdmissionTypeOK, JobsNow, JobAt, Key, Queued
<1>6. \A u \in Runs \ {r} : job'[u] = job[u]
  BY DEF AdmissionTypeOK
<1>7. JobsNow \subseteq JobsNow'
  BY <1>3 DEF JobsNow, AdmissionTypeOK
<1>8. job' \in [Runs -> JobsNow'] /\ KeysGiven'
  <2>1. DOMAIN job' = Runs /\ job' = [u \in Runs |-> job'[u]]
    BY DEF AdmissionTypeOK
  <2> QED
    BY <1>5, <1>6, <1>7, <2>1 DEF AdmissionTypeOK, KeysGiven, JobsNow
<1> QED
  BY <1>2, <1>3, <1>4, <1>8 DEF AdmissionTypeOK, JobsNow

LEMMA StepNoExecution ==
  ASSUME IInv, NEW r \in Runs, NoExecution(r)
  PROVE  IInv'
<1> USE AdmissionAssumption DEF IInv, NoExecution, Becomes, Over, controllerVars, ledgerVars
<1>1. job[r] \in JobsNow /\ Queued \in JobsNow /\ (job[r].at # "queued" => Key(r) \in Keys)
  BY QueuedIsJob DEF AdmissionTypeOK, JobsNow, KeysGiven, Key
<1>2. capacity' \in Plans /\ used' \in Plans /\ lease' \in [Tokens -> Plans] /\ nextID' \in 0..MaxTokens
  BY <1>1, PlansOfTasks DEF AdmissionTypeOK, JobsNow
<1>3. /\ inFlight' \in Word /\ ramSequence' \in Nat /\ ramSequence' >= ramSequence
      /\ ramEntry' \in [Keys -> [token : 0..ramSequence', bytes : Word]]
  BY <1>1 DEF AdmissionTypeOK, JobsNow
<1>4. taskLease' \in [Keys -> 0..MaxTokens]
  BY <1>1 DEF AdmissionTypeOK, JobsNow
<1>5. job'[r] \in JobsNow' /\ (job'[r].at # "queued" => job'[r].key \in Keys)
  BY <1>1, <1>2, <1>3, PlansOfTasks DEF AdmissionTypeOK, JobsNow, JobAt, Key, Queued
<1>6. \A u \in Runs \ {r} : job'[u] = job[u]
  BY DEF AdmissionTypeOK
<1>7. JobsNow \subseteq JobsNow'
  BY <1>3 DEF JobsNow, AdmissionTypeOK
<1>8. job' \in [Runs -> JobsNow'] /\ KeysGiven'
  <2>1. DOMAIN job' = Runs /\ job' = [u \in Runs |-> job'[u]]
    BY DEF AdmissionTypeOK
  <2> QED
    BY <1>5, <1>6, <1>7, <2>1 DEF AdmissionTypeOK, KeysGiven, JobsNow
<1> QED
  BY <1>2, <1>3, <1>4, <1>8 DEF AdmissionTypeOK, JobsNow

LEMMA StepCleanupRam ==
  ASSUME IInv, NEW r \in Runs, CleanupRam(r)
  PROVE  IInv'
<1> USE AdmissionAssumption DEF IInv, CleanupRam, Becomes, Over, controllerVars, ledgerVars
<1>1. job[r] \in JobsNow /\ Queued \in JobsNow /\ (job[r].at # "queued" => Key(r) \in Keys)
  BY QueuedIsJob DEF AdmissionTypeOK, JobsNow, KeysGiven, Key
<1>2. capacity' \in Plans /\ used' \in Plans /\ lease' \in [Tokens -> Plans] /\ nextID' \in 0..MaxTokens
  BY <1>1, PlansOfTasks DEF AdmissionTypeOK, JobsNow
<1>3. /\ inFlight' \in Word /\ ramSequence' \in Nat /\ ramSequence' >= ramSequence
      /\ ramEntry' \in [Keys -> [token : 0..ramSequence', bytes : Word]]
  BY <1>1, UnbookTypes DEF AdmissionTypeOK, JobsNow
<1>4. taskLease' \in [Keys -> 0..MaxTokens]
  BY <1>1 DEF AdmissionTypeOK, JobsNow
<1>5. job'[r] \in JobsNow' /\ (job'[r].at # "queued" => job'[r].key \in Keys)
  BY <1>1, <1>2, <1>3, PlansOfTasks DEF AdmissionTypeOK, JobsNow, JobAt, Key, Queued
<1>6. \A u \in Runs \ {r} : job'[u] = job[u]
  BY DEF AdmissionTypeOK
<1>7. JobsNow \subseteq JobsNow'
  BY <1>3 DEF JobsNow, AdmissionTypeOK
<1>8. job' \in [Runs -> JobsNow'] /\ KeysGiven'
  <2>1. DOMAIN job' = Runs /\ job' = [u \in Runs |-> job'[u]]
    BY DEF AdmissionTypeOK
  <2> QED
    BY <1>5, <1>6, <1>7, <2>1 DEF AdmissionTypeOK, KeysGiven, JobsNow
<1> QED
  BY <1>2, <1>3, <1>4, <1>8 DEF AdmissionTypeOK, JobsNow

LEMMA StepCleanupLease ==
  ASSUME IInv, NEW r \in Runs, CleanupLease(r)
  PROVE  IInv'
<1> USE AdmissionAssumption DEF IInv, CleanupLease, Becomes, Over, controllerVars, ledgerVars
<1>1. job[r] \in JobsNow /\ Queued \in JobsNow /\ (job[r].at # "queued" => Key(r) \in Keys)
  BY QueuedIsJob DEF AdmissionTypeOK, JobsNow, KeysGiven, Key
<1>2. capacity' \in Plans /\ used' \in Plans /\ lease' \in [Tokens -> Plans] /\ nextID' \in 0..MaxTokens
  BY <1>1, ReturnTypes, PlansOfTasks DEF AdmissionTypeOK, JobsNow
<1>3. /\ inFlight' \in Word /\ ramSequence' \in Nat /\ ramSequence' >= ramSequence
      /\ ramEntry' \in [Keys -> [token : 0..ramSequence', bytes : Word]]
  BY <1>1 DEF AdmissionTypeOK, JobsNow
<1>4. taskLease' \in [Keys -> 0..MaxTokens]
  BY <1>1 DEF AdmissionTypeOK, JobsNow
<1>5. job'[r] \in JobsNow' /\ (job'[r].at # "queued" => job'[r].key \in Keys)
  BY <1>1, <1>2, <1>3, PlansOfTasks DEF AdmissionTypeOK, JobsNow, JobAt, Key, Queued
<1>6. \A u \in Runs \ {r} : job'[u] = job[u]
  BY DEF AdmissionTypeOK
<1>7. JobsNow \subseteq JobsNow'
  BY <1>3 DEF JobsNow, AdmissionTypeOK
<1>8. job' \in [Runs -> JobsNow'] /\ KeysGiven'
  <2>1. DOMAIN job' = Runs /\ job' = [u \in Runs |-> job'[u]]
    BY DEF AdmissionTypeOK
  <2> QED
    BY <1>5, <1>6, <1>7, <2>1 DEF AdmissionTypeOK, KeysGiven, JobsNow
<1> QED
  BY <1>2, <1>3, <1>4, <1>8 DEF AdmissionTypeOK, JobsNow

LEMMA NextIInv == IInv /\ [AdmissionNext]_admissionVars => IInv'
<1> SUFFICES ASSUME IInv, [AdmissionNext]_admissionVars PROVE IInv'
  OBVIOUS
<1>1. ASSUME UNCHANGED admissionVars PROVE IInv'
  BY <1>1 DEF IInv, AdmissionTypeOK, KeysGiven, admissionVars, controllerVars, ledgerVars
<1>2. ASSUME NEW r \in Runs, PlanTask(r) PROVE IInv'
  BY <1>2, StepPlanTask
<1>3. ASSUME NEW r \in Runs, ReserveLease(r) PROVE IInv'
  BY <1>3, StepReserveLease
<1>4. ASSUME NEW r \in Runs, LeaseRefused(r) PROVE IInv'
  BY <1>4, StepLeaseRefused
<1>5. ASSUME NEW r \in Runs, ReserveRam(r) PROVE IInv'
  BY <1>5, StepReserveRam
<1>6. ASSUME NEW r \in Runs, RamRefused(r) PROVE IInv'
  BY <1>6, StepRamRefused
<1>7. ASSUME NEW r \in Runs, FileLease(r) PROVE IInv'
  BY <1>7, StepFileLease
<1>8. ASSUME NEW r \in Runs, Unstart(r) PROVE IInv'
  BY <1>8, StepUnstart
<1>9. ASSUME NEW r \in Runs, UnstartLease(r) PROVE IInv'
  BY <1>9, StepUnstartLease
<1>10. ASSUME NEW r \in Runs, HandOver(r) PROVE IInv'
  BY <1>10, StepHandOver
<1>11. ASSUME NEW r \in Runs, TakeLease(r) PROVE IInv'
  BY <1>11, StepTakeLease
<1>12. ASSUME NEW r \in Runs, ReadEntry(r) PROVE IInv'
  BY <1>12, StepReadEntry
<1>13. ASSUME NEW r \in Runs, ReserveExecution(r) PROVE IInv'
  BY <1>13, StepReserveExecution
<1>14. ASSUME NEW r \in Runs, ReleaseExecution(r) PROVE IInv'
  BY <1>14, StepReleaseExecution
<1>15. ASSUME NEW r \in Runs, NoExecution(r) PROVE IInv'
  BY <1>15, StepNoExecution
<1>16. ASSUME NEW r \in Runs, CleanupRam(r) PROVE IInv'
  BY <1>16, StepCleanupRam
<1>17. ASSUME NEW r \in Runs, CleanupLease(r) PROVE IInv'
  BY <1>17, StepCleanupLease
<1> QED
  BY <1>1, <1>2, <1>3, <1>4, <1>5, <1>6, <1>7, <1>8, <1>9, <1>10, <1>11, <1>12, <1>13, <1>14,
     <1>15, <1>16, <1>17 DEF AdmissionNext

\* Every count of the controller and of the ledger stays a word, every receipt a token that
\* has been issued, and a run that has begun knows its key (admission.go, gatekeeper.go).
THEOREM TypeCorrect == AdmissionSpec => []AdmissionTypeOK
<1>1. AdmissionSpec => []IInv
  BY InitIInv, NextIInv, PTL DEF AdmissionSpec
<1>2. IInv => AdmissionTypeOK
  BY DEF IInv
<1> QED
  BY <1>1, <1>2, PTL

(***************************************************************************)
(* Reservations.                                                           *)
(***************************************************************************)
LEMMA ReserveFits ==
  ASSUME AdmissionTypeOK, NEW plan \in Plans, AtomicReserve(plan), NEW x \in Resources,
         used'[x] > used[x]
  PROVE  used'[x] <= capacity'[x]
<1>1. plan[x] \in Word /\ used[x] \in Word /\ capacity[x] \in Word
  BY DEF AdmissionTypeOK, Plans
<1>2. plan[x] <= SafeSub(capacity[x], used[x])
  BY DEF AtomicReserve, Reservable, FitsIn, Minus
<1>3. used'[x] = (used[x] + plan[x]) % (MaxWord + 1) /\ capacity' = capacity
  BY DEF AtomicReserve, Plus
<1>4. CASE capacity[x] < used[x]
  <2>1. plan[x] = 0 /\ used[x] + plan[x] <= MaxWord
    BY <1>1, <1>2, <1>4, AdmissionAssumption DEF SafeSub, Word
  <2> QED
    BY <1>1, <1>3, <2>1, Words DEF Word
<1>5. CASE capacity[x] >= used[x]
  <2>1. used[x] + plan[x] <= capacity[x] /\ used[x] + plan[x] <= MaxWord
    BY <1>1, <1>2, <1>5, AdmissionAssumption DEF SafeSub, Word
  <2> QED
    BY <1>1, <1>3, <2>1, Words
<1> QED
  BY <1>1, <1>4, <1>5, AdmissionAssumption DEF Word

LEMMA ReturnShrinks ==
  ASSUME AdmissionTypeOK, NEW n, ReturnLease(n), NEW x \in Resources
  PROVE  ~(used'[x] > used[x])
<1>1. used[x] \in Word /\ \A m \in Tokens : lease[m][x] \in Word
  BY DEF AdmissionTypeOK, Plans
<1>2. CASE n \in Tokens
  <2>1. used' = Minus(used, lease[n])
    BY <1>2 DEF ReturnLease
  <2>2. used'[x] = SafeSub(used[x], lease[n][x])
    BY <2>1 DEF Minus
  <2>3. used'[x] \in Word /\ used'[x] <= used[x]
    BY <1>1, <1>2, <2>2, Words
  <2> QED
    BY <1>1, <2>3, AdmissionAssumption DEF Word
<1>3. CASE n \notin Tokens
  <2>1. used'[x] = used[x]
    BY <1>3 DEF ReturnLease
  <2> QED
    BY <1>1, <2>1, AdmissionAssumption DEF Word
<1> QED
  BY <1>2, <1>3

\* No reservation is granted beyond the capacity of the moment, in any resource, whatever
\* the capacity was when the earlier leases were given (admission.go:203-209).
THEOREM ReservationsFit == AdmissionSpec => NoOvercommit
<1> DEFINE Fits == \A x \in Resources : used'[x] > used[x] => used'[x] <= capacity'[x]
<1>1. ASSUME IInv, AdmissionNext PROVE Fits
  <2> SUFFICES ASSUME NEW x \in Resources, used'[x] > used[x] PROVE used'[x] <= capacity'[x]
    OBVIOUS
  <2>1. used[x] \in Word
    BY <1>1 DEF IInv, AdmissionTypeOK, Plans
  <2>2. PICK r \in Runs :
           \/ ReserveLease(r) \/ ReserveExecution(r) \/ RamRefused(r) \/ UnstartLease(r)
           \/ ReleaseExecution(r) \/ CleanupLease(r) \/ UNCHANGED used
    BY <1>1 DEF AdmissionNext, PlanTask, LeaseRefused, ReserveRam, FileLease, Unstart, HandOver,
       TakeLease, ReadEntry, NoExecution, CleanupRam, controllerVars
  <2>3. job[r].plan \in Plans
    BY <1>1 DEF IInv, AdmissionTypeOK
  <2>4. \A n : ~ReturnLease(n)
    BY <1>1, ReturnShrinks DEF IInv
  <2>5. ~UNCHANGED used
    BY <2>1, AdmissionAssumption DEF Word
  <2>6. AtomicReserve(job[r].plan) \/ AtomicReserve(ExecutionPlan)
    BY <2>2, <2>4, <2>5 DEF ReserveLease, ReserveExecution, RamRefused, UnstartLease,
       ReleaseExecution, CleanupLease
  <2> QED
    BY <1>1, <2>3, <2>6, ReserveFits, PlansOfTasks DEF IInv
<1>2. IInv /\ [AdmissionNext]_admissionVars => [Fits]_admissionVars
  BY <1>1
<1>3. AdmissionSpec => []IInv
  BY InitIInv, NextIInv, PTL DEF AdmissionSpec
<1> QED
  BY <1>2, <1>3, PTL DEF AdmissionSpec, NoOvercommit

(***************************************************************************)
(* Sums: Total chooses which entry to take first, and the total does not   *)
(* depend on it.  Rest(f) is the function that the fold of Total builds,   *)
(* from a set of entries to what they add up to.                           *)
(***************************************************************************)
One(s) == CHOOSE x \in s : TRUE
Picks(S) == [s \in SUBSET S |-> One(s)]
Adds(f) == [s \in SUBSET DOMAIN f |-> [v \in Nat |-> f[One(s)] + v]]
SumsUp(f, g) == g = [s \in SUBSET DOMAIN f |-> IF s = {} THEN 0 ELSE f[One(s)] + g[s \ {One(s)}]]
Rest(f) == CHOOSE g : SumsUp(f, g)

LEMMA TotalIsRest == \A f : Total(f) = Rest(f)[DOMAIN f]
BY DEF Total, MapThenSumSet, MapThenFoldSet, One, Rest, SumsUp

LEMMA SumsUnique ==
  ASSUME NEW S, IsFiniteSet(S), NEW f \in [S -> Nat], NEW g, NEW h, SumsUp(f, g), SumsUp(f, h)
  PROVE  g = h
<1> DEFINE T == {s \in SUBSET S : g[s] = h[s]}
<1>1. ASSUME NEW s \in SUBSET S, \A x \in s : s \ {x} \in T PROVE s \in T
  <2>1. CASE s = {}
    BY <2>1 DEF SumsUp
  <2>2. CASE s # {}
    <3>1. One(s) \in s
      BY <2>2 DEF One
    <3>2. g[s \ {One(s)}] = h[s \ {One(s)}]
      BY <1>1, <3>1
    <3>3. g[s] = f[One(s)] + g[s \ {One(s)}] /\ h[s] = f[One(s)] + h[s \ {One(s)}]
      BY <2>2 DEF SumsUp
    <3> QED
      BY <3>2, <3>3
  <2> QED
    BY <2>1, <2>2
<1>2. SUBSET S \subseteq T
  <2> HIDE DEF T
  <2> QED
    BY <1>1, SubsetInduction
<1>3. g = [s \in SUBSET S |-> g[s]] /\ h = [s \in SUBSET S |-> h[s]]
  BY DEF SumsUp
<1> QED
  BY <1>2, <1>3

LEMMA FoldOfTotal ==
  ASSUME NEW S, IsFiniteSet(S), NEW f \in [S -> Nat]
  PROVE  /\ \A s \in (SUBSET S) \ {{}} : Picks(S)[s] \in s /\ Adds(f)[s] \in [Nat -> Nat]
         /\ Folding(Rest(f), S, 0, Picks(S), Adds(f))
         /\ Rest(f) \in [SUBSET S -> Nat]
<1>1. ASSUME NEW s \in (SUBSET S) \ {{}} PROVE Picks(S)[s] \in s /\ Adds(f)[s] \in [Nat -> Nat]
  <2>1. One(s) \in s
    BY <1>1 DEF One
  <2> QED
    BY <2>1 DEF Picks, Adds
<1>2. PICK g \in [SUBSET S -> Nat] : Folding(g, S, 0, Picks(S), Adds(f))
  BY <1>1, FoldExists
<1>3. SumsUp(f, g)
  <2>1. ASSUME NEW s \in SUBSET S, s # {}
        PROVE  Adds(f)[s][g[s \ {Picks(S)[s]}]] = f[One(s)] + g[s \ {One(s)}]
    BY <1>1, <1>2, <2>1 DEF Adds, Picks
  <2> QED
    BY <1>2, <2>1 DEF Folding, SumsUp
<1>4. SumsUp(f, Rest(f))
  BY <1>3 DEF Rest
<1>5. Rest(f) = g
  BY <1>3, <1>4, SumsUnique
<1> QED
  BY <1>1, <1>2, <1>5

\* Whatever element is taken out first.
LEMMA RestTakes ==
  ASSUME NEW S, IsFiniteSet(S), NEW f \in [S -> Nat]
  PROVE  \A s \in SUBSET S : \A k \in s : Rest(f)[s] = f[k] + Rest(f)[s \ {k}]
<1> DEFINE r == Rest(f)
           T == {s \in SUBSET S : \A k \in s : r[s] = f[k] + r[s \ {k}]}
<1>0. r \in [SUBSET S -> Nat]
  BY FoldOfTotal
<1>1. ASSUME NEW s \in SUBSET S, s # {}
      PROVE  One(s) \in s /\ r[s] = f[One(s)] + r[s \ {One(s)}]
  <2>1. One(s) \in s
    BY <1>1 DEF One
  <2>2. r[s] = Adds(f)[s][r[s \ {Picks(S)[s]}]]
    <3>1. Folding(r, S, 0, Picks(S), Adds(f))
      BY FoldOfTotal
    <3> HIDE DEF r
    <3> QED
      BY <1>1, <3>1 DEF Folding
  <2> QED
    BY <1>0, <2>1, <2>2 DEF Adds, Picks
<1>2. ASSUME NEW s \in SUBSET S, \A x \in s : s \ {x} \in T PROVE s \in T
  <2> SUFFICES ASSUME NEW k \in s PROVE r[s] = f[k] + r[s \ {k}]
    OBVIOUS
  <2> DEFINE p == One(s)
  <2>1. p \in s /\ r[s] = f[p] + r[s \ {p}]
    BY <1>1
  <2> HIDE DEF p, r
  <2>2. CASE p # k
    <3>1. r[s \ {p}] = f[k] + r[(s \ {p}) \ {k}]
      BY <1>2, <2>1, <2>2
    <3>2. r[s \ {k}] = f[p] + r[(s \ {k}) \ {p}]
      BY <1>2, <2>1, <2>2
    <3>3. (s \ {p}) \ {k} = (s \ {k}) \ {p}
      OBVIOUS
    <3>4. f[p] \in Nat /\ f[k] \in Nat /\ r[(s \ {k}) \ {p}] \in Nat
      BY <1>0, <2>1
    <3> QED
      BY <2>1, <3>1, <3>2, <3>3, <3>4
  <2> QED
    BY <2>1, <2>2
<1> HIDE DEF T
<1>3. SUBSET S \subseteq T
  BY <1>2, SubsetInduction
<1> QED
  BY <1>3 DEF T

LEMMA TotalOfZeros ==
  ASSUME NEW S, IsFiniteSet(S), NEW f \in [S -> Nat], \A k \in S : f[k] = 0
  PROVE  Total(f) = 0
<1> DEFINE r == Rest(f)
           T == {s \in SUBSET S : r[s] = 0}
<1>1. r \in [SUBSET S -> Nat] /\ r[{}] = 0
  <2>1. r \in [SUBSET S -> Nat] /\ Folding(r, S, 0, Picks(S), Adds(f))
    BY FoldOfTotal
  <2> HIDE DEF r
  <2> QED
    BY <2>1 DEF Folding
<1>2. ASSUME NEW s \in SUBSET S, NEW k \in s PROVE r[s] = f[k] + r[s \ {k}]
  BY RestTakes
<1>3. ASSUME NEW s \in SUBSET S, \A x \in s : s \ {x} \in T PROVE s \in T
  <2> HIDE DEF r
  <2>1. CASE s = {}
    BY <1>1, <2>1
  <2>2. CASE s # {}
    <3>1. PICK k \in s : TRUE
      BY <2>2
    <3>2. r[s \ {k}] = 0 /\ f[k] = 0 /\ r[s] = f[k] + r[s \ {k}]
      BY <1>2, <1>3, <3>1
    <3> QED
      BY <3>2
  <2> QED
    BY <2>1, <2>2
<1>4. SUBSET S \subseteq T
  <2> HIDE DEF T
  <2> QED
    BY <1>3, SubsetInduction
<1> QED
  BY <1>4, TotalIsRest

\* A total is a natural number that no entry exceeds.
LEMMA TotalOfEntries ==
  ASSUME NEW S, IsFiniteSet(S), NEW f \in [S -> Nat], NEW k \in S
  PROVE  Total(f) \in Nat /\ f[k] \in Nat /\ f[k] <= Total(f)
<1>1. DOMAIN f = S /\ Total(f) = Rest(f)[S]
  BY TotalIsRest
<1>2. Rest(f)[S] = f[k] + Rest(f)[S \ {k}]
  BY RestTakes
<1>3. Rest(f)[S \ {k}] \in Nat
  <2>1. Rest(f) \in [SUBSET S -> Nat]
    BY FoldOfTotal
  <2> QED
    BY <2>1
<1> QED
  BY <1>1, <1>2, <1>3

\* Two that differ in one entry have totals that differ by as much.
LEMMA TotalOfChange ==
  ASSUME NEW S, IsFiniteSet(S), NEW f \in [S -> Nat], NEW h \in [S -> Nat], NEW k \in S,
         \A j \in S \ {k} : h[j] = f[j]
  PROVE  Total(h) = (Total(f) - f[k]) + h[k]
<1> DEFINE u == S \ {k}
<1>1. Total(f) = f[k] + Rest(f)[u] /\ Total(h) = h[k] + Rest(h)[u]
  <2>1. Total(f) = Rest(f)[S] /\ Total(h) = Rest(h)[S]
    BY TotalIsRest
  <2>2. Rest(f)[S] = f[k] + Rest(f)[S \ {k}]
    BY RestTakes
  <2>3. Rest(h)[S] = h[k] + Rest(h)[S \ {k}]
    BY RestTakes
  <2> QED
    BY <2>1, <2>2, <2>3
<1>2. \A s \in (SUBSET u) \ {{}} : Adds(f)[s] = Adds(h)[s]
  <2> SUFFICES ASSUME NEW s \in (SUBSET u) \ {{}} PROVE Adds(f)[s] = Adds(h)[s]
    OBVIOUS
  <2>1. One(s) \in s
    BY DEF One
  <2>2. f[One(s)] = h[One(s)]
    BY <2>1
  <2> QED
    BY <2>2 DEF Adds
<1>3. Rest(h)[u] = Rest(f)[u] /\ Rest(f)[u] \in Nat
  <2>1. Folding(Rest(f), S, 0, Picks(S), Adds(f)) /\ Folding(Rest(h), S, 0, Picks(S), Adds(h))
    BY FoldOfTotal
  <2>2. \A s \in (SUBSET S) \ {{}} : Picks(S)[s] \in s
    BY FoldOfTotal
  <2>3. u \in SUBSET S /\ IsFiniteSet(u) /\ Rest(f) \in [SUBSET S -> Nat]
    BY FoldOfTotal, FS_Subset
  <2> HIDE DEF u
  <2> QED
    BY <1>2, <2>1, <2>2, <2>3, FoldSame
<1> HIDE DEF u
<1> QED
  BY <1>1, <1>3

(***************************************************************************)
(* The books: the strengthening of BooksBalance that a step preserves.     *)
(* Which run owns a lease or an entry decides what its next step may       *)
(* return; that two runs never own the same one, and that only one run is  *)
(* in the hands of the feeder, is why no step of another run disturbs it.  *)
(***************************************************************************)
\* The runs that hold a lease of their own, and those the entry of their key belongs to.
Leased == {"leased", "booked", "ready", "unstarting", "taken", "running", "executing", "cleaning",
           "releasing"}
Entered == {"booked", "ready", "handed", "taken", "running", "executing", "cleaning"}
Filing == {"ready", "unstarting", "handed"}

\* The leases a run will return.
Receipts(r) ==
    {n \in Tokens : \/ n \in {job[r].token, job[r].execution}
                    \/ job[r].at = "handed" /\ n = taskLease[Key(r)]}

Shapes ==
    \A r \in Runs :
        /\ job[r].at = "queued" => job[r] = Queued
        /\ job[r].token # 0 <=> job[r].at \in Leased
        /\ job[r].execution # 0 <=> job[r].at = "executing"
        /\ job[r].at \in Feeding => job[r].plan # Zero
        /\ job[r].token = job[r].execution => job[r].token = 0
FeedsAlone == \A r, u \in Runs : job[r].at \in Feeding /\ job[u].at \in Feeding => r = u
LeasesHeld ==
    /\ \A n \in Tokens : n > nextID => lease[n] = Zero
    /\ \A r \in Runs : \A n \in Receipts(r) : lease[n] # Zero
    /\ \A n \in Tokens : lease[n] # Zero => \E r \in Runs : n \in Receipts(r)
    /\ \A r, u \in Runs : \A n \in Receipts(r) \cap Receipts(u) : r = u
Filed ==
    /\ \A r \in Runs : job[r].at \in {"ready", "unstarting"} => taskLease[Key(r)] = job[r].token
    /\ \A r \in Runs : job[r].at = "handed" => taskLease[Key(r)] # 0
    /\ \A k \in Keys : taskLease[k] # 0 => \E r \in Runs : Key(r) = k /\ job[r].at \in Filing
Entries ==
    /\ \A r \in Runs : job[r].at \in Entered => ramEntry[Key(r)] # NoEntry
    /\ \A r \in Runs :
          job[r].at \in Entered \ {"handed", "taken"} => job[r].ram = ramEntry[Key(r)]
    /\ \A r, u \in Runs :
          job[r].at \in Entered /\ job[u].at \in Entered /\ Key(r) = Key(u) => r = u
    /\ \A k \in Keys :
          ramEntry[k] # NoEntry =>
              ramEntry[k].token # 0 /\ \E r \in Runs : Key(r) = k /\ job[r].at \in Entered
Sums ==
    /\ \A x \in Resources : used[x] = Total([n \in Tokens |-> lease[n][x]])
    /\ inFlight = Total([k \in Keys |-> ramEntry[k].bytes])
Books == Shapes /\ FeedsAlone /\ LeasesHeld /\ Filed /\ Entries /\ Sums

\* What a step makes of the record of its run.
Record(at, key, plan, token, ram, execution) ==
    [at |-> at, key |-> key, plan |-> plan, token |-> token, ram |-> ram, execution |-> execution]
Turns(r, here, record) ==
    job[r].at = here /\ job'[r] = record /\ \A u \in Runs \ {r} : job'[u] = job[u]

Step(r) ==
    \/ PlanTask(r) \/ ReserveLease(r) \/ LeaseRefused(r) \/ ReserveRam(r) \/ RamRefused(r)
    \/ FileLease(r) \/ Unstart(r) \/ UnstartLease(r) \/ HandOver(r)
    \/ TakeLease(r) \/ ReadEntry(r) \/ ReserveExecution(r) \/ ReleaseExecution(r)
    \/ NoExecution(r) \/ CleanupRam(r) \/ CleanupLease(r)
As(r, at) ==
    Record(at, Key(r), job[r].plan, job[r].token, job[r].ram, job[r].execution)
Ends(r, here) == Turns(r, here, Record("queued", NoKey, Zero, 0, NoEntry, 0))

LEMMA RunsTurn ==
  ASSUME AdmissionTypeOK, NEW r \in Runs
  PROVE  /\ job[r] = As(r, job[r].at)
         /\ PlanTask(r) =>
               \E k \in Keys, ram \in RAMSizes :
                  Turns(r, "queued", Record("planned", k, TaskPlan(ram), 0, NoEntry, 0))
         /\ ReserveLease(r) =>
               Turns(r, "planned", Record("leased", Key(r), job[r].plan, nextID', job[r].ram,
                                       job[r].execution))
         /\ LeaseRefused(r) => Ends(r, "planned")
         /\ ReserveRam(r) =>
               Turns(r, "leased",
                     Record("booked", Key(r), job[r].plan, job[r].token, ramEntry'[Key(r)],
                            job[r].execution))
         /\ RamRefused(r) => Ends(r, "leased")
         /\ FileLease(r) => Turns(r, "booked", As(r, "ready"))
         /\ Unstart(r) => Turns(r, "ready", As(r, "unstarting"))
         /\ UnstartLease(r) => Ends(r, "unstarting")
         /\ HandOver(r) => Turns(r, "ready", Record("handed", Key(r), Zero, 0, NoEntry, 0))
         /\ TakeLease(r) =>
               Turns(r, "handed",
                     Record("taken", Key(r), job[r].plan, taskLease[Key(r)], job[r].ram,
                            job[r].execution))
         /\ ReadEntry(r) =>
               Turns(r, "taken",
                     Record("running", Key(r), job[r].plan, job[r].token, ramEntry[Key(r)],
                            job[r].execution))
         /\ ReserveExecution(r) =>
               Turns(r, "running",
                     Record("executing", Key(r), job[r].plan, job[r].token, job[r].ram, nextID'))
         /\ ReleaseExecution(r) =>
               Turns(r, "executing",
                     Record("cleaning", Key(r), job[r].plan, job[r].token, job[r].ram, 0))
         /\ NoExecution(r) => Turns(r, "running", As(r, "cleaning"))
         /\ CleanupRam(r) => Turns(r, "cleaning", As(r, "releasing"))
         /\ CleanupLease(r) => Ends(r, "releasing")
<1>1. job \in [Runs -> JobsNow]
  BY DEF AdmissionTypeOK, JobsNow
<1> USE <1>1 DEF JobsNow, Record, Turns, Becomes, Over, Queued, Key, As, Ends
<1>2. job[r] = As(r, job[r].at)
  OBVIOUS
<1>3. PlanTask(r) =>
         \E k \in Keys, ram \in RAMSizes :
            Turns(r, "queued", Record("planned", k, TaskPlan(ram), 0, NoEntry, 0))
  BY DEF PlanTask
<1>4. ReserveLease(r) =>
         Turns(r, "planned", Record("leased", Key(r), job[r].plan, nextID', job[r].ram,
                                       job[r].execution))
  BY DEF ReserveLease
<1>5. LeaseRefused(r) => Ends(r, "planned")
  BY DEF LeaseRefused
<1>6. ReserveRam(r) =>
         Turns(r, "leased",
               Record("booked", Key(r), job[r].plan, job[r].token, ramEntry'[Key(r)],
                      job[r].execution))
  BY DEF ReserveRam
<1>7. RamRefused(r) => Ends(r, "leased")
  BY DEF RamRefused
<1>8. FileLease(r) => Turns(r, "booked", As(r, "ready"))
  BY DEF FileLease
<1>9. Unstart(r) => Turns(r, "ready", As(r, "unstarting"))
  BY DEF Unstart
<1>10. UnstartLease(r) => Ends(r, "unstarting")
  BY DEF UnstartLease
<1>11. HandOver(r) => Turns(r, "ready", Record("handed", Key(r), Zero, 0, NoEntry, 0))
  BY DEF HandOver
<1>12. TakeLease(r) =>
         Turns(r, "handed",
               Record("taken", Key(r), job[r].plan, taskLease[Key(r)], job[r].ram,
                      job[r].execution))
  BY DEF TakeLease
<1>13. ReadEntry(r) =>
         Turns(r, "taken",
               Record("running", Key(r), job[r].plan, job[r].token, ramEntry[Key(r)],
                      job[r].execution))
  BY DEF ReadEntry
<1>14. ReserveExecution(r) =>
         Turns(r, "running",
               Record("executing", Key(r), job[r].plan, job[r].token, job[r].ram, nextID'))
  BY DEF ReserveExecution
<1>15. ReleaseExecution(r) =>
         Turns(r, "executing", Record("cleaning", Key(r), job[r].plan, job[r].token, job[r].ram, 0))
  BY DEF ReleaseExecution
<1>16. NoExecution(r) => Turns(r, "running", As(r, "cleaning"))
  BY DEF NoExecution
<1>17. CleanupRam(r) => Turns(r, "cleaning", As(r, "releasing"))
  BY DEF CleanupRam
<1>18. CleanupLease(r) => Ends(r, "releasing")
  BY DEF CleanupLease
<1> QED
  BY <1>2, <1>3, <1>4, <1>5, <1>6, <1>7, <1>8, <1>9, <1>10, <1>11, <1>12, <1>13, <1>14, <1>15,
     <1>16, <1>17, <1>18


\* The receipts that a run holds, by where it is.
ReceiptsIn(j, filed) ==
    IF j.at = "executing" THEN {j.token, j.execution}
    ELSE IF j.at \in Leased THEN {j.token}
    ELSE IF j.at = "handed" THEN {filed} \ {0}
    ELSE {}

LEMMA ReceiptsOfRecord ==
  ASSUME NEW j, j.token \in 0..MaxTokens, j.execution \in 0..MaxTokens,
         NEW filed, j.at = "handed" => filed \in 0..MaxTokens,
         j.token # 0 <=> j.at \in Leased, j.execution # 0 <=> j.at = "executing"
  PROVE  {n \in Tokens : n \in {j.token, j.execution} \/ (j.at = "handed" /\ n = filed)}
            = ReceiptsIn(j, filed)
<1>1. \A n \in 0..MaxTokens : n \in Tokens <=> n # 0
  BY AdmissionAssumption DEF Tokens
<1>2. 0 \notin Tokens
  BY DEF Tokens
<1>3. CASE j.at = "executing"
  BY <1>1, <1>2, <1>3 DEF ReceiptsIn, Leased
<1>4. CASE j.at # "executing" /\ j.at \in Leased
  BY <1>1, <1>2, <1>4 DEF ReceiptsIn, Leased
<1>5. CASE j.at \notin Leased
  BY <1>1, <1>2, <1>5 DEF ReceiptsIn, Leased
<1> QED
  BY <1>3, <1>4, <1>5 DEF Leased

LEMMA ReceiptsAt ==
  ASSUME IInv, Shapes, NEW r \in Runs
  PROVE  Receipts(r) = ReceiptsIn(job[r], taskLease[Key(r)])
<1>1. /\ job[r].token \in 0..MaxTokens /\ job[r].execution \in 0..MaxTokens
      /\ job[r].at = "handed" => taskLease[Key(r)] \in 0..MaxTokens
  BY DEF IInv, AdmissionTypeOK, KeysGiven, Key
<1> QED
  BY <1>1, ReceiptsOfRecord DEF Shapes, Receipts

LEMMA ReceiptsNext ==
  ASSUME IInv', Shapes', NEW r \in Runs
  PROVE  Receipts(r)' = ReceiptsIn(job'[r], taskLease'[job'[r].key])
<1>1. /\ job'[r].token \in 0..MaxTokens /\ job'[r].execution \in 0..MaxTokens
      /\ job'[r].at = "handed" => taskLease'[job'[r].key] \in 0..MaxTokens
  BY DEF IInv, AdmissionTypeOK, KeysGiven
<1> QED
  BY <1>1, ReceiptsOfRecord DEF Shapes, Receipts, Key

\* A lease is taken, returned, or left with the runs that hold it.
LEMMA LeaseTaken ==
  ASSUME AdmissionTypeOK, LeasesHeld, NEW r \in Runs, NEW plan \in Plans, plan # Zero,
         AtomicReserve(plan), Receipts(r)' = Receipts(r) \cup {nextID'},
         \A u \in Runs \ {r} : Receipts(u)' = Receipts(u)
  PROVE  LeasesHeld'
<1>1. /\ nextID' = nextID + 1 /\ nextID' \in Tokens /\ nextID \in Nat
      /\ lease' = [lease EXCEPT ![nextID'] = plan]
  BY AdmissionAssumption DEF AtomicReserve, AdmissionTypeOK, Tokens
<1>2. lease'[nextID'] = plan /\ \A n \in Tokens \ {nextID'} : lease'[n] = lease[n]
  BY <1>1 DEF AdmissionTypeOK
<1>3. \A u \in Runs : nextID' \notin Receipts(u)
  BY <1>1 DEF LeasesHeld
<1>4. \A u \in Runs : Receipts(u) \subseteq Tokens
  BY DEF Receipts
<1>5. \A n \in Tokens : n > nextID' => lease'[n] = Zero
  BY <1>1, <1>2 DEF LeasesHeld, Tokens
<1>6. \A u \in Runs : \A n \in Receipts(u)' : lease'[n] # Zero
  BY <1>2, <1>3, <1>4 DEF LeasesHeld
<1>7. \A n \in Tokens : lease'[n] # Zero => \E u \in Runs : n \in Receipts(u)'
  BY <1>2 DEF LeasesHeld
<1>8. \A u, v \in Runs : \A n \in Receipts(u)' \cap Receipts(v)' : u = v
  BY <1>3 DEF LeasesHeld
<1>9. Zero' = Zero
  OBVIOUS
<1> QED
  BY <1>5, <1>6, <1>7, <1>8, <1>9 DEF LeasesHeld

LEMMA LeaseReturned ==
  ASSUME AdmissionTypeOK, LeasesHeld, NEW r \in Runs, NEW n \in Receipts(r),
         ReturnLease(n), Receipts(r)' = Receipts(r) \ {n},
         \A u \in Runs \ {r} : Receipts(u)' = Receipts(u)
  PROVE  LeasesHeld'
<1>1. n \in Tokens /\ nextID' = nextID
      /\ \A m \in Tokens : lease'[m] = IF m = n THEN Zero ELSE lease[m]
  BY DEF ReturnLease, Receipts, AdmissionTypeOK
<1>2. \A u \in Runs : Receipts(u) \subseteq Tokens
  BY DEF Receipts
<1>3. \A u \in Runs \ {r} : n \notin Receipts(u)
  BY DEF LeasesHeld
<1>4. \A m \in Tokens : m > nextID' => lease'[m] = Zero
  BY <1>1 DEF LeasesHeld
<1>5. \A u \in Runs : \A m \in Receipts(u)' : lease'[m] # Zero
  BY <1>1, <1>2, <1>3 DEF LeasesHeld
<1>6. \A m \in Tokens : lease'[m] # Zero => \E u \in Runs : m \in Receipts(u)'
  BY <1>1 DEF LeasesHeld
<1>7. \A u, v \in Runs : \A m \in Receipts(u)' \cap Receipts(v)' : u = v
  BY DEF LeasesHeld
<1> QED
  BY <1>4, <1>5, <1>6, <1>7 DEF LeasesHeld

LEMMA LeaseKept ==
  ASSUME LeasesHeld, UNCHANGED <<lease, nextID>>, \A u \in Runs : Receipts(u)' = Receipts(u)
  PROVE  LeasesHeld'
BY DEF LeasesHeld

LEMMA ReceiptsOfOthers ==
  ASSUME NEW u \in Runs, job'[u] = job[u],
         job[u].at = "handed" => taskLease'[Key(u)] = taskLease[Key(u)]
  PROVE  Receipts(u)' = Receipts(u)
BY DEF Receipts, Key

\* A token filed under a key is the receipt of the run that is to take it there.
LEMMA FiledOnce ==
  ASSUME IInv, Shapes, LeasesHeld, Filed, NEW r \in Runs, job[r].at \in Filing,
         NEW u \in Runs, job[u].at \in Filing, Key(u) = Key(r)
  PROVE  u = r
<1>1. Key(r) \in Keys /\ taskLease[Key(r)] \in 0..MaxTokens
  BY DEF IInv, AdmissionTypeOK, KeysGiven, Key, Filing
<1>2. taskLease[Key(r)] # 0
  BY DEF Filed, Shapes, Filing, Leased
<1>3. taskLease[Key(r)] \in Receipts(r) /\ taskLease[Key(r)] \in Receipts(u)
  BY <1>1, <1>2, AdmissionAssumption DEF Filed, Filing, Receipts, Tokens
<1> QED
  BY <1>3 DEF LeasesHeld

LEMMA ShapesStep ==
  ASSUME IInv, IInv', Books, NEW r \in Runs, Step(r)
  PROVE  Shapes'
<1>1. \A u \in Runs : job[u] \in JobsNow
  BY DEF IInv, AdmissionTypeOK, JobsNow
<1>2. ASSUME NEW here, NEW record, Turns(r, here, record),
             record.at = "queued" => record = Queued,
             record.token # 0 <=> record.at \in Leased,
             record.execution # 0 <=> record.at = "executing",
             record.at \in Feeding => record.plan # Zero,
             record.token = record.execution => record.token = 0
      PROVE  Shapes'
  BY <1>2 DEF Books, Shapes, Turns
<1>3. /\ job[r].at = "queued" => job[r] = Queued
      /\ job[r].token # 0 <=> job[r].at \in Leased
      /\ job[r].execution # 0 <=> job[r].at = "executing"
      /\ job[r].at \in Feeding => job[r].plan # Zero
      /\ job[r].token = job[r].execution => job[r].token = 0
  BY DEF Books, Shapes
<1>4. \A here : Ends(r, here) => Shapes'
  BY <1>2 DEF Ends, Record, Queued, Leased, Feeding
<1>5. AdmissionTypeOK
  BY DEF IInv
<1>6. CASE PlanTask(r)
  <2>1. PICK k \in Keys, ram \in RAMSizes :
           Turns(r, "queued", Record("planned", k, TaskPlan(ram), 0, NoEntry, 0))
    BY <1>5, <1>6, RunsTurn
  <2>2. TaskPlan(ram)["tracks"] = 1 /\ Zero["tracks"] = 0
    BY DEF TaskPlan, Zero, Resources, Counts
  <2> QED
    BY <1>2, <2>1, <2>2 DEF Record, Leased, Feeding
<1>7. CASE ReserveLease(r)
  <2>1. Turns(r, "planned", Record("leased", Key(r), job[r].plan, nextID', job[r].ram,
                                   job[r].execution))
    BY <1>5, <1>7, RunsTurn
  <2>2. job[r].at = "planned"
    BY <2>1 DEF Turns
  <2>3. nextID' # 0
    BY <1>5, <1>7 DEF ReserveLease, AtomicReserve, AdmissionTypeOK
  <2> QED
    BY <1>2, <1>3, <2>1, <2>2, <2>3 DEF Record, Leased, Feeding
<1>8. CASE ReserveRam(r)
  <2>1. Turns(r, "leased", Record("booked", Key(r), job[r].plan, job[r].token, ramEntry'[Key(r)],
                                  job[r].execution))
    BY <1>5, <1>8, RunsTurn
  <2>2. job[r].at = "leased"
    BY <2>1 DEF Turns
  <2> QED
    BY <1>2, <1>3, <2>1, <2>2 DEF Record, Leased, Feeding
<1>9. CASE FileLease(r)
  <2>1. Turns(r, "booked", As(r, "ready"))
    BY <1>5, <1>9, RunsTurn
  <2>2. job[r].at = "booked"
    BY <2>1 DEF Turns
  <2> QED
    BY <1>2, <1>3, <2>1, <2>2 DEF Record, Leased, Feeding, As
<1>10. CASE Unstart(r)
  <2>1. Turns(r, "ready", As(r, "unstarting"))
    BY <1>5, <1>10, RunsTurn
  <2>2. job[r].at = "ready"
    BY <2>1 DEF Turns
  <2> QED
    BY <1>2, <1>3, <2>1, <2>2 DEF Record, Leased, Feeding, As
<1>11. CASE HandOver(r)
  <2>1. Turns(r, "ready", Record("handed", Key(r), Zero, 0, NoEntry, 0))
    BY <1>5, <1>11, RunsTurn
  <2>2. job[r].at = "ready"
    BY <2>1 DEF Turns
  <2> QED
    BY <1>2, <1>3, <2>1, <2>2 DEF Record, Leased, Feeding
<1>12. CASE TakeLease(r)
  <2>1. Turns(r, "handed", Record("taken", Key(r), job[r].plan, taskLease[Key(r)], job[r].ram,
                                  job[r].execution))
    BY <1>5, <1>12, RunsTurn
  <2>2. job[r].at = "handed"
    BY <2>1 DEF Turns
  <2>3. taskLease[Key(r)] # 0
    BY <1>12 DEF TakeLease, Books, Filed
  <2> QED
    BY <1>2, <1>3, <2>1, <2>2, <2>3 DEF Record, Leased, Feeding
<1>13. CASE ReadEntry(r)
  <2>1. Turns(r, "taken", Record("running", Key(r), job[r].plan, job[r].token, ramEntry[Key(r)],
                                 job[r].execution))
    BY <1>5, <1>13, RunsTurn
  <2>2. job[r].at = "taken"
    BY <2>1 DEF Turns
  <2> QED
    BY <1>2, <1>3, <2>1, <2>2 DEF Record, Leased, Feeding
<1>14. CASE ReserveExecution(r)
  <2>1. Turns(r, "running", Record("executing", Key(r), job[r].plan, job[r].token, job[r].ram,
                                   nextID'))
    BY <1>5, <1>14, RunsTurn
  <2>2. job[r].at = "running"
    BY <2>1 DEF Turns
  <2>3. nextID' = nextID + 1 /\ nextID \in Nat
    BY <1>5, <1>14 DEF ReserveExecution, AtomicReserve, AdmissionTypeOK
  <2>4. job[r].token \in Receipts(r)
    BY <1>3, <2>2, ReceiptsAt DEF Books, Leased, ReceiptsIn
  <2>5. job[r].token \in Tokens /\ lease[job[r].token] # Zero
    BY <2>4 DEF Books, LeasesHeld, Receipts
  <2>6. ~(job[r].token > nextID) /\ job[r].token \in Nat
    BY <2>5 DEF Books, LeasesHeld, Tokens
  <2>7. nextID' # 0 /\ nextID' # job[r].token
    BY <2>3, <2>6
  <2> QED
    BY <1>2, <1>3, <2>1, <2>2, <2>7 DEF Record, Leased, Feeding
<1>15. CASE ReleaseExecution(r)
  <2>1. Turns(r, "executing", Record("cleaning", Key(r), job[r].plan, job[r].token, job[r].ram,
                                     0))
    BY <1>5, <1>15, RunsTurn
  <2>2. job[r].at = "executing"
    BY <2>1 DEF Turns
  <2> QED
    BY <1>2, <1>3, <2>1, <2>2 DEF Record, Leased, Feeding
<1>16. CASE NoExecution(r)
  <2>1. Turns(r, "running", As(r, "cleaning"))
    BY <1>5, <1>16, RunsTurn
  <2>2. job[r].at = "running"
    BY <2>1 DEF Turns
  <2> QED
    BY <1>2, <1>3, <2>1, <2>2 DEF Record, Leased, Feeding, As
<1>17. CASE CleanupRam(r)
  <2>1. Turns(r, "cleaning", As(r, "releasing"))
    BY <1>5, <1>17, RunsTurn
  <2>2. job[r].at = "cleaning"
    BY <2>1 DEF Turns
  <2> QED
    BY <1>2, <1>3, <2>1, <2>2 DEF Record, Leased, Feeding, As
<1> QED
  BY <1>4, <1>5, <1>6, <1>7, <1>8, <1>9, <1>10, <1>11, <1>12, <1>13, <1>14, <1>15, <1>16,
     <1>17, RunsTurn DEF Step

LEMMA FeedsAloneStep ==
  ASSUME IInv, Books, NEW r \in Runs, Step(r)
  PROVE  FeedsAlone'
<1>1. AdmissionTypeOK
  BY DEF IInv
<1>2. /\ \A u \in Runs \ {r} : job'[u].at = job[u].at
      /\ job'[r].at \in Feeding =>
            job[r].at \in Feeding \/ \A u \in Runs : job[u].at \notin Feeding
  <2>1. CASE PlanTask(r)
    BY <1>1, <2>1, RunsTurn DEF PlanTask, Turns
  <2>2. CASE ReserveLease(r) \/ ReserveRam(r) \/ FileLease(r) \/ Unstart(r)
    BY <1>1, <2>2, RunsTurn DEF Turns, Feeding
  <2>3. CASE LeaseRefused(r) \/ RamRefused(r) \/ UnstartLease(r) \/ CleanupLease(r)
    <3>1. \E here \in JobAt : Ends(r, here)
      BY <1>1, <2>3, RunsTurn DEF JobAt
    <3> QED
      BY <3>1 DEF Turns, Ends, Record, Feeding
  <2>4. CASE HandOver(r) \/ TakeLease(r) \/ ReadEntry(r) \/ ReserveExecution(r)
    <3>1. \E at \in {"handed", "taken", "running", "executing"} :
             \E here, key, plan, token, ram, execution :
                Turns(r, here, Record(at, key, plan, token, ram, execution))
      <4>1. CASE HandOver(r)
        BY <1>1, <4>1, RunsTurn
      <4>2. CASE TakeLease(r)
        BY <1>1, <4>2, RunsTurn
      <4>3. CASE ReadEntry(r)
        BY <1>1, <4>3, RunsTurn
      <4>4. CASE ReserveExecution(r)
        BY <1>1, <4>4, RunsTurn
      <4> QED
        BY <2>4, <4>1, <4>2, <4>3, <4>4
    <3> QED
      BY <3>1 DEF Turns, Record, Feeding
  <2>5. CASE ReleaseExecution(r) \/ NoExecution(r) \/ CleanupRam(r)
    <3>1. \E at \in {"cleaning", "releasing"} : \E here, key, plan, token, ram, execution :
             Turns(r, here, Record(at, key, plan, token, ram, execution))
      BY <1>1, <2>5, RunsTurn DEF As
    <3> QED
      BY <3>1 DEF Turns, Record, Feeding
  <2> QED
    BY <2>1, <2>2, <2>3, <2>4, <2>5 DEF Step
<1> QED
  BY <1>2 DEF Books, FeedsAlone

LEMMA LeasesHeldStep ==
  ASSUME IInv, IInv', Books, Shapes', NEW r \in Runs, Step(r)
  PROVE  LeasesHeld'
<1>0. AdmissionTypeOK /\ Shapes /\ LeasesHeld /\ Filed
  BY DEF IInv, Books
<1>1. \A u \in Runs \ {r} : job'[u] = job[u]
  BY <1>0, RunsTurn DEF Step, Turns, Ends
<1>2. /\ Receipts(r) = ReceiptsIn(job[r], taskLease[Key(r)])
      /\ Receipts(r)' = ReceiptsIn(job'[r], taskLease'[job'[r].key])
  BY <1>0, ReceiptsAt, ReceiptsNext
<1>3. ASSUME \A u \in Runs \ {r} : job[u].at = "handed" => taskLease'[Key(u)] = taskLease[Key(u)]
      PROVE  \A u \in Runs \ {r} : Receipts(u)' = Receipts(u)
  BY <1>1, <1>3, ReceiptsOfOthers
\* Nobody else's receipt is filed under the key of a run that files, takes or forgets there.
<1>4. ASSUME NEW k \in Keys, \A m \in Keys \ {k} : taskLease'[m] = taskLease[m],
             \A u \in Runs \ {r} : job[u].at = "handed" => Key(u) # k
      PROVE  \A u \in Runs \ {r} : Receipts(u)' = Receipts(u)
  <2>1. \A u \in Runs : job[u].at = "handed" => Key(u) \in Keys
    BY DEF IInv, KeysGiven, Key
  <2> QED
    BY <1>3, <1>4, <2>1
<1>5. job[r].at # "queued" => Key(r) \in Keys
  BY DEF IInv, KeysGiven, Key
<1>6. job[r].at \in Leased => job[r].token \in Receipts(r)
  BY <1>2 DEF ReceiptsIn, Leased
<1>7. /\ job[r].token # 0 <=> job[r].at \in Leased
      /\ job[r].execution # 0 <=> job[r].at = "executing"
      /\ job[r].at = "queued" => job[r] = Queued
      /\ job[r].token = job[r].execution => job[r].token = 0
  BY <1>0 DEF Shapes
<1>9. CASE ReserveLease(r)
  <2>1. Turns(r, "planned", Record("leased", Key(r), job[r].plan, nextID', job[r].ram,
                                   job[r].execution))
    BY <1>0, <1>9, RunsTurn
  <2>2. Receipts(r) = {} /\ Receipts(r)' = {nextID'}
    BY <1>2, <2>1 DEF ReceiptsIn, Leased, Turns, Record
  <2>3. job[r].plan \in Plans /\ job[r].plan # Zero
    BY <1>0, <2>1 DEF AdmissionTypeOK, Shapes, Turns, Feeding
  <2> QED
    BY <1>0, <1>3, <1>9, <2>2, <2>3, LeaseTaken DEF ReserveLease
<1>10. CASE ReserveExecution(r)
  <2>1. Turns(r, "running", Record("executing", Key(r), job[r].plan, job[r].token, job[r].ram,
                                   nextID'))
    BY <1>0, <1>10, RunsTurn
  <2>2. Receipts(r) = {job[r].token} /\ Receipts(r)' = {job[r].token, nextID'}
    BY <1>2, <2>1 DEF ReceiptsIn, Leased, Turns, Record
  <2>3. ExecutionPlan["lanes"] = 1 /\ Zero["lanes"] = 0
    BY DEF ExecutionPlan, Zero, Resources, Counts
  <2> QED
    BY <1>0, <1>3, <1>10, <2>2, <2>3, LeaseTaken, PlansOfTasks DEF ReserveExecution
<1>11. ASSUME NEW here, here \in Leased \ {"executing"}, Ends(r, here), ReturnLease(job[r].token),
              \A u \in Runs \ {r} :
                 job[u].at = "handed" => taskLease'[Key(u)] = taskLease[Key(u)]
       PROVE  LeasesHeld'
  <2>1. Receipts(r) = {job[r].token} /\ Receipts(r)' = {}
    BY <1>2, <1>11 DEF ReceiptsIn, Leased, Turns, Ends, Record
  <2> QED
    BY <1>0, <1>3, <1>11, <2>1, LeaseReturned
<1>12. CASE RamRefused(r)
  <2>1. Ends(r, "leased") /\ "leased" \in Leased \ {"executing"}
    BY <1>0, <1>12, RunsTurn DEF Leased
  <2> QED
    BY <1>11, <1>12, <2>1 DEF RamRefused
<1>13. CASE UnstartLease(r)
  <2>1. Ends(r, "unstarting") /\ "unstarting" \in Leased \ {"executing"}
    BY <1>0, <1>13, RunsTurn DEF Leased
  <2>2. job[r].at = "unstarting" /\ taskLease[Key(r)] = job[r].token
    BY <1>0, <2>1 DEF Filed, Ends, Turns
  <2>3. \A u \in Runs \ {r} : job[u].at = "handed" => Key(u) # Key(r)
    BY <1>0, <2>2, FiledOnce DEF Filing
  <2> QED
    BY <1>0, <1>11, <1>13, <2>1, <2>2, <2>3 DEF UnstartLease, AdmissionTypeOK
<1>14. CASE ReleaseExecution(r)
  <2>1. Turns(r, "executing", Record("cleaning", Key(r), job[r].plan, job[r].token, job[r].ram, 0))
    BY <1>0, <1>14, RunsTurn
  <2>2. Receipts(r) = {job[r].token, job[r].execution} /\ Receipts(r)' = {job[r].token}
    BY <1>2, <2>1 DEF ReceiptsIn, Leased, Turns, Record
  <2>3. job[r].token # job[r].execution
    BY <1>7, <2>1 DEF Turns, Leased
  <2> QED
    BY <1>0, <1>3, <1>14, <2>2, <2>3, LeaseReturned DEF ReleaseExecution
<1>15. CASE CleanupLease(r)
  <2>1. Ends(r, "releasing") /\ "releasing" \in Leased \ {"executing"}
    BY <1>0, <1>15, RunsTurn DEF Leased
  <2>2. job[r].token \in Receipts(r) /\ job[r].token # 0 /\ job[r].at = "releasing"
    BY <1>6, <1>7, <2>1 DEF Ends, Turns
  <2>3. ASSUME NEW u \in Runs \ {r}, job[u].at = "handed"
        PROVE  taskLease[Key(u)] # job[r].token
    <3>1. taskLease[Key(u)] # 0 => taskLease[Key(u)] \in Receipts(u)
      BY <1>0, <2>3, ReceiptsAt DEF ReceiptsIn, Leased
    <3> QED
      BY <1>0, <2>2, <3>1 DEF LeasesHeld
  <2>4. \A u \in Runs : job[u].at = "handed" => Key(u) \in Keys
    BY DEF IInv, KeysGiven, Key
  <2>5. \A u \in Runs \ {r} : job[u].at = "handed" => taskLease'[Key(u)] = taskLease[Key(u)]
    BY <1>0, <1>15, <2>3, <2>4 DEF CleanupLease, AdmissionTypeOK
  <2> QED
    BY <1>11, <1>15, <2>1, <2>5 DEF CleanupLease
<1>16. ASSUME UNCHANGED <<lease, nextID>>, Receipts(r)' = Receipts(r),
              \A u \in Runs \ {r} :
                 job[u].at = "handed" => taskLease'[Key(u)] = taskLease[Key(u)]
       PROVE  LeasesHeld'
  <2>1. \A u \in Runs : Receipts(u)' = Receipts(u)
    BY <1>3, <1>16
  <2> QED
    BY <1>0, <1>16, <2>1, LeaseKept
<1>17. CASE PlanTask(r)
  <2>1. PICK k \in Keys, ram \in RAMSizes :
           Turns(r, "queued", Record("planned", k, TaskPlan(ram), 0, NoEntry, 0))
    BY <1>0, <1>17, RunsTurn
  <2>2. Receipts(r)' = Receipts(r)
    BY <1>2, <2>1 DEF ReceiptsIn, Leased, Turns, Record
  <2> QED
    BY <1>16, <1>17, <2>2 DEF PlanTask, ledgerVars
<1>18. CASE LeaseRefused(r)
  <2>1. Receipts(r)' = Receipts(r)
    <3>1. Ends(r, "planned")
      BY <1>0, <1>18, RunsTurn
    <3> QED
      BY <1>2, <1>7, <3>1 DEF ReceiptsIn, Leased, Turns, Record, Ends
  <2> QED
    BY <1>16, <1>18, <2>1 DEF LeaseRefused, controllerVars
<1>19. CASE ReserveRam(r)
  <2>1. Receipts(r)' = Receipts(r)
    <3>1. Turns(r, "leased", Record("booked", Key(r), job[r].plan, job[r].token, ramEntry'[Key(r)],
                                      job[r].execution))
      BY <1>0, <1>19, RunsTurn
    <3> QED
      BY <1>2, <1>7, <3>1 DEF ReceiptsIn, Leased, Turns, Record
  <2> QED
    BY <1>16, <1>19, <2>1 DEF ReserveRam, controllerVars
<1>20. CASE FileLease(r)
  <2>1. Receipts(r)' = Receipts(r)
    <3>1. Turns(r, "booked", As(r, "ready"))
      BY <1>0, <1>20, RunsTurn
    <3> QED
      BY <1>2, <1>7, <3>1 DEF ReceiptsIn, Leased, Turns, Record, As
  <2>2. \A u \in Runs \ {r} : job[u].at = "handed" => taskLease'[Key(u)] = taskLease[Key(u)]
    BY <1>0, <1>20 DEF FileLease, Filed, AdmissionTypeOK
  <2> QED
    BY <1>16, <1>20, <2>1, <2>2 DEF FileLease, controllerVars
<1>21. CASE Unstart(r)
  <2>1. Receipts(r)' = Receipts(r)
    <3>1. Turns(r, "ready", As(r, "unstarting"))
      BY <1>0, <1>21, RunsTurn
    <3> QED
      BY <1>2, <1>7, <3>1 DEF ReceiptsIn, Leased, Turns, Record, As
  <2> QED
    BY <1>16, <1>21, <2>1 DEF Unstart, controllerVars
<1>22. CASE HandOver(r)
  <2>1. /\ job[r].at = "ready" /\ taskLease[Key(r)] = job[r].token /\ job[r].token # 0
        /\ UNCHANGED taskLease
    BY <1>0, <1>7, <1>22 DEF HandOver, Filed, Leased
  <2>2. Receipts(r)' = Receipts(r)
    <3>1. Turns(r, "ready", Record("handed", Key(r), Zero, 0, NoEntry, 0))
      BY <1>0, <1>22, RunsTurn
    <3> QED
      BY <1>2, <1>7, <2>1, <3>1 DEF ReceiptsIn, Leased, Turns, Record
  <2> QED
    BY <1>16, <1>22, <2>2 DEF HandOver, controllerVars
<1>23. CASE TakeLease(r)
  <2>1. job[r].at = "handed" /\ taskLease[Key(r)] # 0
    BY <1>0, <1>23 DEF TakeLease, Filed
  <2>2. Receipts(r)' = Receipts(r)
    <3>1. Turns(r, "handed", Record("taken", Key(r), job[r].plan, taskLease[Key(r)], job[r].ram,
                                      job[r].execution))
      BY <1>0, <1>23, RunsTurn
    <3> QED
      BY <1>2, <1>7, <2>1, <3>1 DEF ReceiptsIn, Leased, Turns, Record
  <2>3. \A u \in Runs \ {r} : job[u].at = "handed" => Key(u) # Key(r)
    BY <1>0, <2>1, FiledOnce DEF Filing
  <2> QED
    BY <1>0, <1>16, <1>23, <2>2, <2>3 DEF TakeLease, controllerVars, AdmissionTypeOK
<1>24. CASE ReadEntry(r)
  <2>1. Receipts(r)' = Receipts(r)
    <3>1. Turns(r, "taken", Record("running", Key(r), job[r].plan, job[r].token, ramEntry[Key(r)],
                                     job[r].execution))
      BY <1>0, <1>24, RunsTurn
    <3> QED
      BY <1>2, <1>7, <3>1 DEF ReceiptsIn, Leased, Turns, Record
  <2> QED
    BY <1>16, <1>24, <2>1 DEF ReadEntry, controllerVars
<1>25. CASE NoExecution(r) \/ CleanupRam(r)
  <2>1. Receipts(r)' = Receipts(r)
    <3>1. Turns(r, "running", As(r, "cleaning")) \/ Turns(r, "cleaning", As(r, "releasing"))
      BY <1>0, <1>25, RunsTurn
    <3> QED
      BY <1>2, <1>7, <3>1 DEF ReceiptsIn, Leased, Turns, As, Record
  <2> QED
    BY <1>16, <1>25, <2>1 DEF NoExecution, CleanupRam, controllerVars
<1> QED
  BY <1>9, <1>10, <1>12, <1>13, <1>14, <1>15, <1>17, <1>18, <1>19, <1>20, <1>21, <1>22, <1>23,
     <1>24, <1>25 DEF Step

\* What a step does to the filed leases: only the run that files, takes or forgets one
\* touches its key.
LEMMA FiledStep ==
  ASSUME IInv, IInv', Books, NEW r \in Runs, Step(r)
  PROVE  Filed'
<1>0. AdmissionTypeOK /\ Shapes /\ LeasesHeld /\ Filed /\ FeedsAlone
  BY DEF IInv, Books
<1>1. \A u \in Runs \ {r} : job'[u] = job[u]
  BY <1>0, RunsTurn DEF Step, Turns, Ends
<1>2. /\ \A u \in Runs : job[u].at # "queued" => Key(u) \in Keys
      /\ taskLease \in [Keys -> 0..MaxTokens]
  BY DEF IInv, AdmissionTypeOK, KeysGiven, Key
\* A run outside the filing positions before and after, the map unchanged.
<1>3. ASSUME UNCHANGED taskLease, job[r].at \notin Filing, job'[r].at \notin Filing
      PROVE  Filed'
  <2>1. \A u \in Runs : job'[u].at \in Filing => job'[u] = job[u]
    BY <1>1, <1>3
  <2>2. \A u \in Runs : job[u].at \in Filing => job'[u] = job[u]
    BY <1>1, <1>3
  <2>3. \A u \in Runs : job'[u].at \in {"ready", "unstarting"}
                        => taskLease'[job'[u].key] = job'[u].token
    BY <1>0, <1>3, <2>1 DEF Filed, Filing, Key
  <2>4. \A u \in Runs : job'[u].at = "handed" => taskLease'[job'[u].key] # 0
    BY <1>0, <1>3, <2>1 DEF Filed, Filing, Key
  <2>5. \A k \in Keys : taskLease'[k] # 0 => \E u \in Runs : job'[u].key = k /\ job'[u].at \in Filing
    BY <1>0, <1>3, <2>2 DEF Filed, Key
  <2> QED
    BY <2>3, <2>4, <2>5 DEF Filed, Key
\* A run that moves from one filing position to another under its key, the map unchanged.
<1>4. ASSUME UNCHANGED taskLease, job[r].at \in {"ready", "unstarting"},
             (job'[r].at = "unstarting" /\ job'[r].token = job[r].token) \/ job'[r].at = "handed",
             job'[r].key = Key(r)
      PROVE  Filed'
  <2>1. taskLease[Key(r)] = job[r].token /\ job[r].token # 0
    BY <1>0, <1>4 DEF Filed, Shapes, Leased
  <2>2. \A u \in Runs : job[u].at \in Filing => job'[u].key = Key(u) /\ job'[u].at \in Filing
    BY <1>1, <1>4 DEF Filing, Key
  <2>3. \A u \in Runs : job'[u].at \in {"ready", "unstarting"}
                        => taskLease'[job'[u].key] = job'[u].token
    BY <1>0, <1>1, <1>4, <2>1 DEF Filed, Key
  <2>4. \A u \in Runs : job'[u].at = "handed" => taskLease'[job'[u].key] # 0
    BY <1>0, <1>1, <1>4, <2>1 DEF Filed, Key
  <2>5. \A k \in Keys : taskLease'[k] # 0 => \E u \in Runs : job'[u].key = k /\ job'[u].at \in Filing
    BY <1>0, <1>4, <2>2 DEF Filed, Key
  <2> QED
    BY <2>3, <2>4, <2>5 DEF Filed, Key
\* A run that leaves the filing positions and empties its key.
<1>5. ASSUME taskLease' = [taskLease EXCEPT ![Key(r)] = 0], job[r].at \in Filing,
             job'[r].at \notin Filing
      PROVE  Filed'
  <2>1. \A u \in Runs \ {r} : job[u].at \in Filing => Key(u) # Key(r)
    BY <1>0, <1>5, FiledOnce
  <2>2. \A u \in Runs : job'[u].at \in Filing => u # r /\ job'[u] = job[u]
    BY <1>1, <1>5
  <2>3. \A k \in Keys \ {Key(r)} : taskLease'[k] = taskLease[k]
    BY <1>2, <1>5
  <2>4. taskLease'[Key(r)] = 0 \/ Key(r) \notin Keys
    BY <1>2, <1>5
  <2>5. \A u \in Runs : job'[u].at \in Filing => taskLease'[Key(u)] = taskLease[Key(u)]
    BY <1>2, <2>1, <2>2, <2>3 DEF Filing
  <2>6. \A u \in Runs : job'[u].at \in {"ready", "unstarting"}
                        => taskLease'[job'[u].key] = job'[u].token
    BY <1>0, <2>2, <2>5 DEF Filed, Filing, Key
  <2>7. \A u \in Runs : job'[u].at = "handed" => taskLease'[job'[u].key] # 0
    BY <1>0, <2>2, <2>5 DEF Filed, Filing, Key
  <2>8. ASSUME NEW k \in Keys, taskLease'[k] # 0
        PROVE  \E u \in Runs : job'[u].key = k /\ job'[u].at \in Filing
    <3>1. k # Key(r) /\ taskLease[k] # 0
      BY <2>3, <2>4, <2>8
    <3>2. PICK u \in Runs : Key(u) = k /\ job[u].at \in Filing
      BY <1>0, <3>1 DEF Filed
    <3> QED
      BY <1>1, <3>1, <3>2 DEF Key
  <2> QED
    BY <2>6, <2>7, <2>8 DEF Filed, Key
<1>6. CASE FileLease(r)
  <2>1. Turns(r, "booked", As(r, "ready"))
    BY <1>0, <1>6, RunsTurn
  <2>2. /\ taskLease[Key(r)] = 0 /\ Key(r) \in Keys
        /\ taskLease'[Key(r)] = job[r].token
        /\ \A k \in Keys \ {Key(r)} : taskLease'[k] = taskLease[k]
    BY <1>2, <1>6, <2>1 DEF FileLease, Turns
  <2>3. /\ job'[r].at = "ready" /\ job'[r].key = Key(r) /\ job'[r].token = job[r].token
        /\ job[r].at = "booked"
    BY <2>1 DEF Turns, As, Record
  <2>4. \A u \in Runs : job[u].at \in Filing => Key(u) # Key(r)
    <3>1. \A u \in Runs : job[u].at \in Filing => taskLease[Key(u)] # 0
      BY <1>0 DEF Filed, Filing, Shapes, Leased
    <3> QED
      BY <2>2, <3>1
  <2>5. \A u \in Runs \ {r} : job'[u].at \in Filing =>
           job'[u] = job[u] /\ taskLease'[Key(u)] = taskLease[Key(u)]
    BY <1>1, <1>2, <2>2, <2>4 DEF Filing
  <2>6. \A u \in Runs : job'[u].at \in {"ready", "unstarting"}
                        => taskLease'[job'[u].key] = job'[u].token
    BY <1>0, <2>2, <2>3, <2>5 DEF Filed, Filing, Key
  <2>7. \A u \in Runs : job'[u].at = "handed" => taskLease'[job'[u].key] # 0
    BY <1>0, <2>3, <2>5 DEF Filed, Filing, Key
  <2>8. ASSUME NEW k \in Keys, taskLease'[k] # 0
        PROVE  \E u \in Runs : job'[u].key = k /\ job'[u].at \in Filing
    <3>1. CASE k = Key(r)
      BY <2>3, <3>1 DEF Filing
    <3>2. CASE k # Key(r)
      <4>1. PICK u \in Runs : Key(u) = k /\ job[u].at \in Filing
        BY <1>0, <2>2, <2>8, <3>2 DEF Filed
      <4> QED
        BY <1>1, <3>2, <4>1 DEF Key
    <3> QED
      BY <3>1, <3>2
  <2> QED
    BY <2>6, <2>7, <2>8 DEF Filed, Key
<1>7. CASE Unstart(r)
  <2>1. Turns(r, "ready", As(r, "unstarting"))
    BY <1>0, <1>7, RunsTurn
  <2> QED
    BY <1>4, <1>7, <2>1 DEF Unstart, Turns, As, Record
<1>8. CASE HandOver(r)
  <2>1. Turns(r, "ready", Record("handed", Key(r), Zero, 0, NoEntry, 0))
    BY <1>0, <1>8, RunsTurn
  <2> QED
    BY <1>4, <1>8, <2>1 DEF HandOver, Turns, Record
<1>9. CASE UnstartLease(r)
  <2>1. Ends(r, "unstarting")
    BY <1>0, <1>9, RunsTurn
  <2> QED
    BY <1>5, <1>9, <2>1 DEF UnstartLease, Ends, Turns, Record, Filing
<1>10. CASE TakeLease(r)
  <2>1. Turns(r, "handed", Record("taken", Key(r), job[r].plan, taskLease[Key(r)], job[r].ram,
                                  job[r].execution))
    BY <1>0, <1>10, RunsTurn
  <2> QED
    BY <1>5, <1>10, <2>1 DEF TakeLease, Turns, Record, Filing
<1>11. CASE CleanupLease(r)
  <2>1. Ends(r, "releasing")
    BY <1>0, <1>11, RunsTurn
  <2>2. job[r].token # 0 /\ Key(r) \in Keys /\ job[r].at = "releasing"
    BY <1>0, <1>2, <2>1 DEF Ends, Turns, Shapes, Leased
  <2>3. taskLease[Key(r)] # job[r].token
    <3> SUFFICES ASSUME taskLease[Key(r)] = job[r].token PROVE FALSE
      OBVIOUS
    <3>1. PICK u \in Runs : Key(u) = Key(r) /\ job[u].at \in Filing
      BY <1>0, <2>2 DEF Filed
    <3>2. job[r].token \in Tokens
      BY <1>2, <2>2, AdmissionAssumption DEF Tokens
    <3>3. job[r].token \in Receipts(u) /\ job[r].token \in Receipts(r)
      BY <1>0, <3>1, <3>2 DEF Filed, Filing, Receipts
    <3>4. u = r
      BY <1>0, <3>3 DEF LeasesHeld
    <3> QED
      BY <2>2, <3>1, <3>4 DEF Filing
  <2>4. UNCHANGED taskLease
    BY <1>2, <1>11, <2>3 DEF CleanupLease
  <2> QED
    BY <1>3, <2>1, <2>4 DEF Ends, Turns, Record, Filing
<1>12. CASE PlanTask(r)
  <2>1. PICK k \in Keys, ram \in RAMSizes :
           Turns(r, "queued", Record("planned", k, TaskPlan(ram), 0, NoEntry, 0))
    BY <1>0, <1>12, RunsTurn
  <2> QED
    BY <1>3, <1>12, <2>1 DEF PlanTask, Turns, Record, Filing
<1>13. CASE \/ ReserveLease(r) \/ LeaseRefused(r) \/ ReserveRam(r) \/ RamRefused(r)
            \/ ReadEntry(r) \/ ReserveExecution(r) \/ ReleaseExecution(r) \/ NoExecution(r)
            \/ CleanupRam(r)
  <2>1. UNCHANGED taskLease
    BY <1>13 DEF ReserveLease, LeaseRefused, ReserveRam, RamRefused, ReadEntry, ReserveExecution,
       ReleaseExecution, NoExecution, CleanupRam
  <2>2. \E here \in JobAt \ Filing : \E at \in JobAt \ Filing : \E key, plan, token, ram, execution :
           Turns(r, here, Record(at, key, plan, token, ram, execution))
    <3> USE <1>0, RunsTurn DEF JobAt, Filing, Ends, As
    <3>1. CASE ReserveLease(r)
      BY <3>1
    <3>2. CASE LeaseRefused(r)
      BY <3>2
    <3>3. CASE ReserveRam(r)
      BY <3>3
    <3>4. CASE RamRefused(r)
      BY <3>4
    <3>5. CASE ReadEntry(r)
      BY <3>5
    <3>6. CASE ReserveExecution(r)
      BY <3>6
    <3>7. CASE ReleaseExecution(r)
      BY <3>7
    <3>8. CASE NoExecution(r)
      BY <3>8
    <3>9. CASE CleanupRam(r)
      BY <3>9
    <3> QED
      BY <1>13, <3>1, <3>2, <3>3, <3>4, <3>5, <3>6, <3>7, <3>8, <3>9
  <2>3. job[r].at \notin Filing /\ job'[r].at \notin Filing
    BY <2>2 DEF Turns, Record
  <2> QED
    BY <1>3, <2>1, <2>3
<1> QED
  BY <1>6, <1>7, <1>8, <1>9, <1>10, <1>11, <1>12, <1>13 DEF Step

\* The entries of the ledger: what a run needs of its own entry, and the rest untouched.
LEMMA EntriesStep ==
  ASSUME IInv, IInv', Books, NEW r \in Runs, Step(r)
  PROVE  Entries'
<1>0. AdmissionTypeOK /\ Shapes /\ Entries
  BY DEF IInv, Books
<1>1. \A u \in Runs \ {r} : job'[u] = job[u]
  BY <1>0, RunsTurn DEF Step, Turns, Ends
<1>2. /\ \A u \in Runs : job[u].at # "queued" => Key(u) \in Keys
      /\ ramEntry \in [Keys -> [token : 0..ramSequence, bytes : Word]]
      /\ ramSequence \in Nat
  BY DEF IInv, AdmissionTypeOK, KeysGiven, Key
<1>3. \A u \in Runs : job[u].at \in Entered => Key(u) \in Keys
  BY <1>2 DEF Entered
\* A run that has no entry, before or after.
<1>4. ASSUME UNCHANGED ramEntry, job[r].at \notin Entered, job'[r].at \notin Entered
      PROVE  Entries'
  <2>1. \A u \in Runs : job'[u].at \in Entered => job'[u] = job[u]
    BY <1>1, <1>4
  <2>2. \A u \in Runs : job[u].at \in Entered => job'[u] = job[u]
    BY <1>1, <1>4
  <2>3. \A u \in Runs : job'[u].at \in Entered => ramEntry'[job'[u].key] # NoEntry
    BY <1>0, <1>4, <2>1 DEF Entries, Key
  <2>4. \A u \in Runs : job'[u].at \in Entered \ {"handed", "taken"}
                        => job'[u].ram = ramEntry'[job'[u].key]
    BY <1>0, <1>4, <2>1 DEF Entries, Key
  <2>5. \A u, v \in Runs : job'[u].at \in Entered /\ job'[v].at \in Entered
                           /\ job'[u].key = job'[v].key => u = v
    BY <1>0, <2>1 DEF Entries, Key
  <2>6. \A k \in Keys : ramEntry'[k] # NoEntry =>
           ramEntry'[k].token # 0 /\ \E u \in Runs : job'[u].key = k /\ job'[u].at \in Entered
    BY <1>0, <1>4, <2>2 DEF Entries, Key
  <2> QED
    BY <2>3, <2>4, <2>5, <2>6 DEF Entries, Key, NoEntry
\* A run that keeps its entry and, from "running" on, knows it.
<1>5. ASSUME UNCHANGED ramEntry, job[r].at \in Entered, job'[r].at \in Entered,
             job'[r].key = Key(r),
             job'[r].at \in Entered \ {"handed", "taken"} => job'[r].ram = ramEntry[Key(r)]
      PROVE  Entries'
  <2>1. \A u \in Runs : job'[u].at \in Entered <=> job[u].at \in Entered
    BY <1>1, <1>5
  <2>2. \A u \in Runs : job'[u].key = Key(u)
    BY <1>1, <1>5 DEF Key
  <2>3. \A u \in Runs : job'[u].at \in Entered => ramEntry'[job'[u].key] # NoEntry
    BY <1>0, <1>5, <2>1, <2>2 DEF Entries
  <2>4. \A u \in Runs : job'[u].at \in Entered \ {"handed", "taken"}
                        => job'[u].ram = ramEntry'[job'[u].key]
    BY <1>0, <1>1, <1>5, <2>2 DEF Entries
  <2>5. \A u, v \in Runs : job'[u].at \in Entered /\ job'[v].at \in Entered
                           /\ job'[u].key = job'[v].key => u = v
    BY <1>0, <2>1, <2>2 DEF Entries
  <2>6. \A k \in Keys : ramEntry'[k] # NoEntry =>
           ramEntry'[k].token # 0 /\ \E u \in Runs : job'[u].key = k /\ job'[u].at \in Entered
    BY <1>0, <1>5, <2>1, <2>2 DEF Entries
  <2> QED
    BY <2>3, <2>4, <2>5, <2>6 DEF Entries, Key, NoEntry
\* A run that releases its entry.
<1>6. ASSUME UnbookRam(Key(r), ramEntry[Key(r)]), job[r].at \in Entered, job'[r].at \notin Entered
      PROVE  Entries'
  <2>1. Key(r) \in Keys /\ ramEntry[Key(r)].token # 0
    BY <1>0, <1>3, <1>6 DEF Entries
  <2>2. /\ ramEntry'[Key(r)] = NoEntry
        /\ \A k \in Keys \ {Key(r)} : ramEntry'[k] = ramEntry[k]
    BY <1>2, <1>6, <2>1 DEF UnbookRam
  <2>3. \A u \in Runs \ {r} : job[u].at \in Entered => Key(u) # Key(r)
    BY <1>0, <1>6 DEF Entries
  <2>4. \A u \in Runs : job'[u].at \in Entered =>
           /\ u # r /\ job'[u] = job[u] /\ Key(u) \in Keys \ {Key(r)}
           /\ ramEntry'[Key(u)] = ramEntry[Key(u)]
    BY <1>1, <1>3, <1>6, <2>2, <2>3
  <2>5. \A u \in Runs : job'[u].at \in Entered => ramEntry'[job'[u].key] # NoEntry
    BY <1>0, <2>4 DEF Entries, Key
  <2>6. \A u \in Runs : job'[u].at \in Entered \ {"handed", "taken"}
                        => job'[u].ram = ramEntry'[job'[u].key]
    BY <1>0, <2>4 DEF Entries, Key
  <2>7. \A u, v \in Runs : job'[u].at \in Entered /\ job'[v].at \in Entered
                           /\ job'[u].key = job'[v].key => u = v
    BY <1>0, <2>4 DEF Entries, Key
  <2>8. ASSUME NEW k \in Keys, ramEntry'[k] # NoEntry
        PROVE  ramEntry'[k].token # 0 /\ \E u \in Runs : job'[u].key = k /\ job'[u].at \in Entered
    <3>1. k # Key(r) /\ ramEntry'[k] = ramEntry[k]
      BY <2>2, <2>8
    <3>2. ramEntry[k].token # 0 /\ \E u \in Runs : Key(u) = k /\ job[u].at \in Entered
      BY <1>0, <2>8, <3>1 DEF Entries
    <3> QED
      BY <1>1, <3>1, <3>2 DEF Key
  <2> QED
    BY <2>5, <2>6, <2>7, <2>8 DEF Entries, Key, NoEntry
<1>7. CASE ReserveRam(r)
  <2>1. Turns(r, "leased", Record("booked", Key(r), job[r].plan, job[r].token, ramEntry'[Key(r)],
                                  job[r].execution))
    BY <1>0, <1>7, RunsTurn
  <2>2. Key(r) \in Keys /\ ramEntry[Key(r)] = NoEntry
    BY <1>2, <1>7, <2>1 DEF ReserveRam, Bookable, Turns
  <2>3. /\ ramEntry'[Key(r)].token = ramSequence + 1
        /\ \A k \in Keys \ {Key(r)} : ramEntry'[k] = ramEntry[k]
    BY <1>2, <1>7, <2>2 DEF ReserveRam, BookRam
  <2>4. ramEntry'[Key(r)].token # 0 /\ ramEntry'[Key(r)] # NoEntry
    BY <1>2, <2>3 DEF NoEntry
  <2>5. \A u \in Runs : job[u].at \in Entered => Key(u) # Key(r)
    BY <1>0, <2>2 DEF Entries
  <2>6. job'[r].at = "booked" /\ job'[r].key = Key(r) /\ job'[r].ram = ramEntry'[Key(r)]
    BY <2>1 DEF Turns, Record
  <2>7. \A u \in Runs \ {r} : job'[u].at \in Entered =>
           /\ job'[u] = job[u] /\ Key(u) \in Keys \ {Key(r)}
           /\ ramEntry'[Key(u)] = ramEntry[Key(u)]
    BY <1>1, <1>3, <2>3, <2>5
  <2>8. \A u \in Runs : job'[u].at \in Entered => ramEntry'[job'[u].key] # NoEntry
    BY <1>0, <2>4, <2>6, <2>7 DEF Entries, Key
  <2>9. \A u \in Runs : job'[u].at \in Entered \ {"handed", "taken"}
                        => job'[u].ram = ramEntry'[job'[u].key]
    BY <1>0, <2>6, <2>7 DEF Entries, Key
  <2>10. \A u, v \in Runs : job'[u].at \in Entered /\ job'[v].at \in Entered
                           /\ job'[u].key = job'[v].key => u = v
    BY <1>0, <2>6, <2>7 DEF Entries, Key
  <2>11. ASSUME NEW k \in Keys, ramEntry'[k] # NoEntry
        PROVE  ramEntry'[k].token # 0 /\ \E u \in Runs : job'[u].key = k /\ job'[u].at \in Entered
    <3>1. CASE k = Key(r)
      BY <2>4, <2>6, <3>1 DEF Entered
    <3>2. CASE k # Key(r)
      <4>1. ramEntry[k].token # 0 /\ \E u \in Runs : Key(u) = k /\ job[u].at \in Entered
        BY <1>0, <2>3, <2>11, <3>2 DEF Entries
      <4> QED
        BY <1>1, <2>3, <3>2, <4>1 DEF Key
    <3> QED
      BY <3>1, <3>2
  <2> QED
    BY <2>8, <2>9, <2>10, <2>11 DEF Entries, Key, NoEntry
<1>8. CASE Unstart(r)
  <2>1. Turns(r, "ready", As(r, "unstarting"))
    BY <1>0, <1>8, RunsTurn
  <2> QED
    BY <1>6, <1>8, <2>1 DEF Unstart, Turns, As, Record, Entered
<1>9. CASE CleanupRam(r)
  <2>1. Turns(r, "cleaning", As(r, "releasing"))
    BY <1>0, <1>9, RunsTurn
  <2>2. job[r].ram = ramEntry[Key(r)]
    BY <1>0, <2>1 DEF Turns, Entries, Entered
  <2> QED
    BY <1>6, <1>9, <2>1, <2>2 DEF CleanupRam, Turns, As, Record, Entered
<1>10. ASSUME UNCHANGED ramEntry, NEW here \in Entered, NEW at \in Entered, NEW plan, NEW token, NEW ram,
              NEW execution, Turns(r, here, Record(at, Key(r), plan, token, ram, execution)),
              at \in {"handed", "taken"} \/ ram = ramEntry[Key(r)]
      PROVE  Entries'
  BY <1>5, <1>10 DEF Turns, Record, Entered
<1>11. job[r].at \in Entered \ {"handed", "taken"} => job[r].ram = ramEntry[Key(r)]
  BY <1>0 DEF Entries
<1>12. CASE FileLease(r)
  <2>1. Turns(r, "booked", As(r, "ready")) /\ UNCHANGED ramEntry
    BY <1>0, <1>12, RunsTurn DEF FileLease, ledgerVars
  <2>2. job[r].ram = ramEntry[Key(r)]
    BY <1>11, <2>1 DEF Turns, Entered
  <2> QED
    BY <1>10, <2>1, <2>2 DEF As, Entered
<1>13. CASE HandOver(r)
  <2>1. Turns(r, "ready", Record("handed", Key(r), Zero, 0, NoEntry, 0)) /\ UNCHANGED ramEntry
    BY <1>0, <1>13, RunsTurn DEF HandOver, ledgerVars
  <2> QED
    BY <1>10, <2>1 DEF Entered
<1>14. CASE TakeLease(r)
  <2>1. /\ Turns(r, "handed", Record("taken", Key(r), job[r].plan, taskLease[Key(r)], job[r].ram,
                                  job[r].execution))
        /\ UNCHANGED ramEntry
    BY <1>0, <1>14, RunsTurn DEF TakeLease, ledgerVars
  <2> QED
    BY <1>10, <2>1 DEF Entered
<1>15. CASE ReadEntry(r)
  <2>1. /\ Turns(r, "taken", Record("running", Key(r), job[r].plan, job[r].token, ramEntry[Key(r)],
                                 job[r].execution))
        /\ UNCHANGED ramEntry
    BY <1>0, <1>15, RunsTurn DEF ReadEntry, ledgerVars
  <2> QED
    BY <1>10, <2>1 DEF Entered
<1>16. CASE ReserveExecution(r)
  <2>1. /\ Turns(r, "running", Record("executing", Key(r), job[r].plan, job[r].token, job[r].ram,
                                   nextID'))
        /\ UNCHANGED ramEntry
    BY <1>0, <1>16, RunsTurn DEF ReserveExecution, ledgerVars
  <2>2. job[r].ram = ramEntry[Key(r)]
    BY <1>11, <2>1 DEF Turns, Entered
  <2> QED
    BY <1>10, <2>1, <2>2 DEF Entered
<1>17. CASE ReleaseExecution(r)
  <2>1. /\ Turns(r, "executing", Record("cleaning", Key(r), job[r].plan, job[r].token, job[r].ram,
                                     0))
        /\ UNCHANGED ramEntry
    BY <1>0, <1>17, RunsTurn DEF ReleaseExecution, ledgerVars
  <2>2. job[r].ram = ramEntry[Key(r)]
    BY <1>11, <2>1 DEF Turns, Entered
  <2> QED
    BY <1>10, <2>1, <2>2 DEF Entered
<1>18. CASE NoExecution(r)
  <2>1. Turns(r, "running", As(r, "cleaning")) /\ UNCHANGED ramEntry
    BY <1>0, <1>18, RunsTurn DEF NoExecution, ledgerVars
  <2>2. job[r].ram = ramEntry[Key(r)]
    BY <1>11, <2>1 DEF Turns, Entered
  <2> QED
    BY <1>10, <2>1, <2>2 DEF As, Entered
<1>19. ASSUME UNCHANGED ramEntry, NEW here \in JobAt \ Entered, NEW at \in JobAt \ Entered, NEW key,
              NEW plan, NEW token, NEW ram, NEW execution,
              Turns(r, here, Record(at, key, plan, token, ram, execution))
      PROVE  Entries'
  BY <1>4, <1>19 DEF Turns, Record
<1>20. CASE PlanTask(r)
  <2>1. UNCHANGED ramEntry
    BY <1>20 DEF PlanTask, ledgerVars
  <2>2. PICK k \in Keys, ram \in RAMSizes :
           Turns(r, "queued", Record("planned", k, TaskPlan(ram), 0, NoEntry, 0))
    BY <1>0, <1>20, RunsTurn
  <2> QED
    BY <1>19, <2>1, <2>2 DEF JobAt, Entered
<1>21. CASE ReserveLease(r)
  <2>1. UNCHANGED ramEntry
    BY <1>21 DEF ReserveLease, ledgerVars
  <2>2. Turns(r, "planned", Record("leased", Key(r), job[r].plan, nextID', job[r].ram,
                                   job[r].execution))
    BY <1>0, <1>21, RunsTurn
  <2> QED
    BY <1>19, <2>1, <2>2 DEF JobAt, Entered
<1>22. CASE LeaseRefused(r) \/ RamRefused(r) \/ UnstartLease(r) \/ CleanupLease(r)
  <2>1. UNCHANGED ramEntry
    BY <1>22 DEF LeaseRefused, RamRefused, UnstartLease, CleanupLease, ledgerVars
  <2>2. PICK here \in {"planned", "leased", "unstarting", "releasing"} : Ends(r, here)
    BY <1>0, <1>22, RunsTurn
  <2> QED
    BY <1>4, <2>1, <2>2 DEF Ends, Turns, Record, Entered
<1> QED
  BY <1>7, <1>8, <1>9, <1>12, <1>13, <1>14, <1>15, <1>16, <1>17, <1>18, <1>20, <1>21, <1>22 DEF Step

(***************************************************************************)
(* What the books add up to.                                               *)
(***************************************************************************)
Column(x) == [n \in Tokens |-> lease[n][x]]
Booked == [k \in Keys |-> ramEntry[k].bytes]

LEMMA ColumnsAreNumbers ==
  ASSUME NEW l \in [Tokens -> Plans], NEW x \in Resources
  PROVE  [n \in Tokens |-> l[n][x]] \in [Tokens -> Nat] /\ IsFiniteSet(Tokens)
<1>1. IsFiniteSet(Tokens)
  BY FS_Interval, AdmissionAssumption DEF Tokens
<1>2. \A n \in Tokens : l[n][x] \in Word
  BY DEF Plans
<1> QED
  BY <1>1, <1>2, AdmissionAssumption DEF Word

LEMMA BookedAreNumbers ==
  ASSUME NEW tokens, NEW e \in [Keys -> [token : tokens, bytes : Word]]
  PROVE  [k \in Keys |-> e[k].bytes] \in [Keys -> Nat] /\ IsFiniteSet(Keys)
BY AdmissionAssumption DEF Word

LEMMA SumTaken ==
  ASSUME AdmissionTypeOK, NEW plan \in Plans, AtomicReserve(plan), lease[nextID + 1] = Zero,
         NEW x \in Resources, used[x] = Total(Column(x))
  PROVE  used'[x] = Total(Column(x)')
<1>1. plan[x] \in Word /\ used[x] \in Word /\ capacity[x] \in Word
  BY DEF AdmissionTypeOK, Plans
<1>2. plan[x] <= SafeSub(capacity[x], used[x])
  BY DEF AtomicReserve, Reservable, FitsIn, Minus
<1>3. used[x] + plan[x] <= MaxWord
  BY <1>1, <1>2, AdmissionAssumption DEF SafeSub, Word
<1>4. used'[x] = (used[x] + plan[x]) % (MaxWord + 1)
  BY DEF AtomicReserve, Plus
<1>5. used'[x] = used[x] + plan[x]
  BY <1>1, <1>3, <1>4, Words
<1> DEFINE t == nextID + 1
           c == Column(x)
           d == Column(x)'
<1>6. t \in Tokens /\ nextID' = t
  BY AdmissionAssumption DEF AtomicReserve, AdmissionTypeOK, Tokens
<1>7. c[t] = 0 /\ d[t] = plan[x] /\ \A n \in Tokens \ {t} : d[n] = c[n]
  BY <1>6 DEF AtomicReserve, AdmissionTypeOK, Column, Zero
<1>8. c \in [Tokens -> Nat] /\ d \in [Tokens -> Nat] /\ IsFiniteSet(Tokens)
  <2>1. lease \in [Tokens -> Plans] /\ lease' \in [Tokens -> Plans]
    BY ReserveTypes DEF AdmissionTypeOK
  <2> QED
    BY <2>1, ColumnsAreNumbers DEF Column
<1>9. used[x] = Total(c)
  OBVIOUS
<1> HIDE DEF c, d, t
<1>10. Total(d) = (Total(c) - c[t]) + d[t] /\ Total(c) \in Nat
  BY <1>6, <1>7, <1>8, TotalOfChange, TotalOfEntries
<1>11. Total(d) = used'[x]
  BY <1>1, <1>5, <1>7, <1>9, <1>10, AdmissionAssumption DEF Word
<1> QED
  BY <1>11 DEF d

LEMMA SumReturned ==
  ASSUME AdmissionTypeOK, NEW n, ReturnLease(n), NEW x \in Resources, used[x] = Total(Column(x))
  PROVE  used'[x] = Total(Column(x)')
<1>1. CASE n \in Tokens
  <2> DEFINE c == Column(x)
             d == Column(x)'
  <2>1. d[n] = 0 /\ (\A m \in Tokens \ {n} : d[m] = c[m]) /\ c[n] = lease[n][x]
    BY <1>1 DEF ReturnLease, AdmissionTypeOK, Column, Zero
  <2>2. used'[x] = SafeSub(used[x], c[n])
    BY <1>1, <2>1 DEF ReturnLease, Minus
  <2>3. c \in [Tokens -> Nat] /\ d \in [Tokens -> Nat] /\ IsFiniteSet(Tokens)
    <3>1. lease \in [Tokens -> Plans] /\ lease' \in [Tokens -> Plans]
      BY ReturnTypes DEF AdmissionTypeOK
    <3> QED
      BY <3>1, ColumnsAreNumbers DEF Column
  <2>4. used[x] = Total(c)
    OBVIOUS
  <2> HIDE DEF c, d
  <2>5. Total(d) = (Total(c) - c[n]) + d[n] /\ Total(c) \in Nat /\ c[n] \in Nat /\ c[n] <= Total(c)
    BY <1>1, <2>1, <2>3, TotalOfChange, TotalOfEntries
  <2>6. Total(d) = used'[x]
    BY <2>1, <2>2, <2>4, <2>5 DEF SafeSub
  <2> QED
    BY <2>6 DEF d
<1>2. CASE n \notin Tokens
  <2>1. Column(x)' = Column(x)
    BY <1>2 DEF ReturnLease, AdmissionTypeOK, Column
  <2> QED
    BY <1>2, <2>1 DEF ReturnLease
<1> QED
  BY <1>1, <1>2

LEMMA SumBooked ==
  ASSUME AdmissionTypeOK, NEW k \in Keys, NEW bytes \in Word, NEW budget \in Word,
         BookRam(k, bytes), CanReserveRam(bytes, budget), ramEntry[k] = NoEntry,
         inFlight = Total(Booked)
  PROVE  inFlight' = Total(Booked')
<1>1. inFlight \in Word
  BY DEF AdmissionTypeOK
<1>2. inFlight + bytes <= MaxWord
  BY <1>1, AdmissionAssumption DEF CanReserveRam, Word
<1>3. inFlight' = inFlight + bytes
  BY <1>1, <1>2, Words DEF BookRam
<1> DEFINE c == Booked
           d == Booked'
<1>4. c[k] = 0 /\ d[k] = bytes /\ \A j \in Keys \ {k} : d[j] = c[j]
  BY DEF BookRam, AdmissionTypeOK, Booked, NoEntry
<1>5. c \in [Keys -> Nat] /\ d \in [Keys -> Nat] /\ IsFiniteSet(Keys)
  <2>1. /\ ramEntry \in [Keys -> [token : 0..ramSequence, bytes : Word]]
        /\ ramEntry' \in [Keys -> [token : 0..ramSequence', bytes : Word]]
    BY BookTypes DEF AdmissionTypeOK
  <2> QED
    BY <2>1, BookedAreNumbers DEF Booked
<1>6. inFlight = Total(c)
  OBVIOUS
<1> HIDE DEF c, d
<1>7. Total(d) = (Total(c) - c[k]) + d[k] /\ Total(c) \in Nat /\ d[k] \in Nat
  BY <1>4, <1>5, TotalOfChange, TotalOfEntries
<1>8. Total(d) = inFlight'
  BY <1>3, <1>4, <1>6, <1>7
<1> QED
  BY <1>8 DEF d

LEMMA SumUnbooked ==
  ASSUME AdmissionTypeOK, NEW k \in Keys, NEW entry, UnbookRam(k, entry), inFlight = Total(Booked)
  PROVE  inFlight' = Total(Booked')
<1>1. CASE entry.token # 0 /\ ramEntry[k].token = entry.token
  <2> DEFINE c == Booked
             d == Booked'
  <2>1. d[k] = 0 /\ (\A j \in Keys \ {k} : d[j] = c[j]) /\ c[k] = ramEntry[k].bytes
    BY <1>1 DEF UnbookRam, AdmissionTypeOK, Booked, NoEntry
  <2>2. inFlight' = SafeSub(inFlight, c[k])
    BY <1>1, <2>1 DEF UnbookRam
  <2>3. c \in [Keys -> Nat] /\ d \in [Keys -> Nat] /\ IsFiniteSet(Keys)
    <3>1. /\ ramEntry \in [Keys -> [token : 0..ramSequence, bytes : Word]]
          /\ ramEntry' \in [Keys -> [token : 0..ramSequence', bytes : Word]]
      BY UnbookTypes DEF AdmissionTypeOK
    <3> QED
      BY <3>1, BookedAreNumbers DEF Booked
  <2>4. inFlight = Total(c)
    OBVIOUS
  <2> HIDE DEF c, d
  <2>5. Total(d) = (Total(c) - c[k]) + d[k] /\ Total(c) \in Nat /\ c[k] \in Nat /\ c[k] <= Total(c)
    BY <2>1, <2>3, TotalOfChange, TotalOfEntries
  <2>6. Total(d) = inFlight'
    BY <2>1, <2>2, <2>4, <2>5 DEF SafeSub
  <2> QED
    BY <2>6 DEF d
<1>2. CASE ~(entry.token # 0 /\ ramEntry[k].token = entry.token)
  <2>1. Booked' = Booked /\ inFlight' = inFlight
    BY <1>2 DEF UnbookRam, Booked
  <2> QED
    BY <2>1
<1> QED
  BY <1>1, <1>2

LEMMA SumsStep ==
  ASSUME IInv, Books, NEW r \in Runs, Step(r)
  PROVE  Sums'
<1>0. AdmissionTypeOK /\ LeasesHeld
  BY DEF IInv, Books
<1>1. (\A x \in Resources : used[x] = Total(Column(x))) /\ inFlight = Total(Booked)
  BY DEF Books, Sums, Column, Booked
<1>2. \A x \in Resources : used'[x] = Total(Column(x)')
  <2> SUFFICES ASSUME NEW x \in Resources PROVE used'[x] = Total(Column(x)')
    OBVIOUS
  <2>1. ASSUME NEW plan \in Plans, AtomicReserve(plan) PROVE used'[x] = Total(Column(x)')
    <3>1. nextID + 1 \in Tokens /\ nextID + 1 > nextID
      BY <1>0, <2>1, AdmissionAssumption DEF AdmissionTypeOK, AtomicReserve, Tokens
    <3> QED
      BY <1>0, <1>1, <2>1, <3>1, SumTaken DEF LeasesHeld
  <2>2. ASSUME NEW n, ReturnLease(n) PROVE used'[x] = Total(Column(x)')
    BY <1>0, <1>1, <2>2, SumReturned
  <2>3. ASSUME UNCHANGED <<used, lease>> PROVE used'[x] = Total(Column(x)')
    BY <1>1, <2>3 DEF Column
  <2>4. job[r].plan \in Plans /\ ExecutionPlan \in Plans
    BY <1>0, PlansOfTasks DEF AdmissionTypeOK
  <2>5. \/ AtomicReserve(job[r].plan) \/ AtomicReserve(ExecutionPlan)
        \/ (\E n : ReturnLease(n)) \/ UNCHANGED <<used, lease>>
    BY DEF Step, PlanTask, ReserveLease, LeaseRefused, ReserveRam, RamRefused, FileLease, Unstart,
       UnstartLease, HandOver, TakeLease, ReadEntry, ReserveExecution, ReleaseExecution,
       NoExecution, CleanupRam, CleanupLease, controllerVars
  <2> QED
    BY <2>1, <2>2, <2>3, <2>4, <2>5
<1>3. inFlight' = Total(Booked')
  <2>1. CASE ReserveRam(r)
    <3>1. job[r].plan["ram"] \in Word /\ capacity["ram"] \in Word /\ Key(r) \in Keys
      BY <2>1 DEF IInv, AdmissionTypeOK, KeysGiven, Plans, Resources, Bytes, ReserveRam, Key
    <3> QED
      BY <1>0, <1>1, <2>1, <3>1, SumBooked DEF ReserveRam, Bookable
  <2>2. CASE Unstart(r) \/ CleanupRam(r)
    <3>1. Key(r) \in Keys
      BY <2>2 DEF IInv, KeysGiven, Key, Unstart, CleanupRam, Becomes
    <3> QED
      BY <1>0, <1>1, <2>2, <3>1, SumUnbooked DEF Unstart, CleanupRam
  <2>3. ASSUME UNCHANGED <<inFlight, ramEntry>> PROVE inFlight' = Total(Booked')
    BY <1>1, <2>3 DEF Booked
  <2>4. ReserveRam(r) \/ Unstart(r) \/ CleanupRam(r) \/ UNCHANGED <<inFlight, ramEntry>>
    BY DEF Step, PlanTask, ReserveLease, LeaseRefused, RamRefused, FileLease, UnstartLease,
       HandOver, TakeLease, ReadEntry, ReserveExecution, ReleaseExecution, NoExecution,
       CleanupLease, ledgerVars
  <2> QED
    BY <2>1, <2>2, <2>3, <2>4
<1> QED
  BY <1>2, <1>3 DEF Sums, Column, Booked

LEMMA InitBooks == AdmissionInit => Books
<1> SUFFICES ASSUME AdmissionInit PROVE Books
  OBVIOUS
<1>0. AdmissionTypeOK
  BY InitIInv DEF IInv
<1>1. \A r \in Runs : job[r] = Queued
  BY DEF AdmissionInit
<1>2. \A r \in Runs : Receipts(r) = {}
  BY <1>1, AdmissionAssumption DEF Receipts, Queued, Tokens
<1>3. Shapes /\ FeedsAlone
  BY <1>1 DEF Shapes, FeedsAlone, Queued, Leased, Feeding
<1>4. LeasesHeld
  BY <1>2 DEF LeasesHeld, AdmissionInit
<1>5. Filed
  BY <1>1 DEF Filed, AdmissionInit, Queued
<1>6. Entries
  BY <1>1 DEF Entries, AdmissionInit, Queued, Entered
<1>7. \A x \in Resources : used[x] = 0 /\ \A n \in Tokens : Column(x)[n] = 0
  BY DEF AdmissionInit, Column, Zero
<1>8. \A x \in Resources : used[x] = Total(Column(x))
  BY <1>0, <1>7, ColumnsAreNumbers, TotalOfZeros DEF Column, AdmissionTypeOK
<1>9. inFlight = 0 /\ \A k \in Keys : Booked[k] = 0
  BY DEF AdmissionInit, Booked, NoEntry
<1>10. inFlight = Total(Booked)
  BY <1>0, <1>9, BookedAreNumbers, TotalOfZeros DEF Booked, AdmissionTypeOK
<1> QED
  BY <1>3, <1>4, <1>5, <1>6, <1>8, <1>10 DEF Books, Sums, Column, Booked

LEMMA NextBooks == IInv /\ IInv' /\ Books /\ [AdmissionNext]_admissionVars => Books'
<1> SUFFICES ASSUME IInv, IInv', Books, [AdmissionNext]_admissionVars PROVE Books'
  OBVIOUS
<1>1. CASE UNCHANGED admissionVars
  BY <1>1 DEF Books, Shapes, FeedsAlone, LeasesHeld, Filed, Entries, Sums, Receipts, Key,
     admissionVars, controllerVars, ledgerVars
<1>2. ASSUME NEW r \in Runs, Step(r) PROVE Books'
  <2>1. Shapes'
    BY <1>2, ShapesStep
  <2> QED
    BY <1>2, <2>1, FeedsAloneStep, LeasesHeldStep, FiledStep, EntriesStep, SumsStep DEF Books
<1> QED
  BY <1>1, <1>2 DEF AdmissionNext, Step

\* The books as the run states them.
LEMMA BooksAreBalanced == IInv /\ Books => BooksBalance
<1> SUFFICES ASSUME IInv, Books PROVE BooksBalance
  OBVIOUS
<1>0. Shapes /\ FeedsAlone /\ LeasesHeld /\ Filed /\ Entries /\ Sums
  BY DEF Books
<1>1. \A r \in Runs : job[r].at # "queued" => Key(r) \in Keys
  BY DEF IInv, KeysGiven, Key
<1>2. \A n \in Tokens :
         lease[n] # Zero =>
             \E r \in Runs :
                \/ n \in {job[r].token, job[r].execution}
                \/ job[r].at = "handed" /\ n = taskLease[Key(r)]
  BY <1>0 DEF LeasesHeld, Receipts
<1>3. \A k \in Keys :
         ramEntry[k] # NoEntry =>
             \E r \in Runs :
                Key(r) = k /\ (ramEntry[k] = job[r].ram \/ job[r].at \in {"handed", "taken"})
  BY <1>0 DEF Entries
<1>4. ASSUME NEW r \in Runs, job[r].at = "booked" PROVE taskLease[Key(r)] = 0
  <2> SUFFICES ASSUME taskLease[Key(r)] # 0 PROVE FALSE
    OBVIOUS
  <2>1. PICK u \in Runs : Key(u) = Key(r) /\ job[u].at \in Filing
    BY <1>0, <1>1, <1>4 DEF Filed
  <2>2. CASE job[u].at \in {"ready", "unstarting"}
    BY <1>0, <1>4, <2>1, <2>2 DEF FeedsAlone, Feeding
  <2>3. CASE job[u].at = "handed"
    BY <1>0, <1>4, <2>1, <2>3 DEF Entries, Entered
  <2> QED
    BY <2>1, <2>2, <2>3 DEF Filing
<1>5. ASSUME NEW r \in Runs, job[r].at \in {"ready", "handed"}
      PROVE  /\ taskLease[Key(r)] # 0 /\ lease[taskLease[Key(r)]] # Zero
             /\ ramEntry[Key(r)] # NoEntry
  <2>1. taskLease[Key(r)] # 0
    BY <1>0, <1>5 DEF Filed, Shapes, Leased
  <2>2. taskLease[Key(r)] \in 0..MaxTokens
    BY <1>1, <1>5 DEF IInv, AdmissionTypeOK
  <2>3. taskLease[Key(r)] \in Tokens
    BY <2>1, <2>2, AdmissionAssumption DEF Tokens
  <2>4. taskLease[Key(r)] \in Receipts(r)
    BY <1>0, <1>5, <2>3 DEF Receipts, Filed
  <2> QED
    BY <1>0, <1>5, <2>1, <2>4 DEF LeasesHeld, Entries, Entered
<1> QED
  BY <1>0, <1>2, <1>3, <1>4, <1>5 DEF BooksBalance, Sums

\* The books balance, for words of any width and any number of runs, keys and leases: no sum
\* has wrapped and no difference was clamped, every lease and every entry has one run that
\* will give it back, and a task on its way to a worker has both filed under its key
\* (admission.go:193-276, 525-639; gatekeeper.go:79-109).
THEOREM Balance == AdmissionSpec => []BooksBalance
<1>1. AdmissionSpec => []IInv
  BY InitIInv, NextIInv, PTL DEF AdmissionSpec
<1>2. IInv /\ IInv' /\ Books /\ [AdmissionNext]_admissionVars => Books'
  BY NextBooks
<1>3. AdmissionSpec => [](IInv /\ Books)
  BY <1>1, <1>2, InitBooks, PTL DEF AdmissionSpec
<1> QED
  BY <1>3, BooksAreBalanced, PTL
=============================================================================
