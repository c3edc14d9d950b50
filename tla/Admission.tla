----------------------------- MODULE Admission -----------------------------
(***************************************************************************)
(* The books of the dispatcher's resources (dispatcher/admission.go,       *)
(* gatekeeper.go): the AdmissionController with its leases, the ledger of  *)
(* RAM reservations, and the path of a task through both.  The feeder      *)
(* plans and reserves, a worker takes the receipts, borrows an execution   *)
(* lease for the separation and returns everything at cleanup.             *)
(*                                                                         *)
(* Byte counts are machine words of MaxWord + 1 values.  Every planning    *)
(* observes the machine again and replaces the capacity, perhaps by less   *)
(* than what is in use.                                                    *)
(***************************************************************************)
EXTENDS Naturals, FiniteSets, FiniteSetsExt

CONSTANTS
    Runs,           \* runs of tasks: a task posted again may have two
    Keys,           \* admission keys: path and track
    NoKey,
    MaxWord,        \* math.MaxUint64
    RAMSizes,       \* what a task may ask for, and what the machine may offer
    VRAMSize,       \* EstimatedDemucsVramGB
    TrackCapacity,  \* DownstreamTracks: 1 in the code
    MaxTokens       \* bound on the leases of a behaviour

Counts == {"tracks", "lanes"}       \* lanes stands for CPULanes, GPULanes and DemucsSlots
Bytes == {"ram", "vram"}
Resources == Counts \cup Bytes
\* exceedsFixedAdmissionCapacity leaves the dedicated VRAM and the disk out.
Fixed == {"ram", "tracks", "lanes"}
Word == 0..MaxWord
Plans == [Resources -> Word]
Tokens == 1..MaxTokens

ASSUME AdmissionAssumption ==
    /\ MaxWord \in Nat \ {0} /\ MaxTokens \in Nat
    /\ RAMSizes \subseteq Word /\ VRAMSize \in Word /\ TrackCapacity \in Word \ {0}
    /\ IsFiniteSet(Keys) /\ NoKey \notin Keys

TaskPlan(ram) == [r \in Resources |-> CASE r = "ram" -> ram [] r = "tracks" -> 1 [] OTHER -> 0]
ExecutionPlan == [r \in Resources |-> CASE r = "vram" -> VRAMSize [] r = "lanes" -> 1 [] OTHER -> 0]
Machine(ram, vram) ==
    [r \in Resources |-> CASE r = "ram" -> ram [] r = "vram" -> vram
                       [] r = "tracks" -> TrackCapacity [] OTHER -> 1]
Zero == [r \in Resources |-> 0]

VARIABLES
    capacity,       \* controller: the budget last observed
    used,           \* controller: the sum of the leases
    lease,          \* controller: token -> plan, Zero when there is no lease
    nextID,
    inFlight,       \* ledger: activeInFlightRamBytes
    ramEntry,       \* ledger: ramEntry[k]: [token, bytes], token 0 when absent
    ramSequence,
    taskLease,      \* taskLeases[k]: a token, 0 when absent
    job             \* job[r]: [at, key, plan, token, ram, execution]: the receipts of a run
controllerVars == <<capacity, used, lease, nextID>>
ledgerVars == <<inFlight, ramEntry, ramSequence>>
admissionVars == <<controllerVars, ledgerVars, taskLease, job>>

JobAt ==
    {"queued", "planned", "leased", "booked", "ready", "unstarting", "handed", "taken",
     "running", "executing", "cleaning", "releasing"}
\* The feeder is one goroutine: at most one run is between these.
Feeding == {"planned", "leased", "booked", "ready", "unstarting"}
NoEntry == [token |-> 0, bytes |-> 0]
Queued ==
    [at |-> "queued", key |-> NoKey, plan |-> Zero, token |-> 0, ram |-> NoEntry, execution |-> 0]

AdmissionInit ==
    /\ capacity = Zero /\ used = Zero /\ nextID = 0
    /\ lease = [n \in Tokens |-> Zero]
    /\ inFlight = 0 /\ ramEntry = [k \in Keys |-> NoEntry] /\ ramSequence = 0
    /\ taskLease = [k \in Keys |-> 0]
    /\ job = [r \in Runs |-> Queued]

(***************************************************************************)
(* The controller.                                                         *)
(***************************************************************************)
\* mutant: the difference of two words
WrapSub(a, b) == (a + MaxWord + 1 - b) % (MaxWord + 1)

SafeSub(a, b) == IF a < b THEN 0 ELSE a - b
Minus(total, part) == [r \in Resources |-> SafeSub(total[r], part[r])]
Plus(left, right) == [r \in Resources |-> (left[r] + right[r]) % (MaxWord + 1)]
FitsIn(request, available) == \A r \in Resources : request[r] <= available[r]
ExceedsFixed(request) == \E r \in Fixed : request[r] > capacity[r]

Reservable(plan) == ~ExceedsFixed(plan) /\ FitsIn(plan, Minus(capacity, used))

AtomicReserve(plan) ==
    /\ Reservable(plan) /\ nextID < MaxTokens
    /\ nextID' = nextID + 1
    /\ used' = Plus(used, plan)
    /\ lease' = [lease EXCEPT ![nextID'] = plan]
    /\ UNCHANGED capacity

\* An unknown or returned token changes nothing.
ReturnLease(n) ==
    /\ used' = IF n \in Tokens THEN Minus(used, lease[n]) ELSE used
    /\ lease' = [m \in Tokens |-> IF m = n THEN Zero ELSE lease[m]]
    /\ UNCHANGED <<capacity, nextID>>

(***************************************************************************)
(* The ledger.                                                             *)
(***************************************************************************)
CanReserveRam(request, budget) == request <= budget /\ inFlight <= budget - request

\* mutant: the sequence is read and not advanced
BookRamStale(k, bytes) ==
    /\ inFlight' = (inFlight + bytes) % (MaxWord + 1)
    /\ ramEntry' = [ramEntry EXCEPT ![k] = [token |-> ramSequence + 1, bytes |-> bytes]]
    /\ UNCHANGED ramSequence

BookRam(k, bytes) ==
    /\ ramSequence' = ramSequence + 1
    /\ inFlight' = (inFlight + bytes) % (MaxWord + 1)
    /\ ramEntry' = [ramEntry EXCEPT ![k] = [token |-> ramSequence', bytes |-> bytes]]

\* The entry is released once, by whoever knows its token.
UnbookRam(k, entry) ==
    LET mine == entry.token # 0 /\ ramEntry[k].token = entry.token
    IN /\ inFlight' = IF mine THEN SafeSub(inFlight, ramEntry[k].bytes) ELSE inFlight
       /\ ramEntry' = IF mine THEN [ramEntry EXCEPT ![k] = NoEntry] ELSE ramEntry
       /\ UNCHANGED ramSequence

(***************************************************************************)
(* The feeder.                                                             *)
(***************************************************************************)
Key(r) == job[r].key
Becomes(r, here, there) == job[r].at = here /\ job' = [job EXCEPT ![r].at = there]
Over(r) == job' = [job EXCEPT ![r] = Queued]

\* admissionPlanForTask: the machine is observed, the capacity replaced, the task sized.  A
\* task beyond the RAM budget, or a NO-GO, ends here without a booking.
PlanTask(r) ==
    /\ job[r].at = "queued" /\ \A u \in Runs : job[u].at \notin Feeding
    /\ \E k \in Keys, ram, budget \in RAMSizes, vram \in {0, VRAMSize} :
          /\ ram <= budget
          /\ capacity' = Machine(budget, vram)
          /\ job' = [job EXCEPT ![r] = [Queued EXCEPT !.at = "planned", !.key = k,
                                                      !.plan = TaskPlan(ram)]]
    /\ UNCHANGED <<used, lease, nextID, ledgerVars, taskLease>>

ReserveLease(r) ==
    /\ job[r].at = "planned"
    /\ AtomicReserve(job[r].plan)
    /\ job' = [job EXCEPT ![r] = [@ EXCEPT !.at = "leased", !.token = nextID']]
    /\ UNCHANGED <<ledgerVars, taskLease>>

LeaseRefused(r) ==
    /\ job[r].at = "planned" /\ ~Reservable(job[r].plan)
    /\ Over(r)
    /\ UNCHANGED <<controllerVars, ledgerVars, taskLease>>

Bookable(r) ==
    CanReserveRam(job[r].plan["ram"], capacity["ram"]) /\ ramEntry[Key(r)] = NoEntry

ReserveRam(r) ==
    /\ job[r].at = "leased" /\ Bookable(r)
    /\ BookRam(Key(r), job[r].plan["ram"])
    /\ job' = [job EXCEPT ![r] = [@ EXCEPT !.at = "booked", !.ram = ramEntry'[Key(r)]]]
    /\ UNCHANGED <<controllerVars, taskLease>>

RamRefused(r) ==
    /\ job[r].at = "leased" /\ ~Bookable(r)
    /\ ReturnLease(job[r].token)
    /\ Over(r)
    /\ UNCHANGED <<ledgerVars, taskLease>>

\* The branch for a key that has a lease filed is left out: a filed lease has its RAM entry,
\* and ReserveRam has refused the key already (BooksBalance).
FileLease(r) ==
    /\ Becomes(r, "booked", "ready")
    /\ taskLease[Key(r)] = 0 /\ taskLease' = [taskLease EXCEPT ![Key(r)] = job[r].token]
    /\ UNCHANGED <<controllerVars, ledgerVars>>

\* The last-mile check fails or the feeder stops: the ledger first, then the lease.
Unstart(r) ==
    /\ Becomes(r, "ready", "unstarting")
    /\ UnbookRam(Key(r), ramEntry[Key(r)])
    /\ UNCHANGED <<controllerVars, taskLease>>

UnstartLease(r) ==
    /\ job[r].at = "unstarting"
    /\ ReturnLease(taskLease[Key(r)]) /\ taskLease' = [taskLease EXCEPT ![Key(r)] = 0]
    /\ Over(r)
    /\ UNCHANGED ledgerVars

\* Into the unbuffered channel: the receipts stay in the two maps.
HandOver(r) ==
    /\ job[r].at = "ready"
    /\ job' = [job EXCEPT ![r] = [Queued EXCEPT !.at = "handed", !.key = Key(r)]]
    /\ UNCHANGED <<controllerVars, ledgerVars, taskLease>>

(***************************************************************************)
(* The worker.  It starts without receipts of its own and reads both.      *)
(***************************************************************************)
TakeLease(r) ==
    /\ job[r].at = "handed"
    /\ job' = [job EXCEPT ![r] = [@ EXCEPT !.at = "taken", !.token = taskLease[Key(r)]]]
    /\ taskLease' = [taskLease EXCEPT ![Key(r)] = 0]
    /\ UNCHANGED <<controllerVars, ledgerVars>>

ReadEntry(r) ==
    /\ job[r].at = "taken"
    /\ job' = [job EXCEPT ![r] = [@ EXCEPT !.at = "running", !.ram = ramEntry[Key(r)]]]
    /\ UNCHANGED <<controllerVars, ledgerVars, taskLease>>

ReserveExecution(r) ==
    /\ job[r].at = "running"
    /\ AtomicReserve(ExecutionPlan)
    /\ job' = [job EXCEPT ![r] = [@ EXCEPT !.at = "executing", !.execution = nextID']]
    /\ UNCHANGED <<ledgerVars, taskLease>>

ReleaseExecution(r) ==
    /\ job[r].at = "executing"
    /\ ReturnLease(job[r].execution)
    /\ job' = [job EXCEPT ![r] = [@ EXCEPT !.at = "cleaning", !.execution = 0]]
    /\ UNCHANGED <<ledgerVars, taskLease>>

\* The stage needs no separation, fails before it, or is refused the execution lease.
NoExecution(r) ==
    /\ Becomes(r, "running", "cleaning")
    /\ UNCHANGED <<controllerVars, ledgerVars, taskLease>>

CleanupRam(r) ==
    /\ Becomes(r, "cleaning", "releasing")
    /\ UnbookRam(Key(r), job[r].ram)
    /\ UNCHANGED <<controllerVars, taskLease>>

\* mutant: whatever is filed under the key is forgotten, not only this lease
CleanupKey(r) ==
    /\ job[r].at = "releasing"
    /\ ReturnLease(job[r].token)
    /\ taskLease' = [taskLease EXCEPT ![Key(r)] = 0]
    /\ Over(r)
    /\ UNCHANGED ledgerVars

\* releaseTaskAdmission also forgets the filed lease if it is this one.
CleanupLease(r) ==
    /\ job[r].at = "releasing"
    /\ ReturnLease(job[r].token)
    /\ taskLease' = [taskLease EXCEPT ![Key(r)] = IF @ = job[r].token THEN 0 ELSE @]
    /\ Over(r)
    /\ UNCHANGED ledgerVars

AdmissionNext ==
    \E r \in Runs :
        \/ PlanTask(r) \/ ReserveLease(r) \/ LeaseRefused(r) \/ ReserveRam(r) \/ RamRefused(r)
        \/ FileLease(r) \/ Unstart(r) \/ UnstartLease(r) \/ HandOver(r)
        \/ TakeLease(r) \/ ReadEntry(r) \/ ReserveExecution(r) \/ ReleaseExecution(r)
        \/ NoExecution(r) \/ CleanupRam(r) \/ CleanupLease(r)

AdmissionSpec == AdmissionInit /\ [][AdmissionNext]_admissionVars

(***************************************************************************)
(* Properties.                                                             *)
(***************************************************************************)

\* Types of the controller and the ledger: sums of words stay words, and no entry
\* has a token the sequence has not reached.
AdmissionTypeOK ==
    /\ capacity \in Plans /\ used \in Plans /\ lease \in [Tokens -> Plans]
    /\ nextID \in 0..MaxTokens
    /\ inFlight \in Word /\ ramSequence \in Nat
    /\ ramEntry \in [Keys -> [token : 0..ramSequence, bytes : Word]]
    /\ taskLease \in [Keys -> 0..MaxTokens]
    /\ job \in [Runs -> [at : JobAt, key : Keys \cup {NoKey}, plan : Plans, token : 0..MaxTokens,
                         ram : [token : 0..ramSequence, bytes : Word], execution : 0..MaxTokens]]

\* What the entries of a function of numbers add up to.
Total(amounts) == MapThenSumSet(LAMBDA i : amounts[i], DOMAIN amounts)

\* The books balance: what is used is exactly what the leases add up to, without a wrapped
\* word or a clamped difference, the ledger likewise; each lease and each entry belongs to
\* a run that will return it, the one filed under a key to the run that will take it there,
\* and no key has two (admission.go:193-276, 525-639; gatekeeper.go:79-109).
BooksBalance ==
    /\ \A x \in Resources : used[x] = Total([n \in Tokens |-> lease[n][x]])
    /\ inFlight = Total([k \in Keys |-> ramEntry[k].bytes])
    /\ \A n \in Tokens :
          lease[n] # Zero =>
              \E r \in Runs :
                  \/ n \in {job[r].token, job[r].execution}
                  \/ job[r].at = "handed" /\ n = taskLease[Key(r)]
    /\ \A k \in Keys :
          ramEntry[k] # NoEntry =>
              \E r \in Runs :
                  Key(r) = k /\ (ramEntry[k] = job[r].ram \/ job[r].at \in {"handed", "taken"})
    /\ \A r \in Runs : job[r].at = "booked" => taskLease[Key(r)] = 0
    /\ \A r \in Runs :
          job[r].at \in {"ready", "handed"} =>
              /\ taskLease[Key(r)] # 0 /\ lease[taskLease[Key(r)]] # Zero
              /\ ramEntry[Key(r)] # NoEntry

\* A reservation never takes a resource beyond the capacity of the moment, even when the
\* capacity has shrunk below what is in use (admission.go:203-209).
NoOvercommit ==
    [][\A x \in Resources : used'[x] > used[x] => used'[x] <= capacity'[x]]_admissionVars
=============================================================================
