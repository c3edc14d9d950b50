------------------------------ MODULE GPUProofs ------------------------------
(***************************************************************************)
(* The safety of what shares the GPU, for any callers, users, names of     *)
(* daemons, limits and number of faults: the arbiter, and the Demucs pool  *)
(* with its slots.  Neither of the two proofs needs the other.             *)
(*                                                                         *)
(* The invariant of the pool is built from one observation: clients has at *)
(* most one member and is empty while a start is under way.  That is why   *)
(* the idle list never holds two daemons, why the start that Restart and   *)
(* Recycle reserve is the only one, and why a waiter has a start or a      *)
(* holder to wait for.                                                     *)
(***************************************************************************)
EXTENDS GPUArbiter, DemucsPool, FiniteSetTheorems, TLAPS

(***************************************************************************)
(* The arbiter.                                                            *)
(***************************************************************************)
ArbiterInv == TypeOK /\ OneHolder /\ NoLostWaiter

LEMMA InitArbiter == Init => ArbiterInv
<1> SUFFICES ASSUME Init PROVE ArbiterInv
  OBVIOUS
<1>1. TypeOK
  <2>1. waiters \in Seq(Callers)
    BY DEF Init
  <2>2. pc \in [Callers -> CallerPC]
    BY DEF Init, CallerPC
  <2> QED
    BY <2>1, <2>2 DEF Init, TypeOK
<1>2. OneHolder
  BY DEF Init, OneHolder, Holds
<1>3. NoLostWaiter
  BY DEF Init, NoLostWaiter, Listed
<1> QED
  BY <1>1, <1>2, <1>3 DEF ArbiterInv

\* What the queue is after its head has been taken, as indices.
LEMMA TailOfQueue ==
  ASSUME waiters \in Seq(Callers), waiters # <<>>
  PROVE  /\ Head(waiters) = waiters[1] /\ Head(waiters) \in Callers
         /\ Tail(waiters) \in Seq(Callers)
         /\ Len(Tail(waiters)) = Len(waiters) - 1 /\ Len(waiters) \in Nat \ {0}
         /\ \A i \in 1..(Len(waiters) - 1) : Tail(waiters)[i] = waiters[i + 1]
OBVIOUS

LEMMA Removal ==
  ASSUME waiters \in Seq(Callers), NEW k \in 1..Len(waiters)
  PROVE  /\ Removed(k) \in Seq(Callers)
         /\ Len(Removed(k)) = Len(waiters) - 1
         /\ \A j \in 1..(Len(waiters) - 1) :
               Removed(k)[j] = waiters[IF j < k THEN j ELSE j + 1]
BY DEF Removed
\* What is used of a step: the queue and the grants after PassOn keep ArbiterInv, given that
\* the caller who passes on stops holding and nobody else changes.
LEMMA PassOnArbiter ==
  ASSUME ArbiterInv, NEW c \in Callers, NEW returned \in SUBSET {c}, PassOn(returned),
         pc' = [pc EXCEPT ![c] = "idle"],
         cancelled' = cancelled \ {c},
         Holds(c), c \in granted => c \in returned, ~Listed(c)
  PROVE  ArbiterInv'
<1> USE DEF ArbiterInv
<1>0. pc' \in [Callers -> CallerPC] /\ pc'[c] = "idle" /\ \A d \in Callers \ {c} : pc'[d] = pc[d]
  BY DEF TypeOK, CallerPC
<1>c. cancelled' \in SUBSET {d \in Callers : pc'[d] # "idle"}
  BY <1>0 DEF TypeOK
<1>h. \A d \in Callers : Holds(d) => d = c
  BY DEF OneHolder
<1>g. granted \ returned = {}
  BY <1>h DEF Holds, TypeOK
<1>1. CASE waiters # <<>>
  <2>1. waiters' = Tail(waiters) /\ granted' = {waiters[1]} /\ owner' = owner /\ owner
    BY <1>1, <1>g, TailOfQueue DEF PassOn, TypeOK, NoLostWaiter
  <2>2. Listed(waiters[1]) /\ waiters[1] \in Callers /\ waiters[1] # c
    BY <1>1, TailOfQueue DEF Listed, TypeOK
  <2>3. pc[waiters[1]] \in {"waiting", "aborting"}
    BY <2>2 DEF NoLostWaiter
  <2>4. TypeOK'
    BY <1>0, <1>c, <2>1, <2>2, <2>3, <1>1, TailOfQueue DEF TypeOK
  <2>5. \A d \in Callers : Holds(d)' <=> d = waiters[1]
    BY <1>0, <1>h, <2>1, <2>2 DEF Holds
  <2>6. OneHolder'
    BY <2>5, <2>1, <2>2 DEF OneHolder
  <2>7. \A d \in Callers : Listed(d)' <=> Listed(d) /\ d # waiters[1]
    <3> SUFFICES ASSUME NEW d \in Callers PROVE Listed(d)' <=> Listed(d) /\ d # waiters[1]
      OBVIOUS
    <3>1. ASSUME Listed(d)' PROVE Listed(d) /\ d # waiters[1]
      <4>1. PICK i \in 1..Len(Tail(waiters)) : Tail(waiters)[i] = d
        BY <3>1, <2>1 DEF Listed
      <4>2. i + 1 \in 1..Len(waiters) /\ waiters[i + 1] = d /\ 1 \in 1..Len(waiters)
        BY <4>1, <1>1, TailOfQueue DEF TypeOK
      <4> QED
        BY <4>2 DEF Listed, NoLostWaiter
    <3>2. ASSUME Listed(d), d # waiters[1] PROVE Listed(d)'
      <4>1. PICK i \in 1..Len(waiters) : waiters[i] = d
        BY <3>2 DEF Listed
      <4>2. i - 1 \in 1..(Len(waiters) - 1) /\ Tail(waiters)[i - 1] = d
        BY <4>1, <3>2, <1>1, TailOfQueue DEF TypeOK
      <4> QED
        BY <4>2, <2>1, <1>1, TailOfQueue DEF Listed, TypeOK
    <3> QED
      BY <3>1, <3>2
  <2>8. \A i, j \in 1..Len(waiters') : waiters'[i] = waiters'[j] => i = j
    <3> SUFFICES ASSUME NEW i \in 1..Len(Tail(waiters)), NEW j \in 1..Len(Tail(waiters)),
                        Tail(waiters)[i] = Tail(waiters)[j]
                 PROVE  i = j
      BY <2>1
    <3>1. /\ i + 1 \in 1..Len(waiters) /\ j + 1 \in 1..Len(waiters)
          /\ waiters[i + 1] = waiters[j + 1]
      BY <1>1, TailOfQueue DEF TypeOK
    <3>2. i + 1 = j + 1
      BY <3>1 DEF NoLostWaiter
    <3> QED
      BY <3>2
  <2>9. NoLostWaiter'
    BY <1>0, <2>1, <2>2, <2>7, <2>8, <1>g DEF NoLostWaiter, Holds
  <2> QED
    BY <2>4, <2>6, <2>9
<1>2. CASE waiters = <<>>
  <2>1. waiters' = <<>> /\ granted' = {} /\ owner' = FALSE
    BY <1>2, <1>g DEF PassOn
  <2>0. waiters' \in Seq(Callers)
    BY <2>1
  <2>2. TypeOK'
    BY <1>0, <1>c, <2>1, <2>0 DEF TypeOK
  <2>3. OneHolder'
    BY <1>0, <1>h, <2>1 DEF OneHolder, Holds
  <2>4. NoLostWaiter'
    BY <1>0, <2>1, <1>2, <1>h DEF NoLostWaiter, Listed, Holds
  <2> QED
    BY <2>2, <2>3, <2>4
<1> QED
  BY <1>1, <1>2

\* One step of the specification keeps the invariant.
LEMMA NextArbiter == ArbiterInv /\ [Next]_vars => ArbiterInv'
<1> SUFFICES ASSUME ArbiterInv, [Next]_vars PROVE ArbiterInv'
  OBVIOUS
<1> USE DEF ArbiterInv
<1>1. ASSUME NEW c \in Callers, AcquireFree(c) PROVE ArbiterInv'
  <2>1. owner' = TRUE /\ waiters = <<>> /\ granted = {} /\ UNCHANGED <<waiters, granted, cancelled>>
    BY <1>1 DEF AcquireFree, OneHolder, NoLostWaiter, Holds, TypeOK
  <2>2. pc[c] = "idle" /\ pc' = [pc EXCEPT ![c] = "owning"] /\ \A d \in Callers : ~Holds(d)
    BY <1>1 DEF AcquireFree, At, OneHolder
  <2>3. TypeOK'
    BY <2>1, <2>2 DEF TypeOK, CallerPC
  <2>4. OneHolder'
    BY <2>1, <2>2 DEF OneHolder, Holds, TypeOK
  <2>5. NoLostWaiter'
    BY <2>1, <2>2 DEF NoLostWaiter, Listed, TypeOK
  <2> QED
    BY <2>3, <2>4, <2>5
<1>2. ASSUME NEW c \in Callers, Enqueue(c) PROVE ArbiterInv'
  <2>1. /\ owner /\ pc[c] = "idle" /\ waiters' = Append(waiters, c)
        /\ pc' = [pc EXCEPT ![c] = "waiting"] /\ UNCHANGED <<owner, granted, cancelled>>
    BY <1>2 DEF Enqueue, At
  <2>2. /\ waiters' \in Seq(Callers) /\ Len(waiters') = Len(waiters) + 1 /\ Len(waiters) \in Nat
        /\ \A i \in 1..Len(waiters) : waiters'[i] = waiters[i]
        /\ waiters'[Len(waiters) + 1] = c
    BY <2>1 DEF TypeOK
  <2>3. TypeOK'
    BY <2>1, <2>2 DEF TypeOK, CallerPC
  <2>4. OneHolder'
    BY <2>1 DEF OneHolder, Holds, TypeOK
  <2>5. ~Listed(c) /\ c \notin granted
    BY <2>1 DEF NoLostWaiter, TypeOK
  <2>6. \A d \in Callers : Listed(d)' <=> Listed(d) \/ d = c
    <3> SUFFICES ASSUME NEW d \in Callers PROVE Listed(d)' <=> Listed(d) \/ d = c
      OBVIOUS
    <3>1. ASSUME Listed(d)' PROVE Listed(d) \/ d = c
      <4>1. PICK i \in 1..(Len(waiters) + 1) : waiters'[i] = d
        BY <3>1, <2>2 DEF Listed
      <4> QED
        BY <4>1, <2>2 DEF Listed
    <3>2. ASSUME Listed(d) \/ d = c PROVE Listed(d)'
      BY <3>2, <2>2 DEF Listed
    <3> QED
      BY <3>1, <3>2
  <2>7. \A i, j \in 1..Len(waiters') : waiters'[i] = waiters'[j] => i = j
    BY <2>2, <2>5 DEF NoLostWaiter, Listed
  <2>8. NoLostWaiter'
    BY <2>1, <2>5, <2>6, <2>7 DEF NoLostWaiter, TypeOK
  <2> QED
    BY <2>3, <2>4, <2>8
<1>3. ASSUME NEW c \in Callers, SeeGrant(c) PROVE ArbiterInv'
  <2>1. /\ c \in granted /\ pc[c] = "waiting" /\ granted' = granted \ {c}
        /\ UNCHANGED <<owner, waiters, cancelled>>
        /\ pc' = [pc EXCEPT ![c] = IF c \in cancelled THEN "releasing" ELSE "owning"]
    BY <1>3 DEF SeeGrant, At
  <2>2. pc'[c] \in {"releasing", "owning"} /\ \A d \in Callers \ {c} : pc'[d] = pc[d]
    BY <2>1 DEF TypeOK
  <2>3. TypeOK'
    BY <2>1, <2>2 DEF TypeOK, CallerPC
  <2>4. \A d \in Callers : Holds(d)' <=> Holds(d)
    BY <2>1, <2>2 DEF Holds, TypeOK
  <2>5. OneHolder'
    BY <2>1, <2>4 DEF OneHolder
  <2>6. NoLostWaiter'
    BY <2>1, <2>2 DEF NoLostWaiter, Listed
  <2> QED
    BY <2>3, <2>5, <2>6
<1>4. ASSUME NEW c \in Callers, SeeCancel(c) PROVE ArbiterInv'
  <2>1. /\ pc[c] = "waiting" /\ pc' = [pc EXCEPT ![c] = "aborting"]
        /\ UNCHANGED <<owner, waiters, granted, cancelled>>
    BY <1>4 DEF SeeCancel, At
  <2>2. TypeOK'
    BY <2>1 DEF TypeOK, CallerPC
  <2>3. OneHolder'
    BY <2>1 DEF OneHolder, Holds, TypeOK
  <2>4. NoLostWaiter'
    BY <2>1 DEF NoLostWaiter, Listed, TypeOK
  <2> QED
    BY <2>2, <2>3, <2>4
<1>5. ASSUME NEW c \in Callers, LeaveQueue(c) PROVE ArbiterInv'
  <2>1. PICK k \in 1..Len(waiters) : waiters[k] = c /\ waiters' = Removed(k)
    BY <1>5 DEF LeaveQueue
  <2>2. /\ pc[c] = "aborting" /\ pc' = [pc EXCEPT ![c] = "idle"]
        /\ cancelled' = cancelled \ {c} /\ UNCHANGED <<owner, granted>>
    BY <1>5 DEF LeaveQueue, At
  <2>3. /\ waiters' \in Seq(Callers) /\ Len(waiters') = Len(waiters) - 1
        /\ Len(waiters) \in Nat \ {0}
        /\ \A j \in 1..(Len(waiters) - 1) : waiters'[j] = waiters[IF j < k THEN j ELSE j + 1]
    <3>1. waiters \in Seq(Callers)
      BY DEF TypeOK
    <3>2. Len(waiters) \in Nat \ {0}
      BY <3>1, <2>1
    <3> QED
      BY <3>1, <3>2, <2>1, Removal
  <2>4. Listed(c) /\ c \notin granted
    BY <2>1, <2>2 DEF Listed, NoLostWaiter
  <2>5. TypeOK'
    <3>1. pc' \in [Callers -> CallerPC] /\ pc'[c] = "idle" /\ \A d \in Callers \ {c} : pc'[d] = pc[d]
      BY <2>2 DEF TypeOK, CallerPC
    <3>2. granted' \in SUBSET {d \in Callers : pc'[d] \in {"waiting", "aborting"}}
      BY <2>2, <2>4, <3>1 DEF TypeOK
    <3>3. cancelled' \in SUBSET {d \in Callers : pc'[d] # "idle"}
      BY <2>2, <3>1 DEF TypeOK
    <3> QED
      BY <2>2, <2>3, <3>1, <3>2, <3>3 DEF TypeOK
  <2>6. OneHolder'
    BY <2>2 DEF OneHolder, Holds, TypeOK
  <2>7. \A d \in Callers : Listed(d)' <=> Listed(d) /\ d # c
    <3> SUFFICES ASSUME NEW d \in Callers PROVE Listed(d)' <=> Listed(d) /\ d # c
      OBVIOUS
    <3>1. ASSUME Listed(d)' PROVE Listed(d) /\ d # c
      <4>1. PICK j \in 1..(Len(waiters) - 1) : waiters'[j] = d
        BY <3>1, <2>3 DEF Listed
      <4>2. PICK i \in 1..Len(waiters) : i = (IF j < k THEN j ELSE j + 1)
        BY <2>3
      <4>3. waiters[i] = d /\ i # k
        BY <4>1, <4>2, <2>3
      <4> QED
        BY <4>3, <2>1 DEF Listed, NoLostWaiter
    <3>2. ASSUME Listed(d), d # c PROVE Listed(d)'
      <4>1. PICK i \in 1..Len(waiters) : waiters[i] = d
        BY <3>2 DEF Listed
      <4>2. i # k
        BY <4>1, <3>2, <2>1
      <4>3. PICK j \in 1..(Len(waiters) - 1) : i = (IF j < k THEN j ELSE j + 1)
        <5>1. CASE i < k
          BY <5>1, <2>3
        <5>2. CASE i > k
          <6>1. i - 1 \in 1..(Len(waiters) - 1) /\ ~(i - 1 < k) /\ i = (i - 1) + 1
            BY <5>2, <2>3
          <6> QED
            BY <6>1
        <5> QED
          BY <5>1, <5>2, <4>2, <2>3
      <4> QED
        BY <4>1, <4>3, <2>3 DEF Listed
    <3> QED
      BY <3>1, <3>2
  <2>8. \A i, j \in 1..Len(waiters') : waiters'[i] = waiters'[j] => i = j
    <3> SUFFICES ASSUME NEW i \in 1..(Len(waiters) - 1), NEW j \in 1..(Len(waiters) - 1),
                        waiters'[i] = waiters'[j]
                 PROVE  i = j
      BY <2>3
    <3>1. PICK ii \in 1..Len(waiters) : ii = (IF i < k THEN i ELSE i + 1)
      BY <2>3
    <3>2. PICK jj \in 1..Len(waiters) : jj = (IF j < k THEN j ELSE j + 1)
      BY <2>3
    <3>3. ii = jj
      BY <3>1, <3>2, <2>3 DEF NoLostWaiter
    <3> QED
      BY <3>1, <3>2, <3>3
  <2>9. waiters' # <<>> => owner'
    BY <2>1, <2>2, <2>3 DEF NoLostWaiter
  <2>10. NoLostWaiter'
    BY <2>2, <2>4, <2>7, <2>8, <2>9 DEF NoLostWaiter, TypeOK
  <2> QED
    BY <2>5, <2>6, <2>10
<1>6. ASSUME NEW c \in Callers, HandOn(c) PROVE ArbiterInv'
  <2>1. /\ pc[c] = "aborting" /\ pc' = [pc EXCEPT ![c] = "idle"]
        /\ ~Listed(c) /\ PassOn({c}) /\ cancelled' = cancelled \ {c}
    BY <1>6 DEF HandOn, At
  <2>2. Holds(c)
    BY <2>1 DEF Holds, NoLostWaiter
  <2> QED
    BY <2>1, <2>2, PassOnArbiter
<1>7. ASSUME NEW c \in Callers, Release(c) PROVE ArbiterInv'
  <2>1. /\ pc[c] \in {"owning", "releasing"} /\ pc' = [pc EXCEPT ![c] = "idle"]
        /\ PassOn({}) /\ cancelled' = cancelled \ {c}
    BY <1>7 DEF Release, At
  <2>2. Holds(c) /\ ~Listed(c) /\ c \notin granted
    BY <2>1 DEF Holds, NoLostWaiter, TypeOK
  <2> QED
    BY <2>1, <2>2, PassOnArbiter
<1>8. ASSUME NEW c \in Callers, Cancel(c) PROVE ArbiterInv'
  BY <1>8 DEF Cancel, TypeOK, OneHolder, Holds, NoLostWaiter, Listed
<1>9. CASE UNCHANGED vars
  BY <1>9 DEF vars, TypeOK, OneHolder, Holds, NoLostWaiter, Listed
<1> QED
  BY <1>1, <1>2, <1>3, <1>4, <1>5, <1>6, <1>7, <1>8, <1>9 DEF Next, Return

LEMMA ArbiterInvariance == Spec => []ArbiterInv
BY InitArbiter, NextArbiter, PTL DEF Spec

\* The variables keep their types, and a grant nobody has seen belongs to a caller that
\* is still inside Acquire.
THEOREM ArbiterTypes == Spec => []TypeOK
<1>1. ArbiterInv => TypeOK
  BY DEF ArbiterInv
<1> QED
  BY <1>1, ArbiterInvariance, PTL

\* However grants, cancellations and releases interleave, for any number of callers, the
\* GPU has at most one holder, and one exactly while the owner flag is set.
THEOREM Exclusion == Spec => []OneHolder
<1>1. ArbiterInv => OneHolder
  BY DEF ArbiterInv
<1> QED
  BY <1>1, ArbiterInvariance, PTL

\* The queue never loses a waiter, never keeps the channel of a caller that has left,
\* and is empty whenever the GPU is free.
THEOREM QueueIntegrity == Spec => []NoLostWaiter
<1>1. ArbiterInv => NoLostWaiter
  BY DEF ArbiterInv
<1> QED
  BY <1>1, ArbiterInvariance, PTL

(***************************************************************************)
(* The pool.                                                               *)
(***************************************************************************)
\* There is one place, and a start keeps it free.
Place ==
    /\ \A d, e \in clients : d = e
    /\ \A u, v \in DemucsUsers : Starting(u) /\ Starting(v) => u = v
    /\ starting <=> \E u \in DemucsUsers : Starting(u)
    /\ starting => clients = {}

\* What is listed, parked and held.
Registry ==
    /\ running \subseteq clients /\ alive \subseteq clients
    /\ demucsClosed => clients = {} /\ parked = <<>>
    /\ ~demucsClosed => clients = Parked \cup (HeldClients \ {NoClient})
    /\ Parked \cap HeldClients = {}
    /\ Len(parked) <= 1
    /\ \A u, v \in DemucsUsers : client[u] = client[v] /\ client[u] # NoClient => u = v

\* A daemon that may be asked has a task left, and one that is not listed is as good as new.
Wear ==
    /\ \A d \in Parked : tasks[d] < TasksPerClient
    /\ \A u \in DemucsUsers :
          step[u] \in {"holding", "calling"} => tasks[client[u]] < TasksPerClient
    /\ \A d \in Clients \ clients : tasks[d] = 0 /\ pipe[d] = "quiet"

\* NoForgottenWaiter without its count.
Waits ==
    \A u \in DemucsUsers :
        /\ step[u] = "waiting" /\ u \notin woken =>
              ~demucsClosed /\ (starting \/ \E v \in DemucsUsers : step[v] \in HoldingClient)
        /\ step[u] = "sleeping" /\ u \notin notified => inUse >= limit

\* The slots in use have owners, and only separations queue for a slot.
Owners == {u \in Separators : step[u] \notin {"out", "queueing", "sleeping"}}
Count ==
    /\ IsFiniteSet(Owners) /\ inUse = Cardinality(Owners)
    /\ \A u \in DemucsUsers : step[u] \in {"queueing", "sleeping", "leaving"} => u \in Separators

IInv == DemucsTypeOK /\ Place /\ Registry /\ Wear /\ Waits

\* The idle list of at most one daemon.
LEMMA ParkedOne ==
  ASSUME parked \in Seq(Clients), Len(parked) <= 1
  PROVE  \/ parked = <<>> /\ Parked = {}
         \/ /\ parked # <<>> /\ Parked = {Latest} /\ Latest \in Clients
            /\ Popped = <<>> /\ Popped \in Seq(Clients)
<1>1. CASE Len(parked) = 0
  BY <1>1 DEF Parked
<1>2. CASE Len(parked) = 1
  BY <1>2 DEF Parked, Latest, Popped
<1>3. Len(parked) \in Nat
  OBVIOUS
<1>a. \A n \in Nat : n <= 1 => n = 0 \/ n = 1
  OBVIOUS
<1>4. Len(parked) = 0 \/ Len(parked) = 1
  BY <1>3, <1>a
<1> QED
  BY <1>1, <1>2, <1>4

LEMMA ParkedAppend ==
  ASSUME parked = <<>>, NEW d \in Clients, parked' = Append(parked, d)
  PROVE  parked' \in Seq(Clients) /\ Len(parked') = 1 /\ Parked' = {d}
<1>1. parked' = <<d>>
  OBVIOUS
<1> QED
  BY <1>1 DEF Parked

LEMMA EmptyParked ==
  ASSUME parked' = <<>>
  PROVE  parked' \in Seq(Clients) /\ Len(parked') = 0 /\ Parked' = {}
BY DEF Parked

LEMMA InitIInv == DemucsInit => IInv
<1> SUFFICES ASSUME DemucsInit PROVE IInv
  OBVIOUS
<1>p. parked \in Seq(Clients) /\ Len(parked) = 0 /\ Parked = {}
  BY DEF DemucsInit, Parked
<1>1. DemucsTypeOK
  <2>1. /\ limit \in Nat \ {0} /\ demucsFaults \in 0..MaxDemucsFaults
        /\ tasks \in [Clients -> 0..TasksPerClient]
    BY DemucsPoolAssumption DEF DemucsInit
  <2>2. step \in [DemucsUsers -> {"entering", "out"}] /\ client = [u \in DemucsUsers |-> NoClient]
    BY DEF DemucsInit
  <2>3. step \in [DemucsUsers -> Steps] /\ \A u \in DemucsUsers : step[u] \notin HoldingClient
    BY <2>2 DEF Steps, HoldingClient
  <2> QED
    BY <1>p, <2>1, <2>2, <2>3 DEF DemucsInit, DemucsTypeOK
<1>2. Place
  BY DEF DemucsInit, Place, Starting
<1>3. Registry
  BY <1>p DEF DemucsInit, Registry, HeldClients
<1>4. Wear
  BY <1>p DEF DemucsInit, Wear
<1>5. Waits
  BY DEF DemucsInit, Waits
<1> QED
  BY <1>1, <1>2, <1>3, <1>4, <1>5 DEF IInv

LEMMA StepBegins ==
  ASSUME IInv, NEW u \in DemucsUsers, Begins(u)
  PROVE  IInv'
<1> USE DEF IInv
<1>0. \/ parked = <<>> /\ Parked = {}
      \/ parked # <<>> /\ Parked = {Latest} /\ Latest \in Clients /\ Popped = <<>> /\ Popped \in Seq(Clients)
  BY ParkedOne DEF DemucsTypeOK, Registry
<1>p. parked' = parked /\ Parked' = Parked
  BY DEF Begins, Parked, SlotStep, slotVars, registryVars, daemonVars, NoDemucsFault, Goes
<1> USE DEF Begins, SlotStep, slotVars, registryVars, daemonVars, NoDemucsFault, Goes
<1>1. DemucsTypeOK'
  BY <1>0, <1>p, DemucsPoolAssumption DEF DemucsTypeOK, Steps, HoldingClient, Sleeping, Starting
<1>2. Place'
  BY <1>0, <1>p, DemucsPoolAssumption DEF Place, Starting, Registry, DemucsTypeOK, HeldClients,
     HoldingClient
<1>3. Registry'
  BY <1>0, <1>p, DemucsPoolAssumption DEF Registry, DemucsTypeOK, Place, HeldClients, HoldingClient
<1>4. Wear'
  BY <1>0, <1>p, DemucsPoolAssumption DEF Wear, DemucsTypeOK, Place, Registry, HeldClients,
     HoldingClient
<1>5. Waits'
  BY <1>0, <1>p, DemucsPoolAssumption DEF Waits, DemucsTypeOK, Place, Registry, HeldClients,
     HoldingClient, Sleeping
<1> QED
  BY <1>1, <1>2, <1>3, <1>4, <1>5

LEMMA StepTakeSlot ==
  ASSUME IInv, NEW u \in DemucsUsers, TakeSlot(u)
  PROVE  IInv'
<1> USE DEF IInv
<1>0. \/ parked = <<>> /\ Parked = {}
      \/ parked # <<>> /\ Parked = {Latest} /\ Latest \in Clients /\ Popped = <<>> /\ Popped \in Seq(Clients)
  BY ParkedOne DEF DemucsTypeOK, Registry
<1>p. parked' = parked /\ Parked' = Parked
  BY DEF TakeSlot, Parked, SlotStep, slotVars, registryVars, daemonVars, NoDemucsFault,
     SlotResult, Looks
<1> USE DEF TakeSlot, SlotStep, slotVars, registryVars, daemonVars, NoDemucsFault, SlotResult, Looks
<1>1. DemucsTypeOK'
  BY <1>0, <1>p, DemucsPoolAssumption DEF DemucsTypeOK, Steps, HoldingClient, Sleeping, Starting
<1>2. Place'
  BY <1>0, <1>p, DemucsPoolAssumption DEF Place, Starting, Registry, DemucsTypeOK, HeldClients,
     HoldingClient
<1>3. Registry'
  BY <1>0, <1>p, DemucsPoolAssumption DEF Registry, DemucsTypeOK, Place, HeldClients, HoldingClient
<1>4. Wear'
  BY <1>0, <1>p, DemucsPoolAssumption DEF Wear, DemucsTypeOK, Place, Registry, HeldClients,
     HoldingClient
<1>5. Waits'
  <2>1. \A v \in DemucsUsers : step[v] = "sleeping" => v \in notified
    BY DEF Waits, DemucsTypeOK
  <2>2. \A v \in DemucsUsers \ {u} : step'[v] = step[v] /\ (v \in notified => v \in notified')
    BY DEF DemucsTypeOK
  <2>3. step'[u] = "entering"
    BY DEF DemucsTypeOK
  <2>4. \A v \in DemucsUsers : step'[v] = "sleeping" => v \in notified'
    BY <2>1, <2>2, <2>3
  <2>5. \A v \in DemucsUsers : step'[v] \in HoldingClient <=> step[v] \in HoldingClient
    BY <2>2, <2>3 DEF HoldingClient
  <2> QED
    BY <2>2, <2>3, <2>4, <2>5 DEF Waits
<1> QED
  BY <1>1, <1>2, <1>3, <1>4, <1>5

LEMMA StepWaitForSlot ==
  ASSUME IInv, NEW u \in DemucsUsers, WaitForSlot(u)
  PROVE  IInv'
<1> USE DEF IInv
<1>0. \/ parked = <<>> /\ Parked = {}
      \/ parked # <<>> /\ Parked = {Latest} /\ Latest \in Clients /\ Popped = <<>> /\ Popped \in Seq(Clients)
  BY ParkedOne DEF DemucsTypeOK, Registry
<1>p. parked' = parked /\ Parked' = Parked
  BY DEF WaitForSlot, Parked, SlotStep, slotVars, registryVars, daemonVars, NoDemucsFault,
     SlotResult, Looks
<1> USE DEF WaitForSlot, SlotStep, slotVars, registryVars, daemonVars, NoDemucsFault,
        SlotResult, Looks
<1>1. DemucsTypeOK'
  BY <1>0, <1>p, DemucsPoolAssumption DEF DemucsTypeOK, Steps, HoldingClient, Sleeping, Starting
<1>2. Place'
  BY <1>0, <1>p, DemucsPoolAssumption DEF Place, Starting, Registry, DemucsTypeOK, HeldClients,
     HoldingClient
<1>3. Registry'
  BY <1>0, <1>p, DemucsPoolAssumption DEF Registry, DemucsTypeOK, Place, HeldClients, HoldingClient
<1>4. Wear'
  BY <1>0, <1>p, DemucsPoolAssumption DEF Wear, DemucsTypeOK, Place, Registry, HeldClients,
     HoldingClient
<1>5. Waits'
  BY <1>0, <1>p, DemucsPoolAssumption DEF Waits, DemucsTypeOK, Place, Registry, HeldClients,
     HoldingClient, Sleeping
<1> QED
  BY <1>1, <1>2, <1>3, <1>4, <1>5

LEMMA StepSlotExpired ==
  ASSUME IInv, NEW u \in DemucsUsers, SlotExpired(u)
  PROVE  IInv'
<1> USE DEF IInv
<1>0. \/ parked = <<>> /\ Parked = {}
      \/ parked # <<>> /\ Parked = {Latest} /\ Latest \in Clients /\ Popped = <<>> /\ Popped \in Seq(Clients)
  BY ParkedOne DEF DemucsTypeOK, Registry
<1>p. parked' = parked /\ Parked' = Parked
  BY DEF SlotExpired, Parked, SlotStep, slotVars, registryVars, daemonVars, NoDemucsFault,
     SlotResult, Looks
<1> USE DEF SlotExpired, SlotStep, slotVars, registryVars, daemonVars, NoDemucsFault,
        SlotResult, Looks
<1>1. DemucsTypeOK'
  BY <1>0, <1>p, DemucsPoolAssumption DEF DemucsTypeOK, Steps, HoldingClient, Sleeping, Starting
<1>2. Place'
  BY <1>0, <1>p, DemucsPoolAssumption DEF Place, Starting, Registry, DemucsTypeOK, HeldClients,
     HoldingClient
<1>3. Registry'
  BY <1>0, <1>p, DemucsPoolAssumption DEF Registry, DemucsTypeOK, Place, HeldClients, HoldingClient
<1>4. Wear'
  BY <1>0, <1>p, DemucsPoolAssumption DEF Wear, DemucsTypeOK, Place, Registry, HeldClients,
     HoldingClient
<1>5. Waits'
  BY <1>0, <1>p, DemucsPoolAssumption DEF Waits, DemucsTypeOK, Place, Registry, HeldClients,
     HoldingClient, Sleeping
<1> QED
  BY <1>1, <1>2, <1>3, <1>4, <1>5

LEMMA StepReleaseSlot ==
  ASSUME IInv, NEW u \in DemucsUsers, ReleaseSlot(u)
  PROVE  IInv'
<1> USE DEF IInv
<1>0. \/ parked = <<>> /\ Parked = {}
      \/ parked # <<>> /\ Parked = {Latest} /\ Latest \in Clients /\ Popped = <<>> /\ Popped \in Seq(Clients)
  BY ParkedOne DEF DemucsTypeOK, Registry
<1>p. parked' = parked /\ Parked' = Parked
  BY DEF ReleaseSlot, Parked, SlotStep, slotVars, registryVars, daemonVars, NoDemucsFault, Goes,
     Less
<1> USE DEF ReleaseSlot, SlotStep, slotVars, registryVars, daemonVars, NoDemucsFault, Goes, Less
<1>1. DemucsTypeOK'
  BY <1>0, <1>p, DemucsPoolAssumption DEF DemucsTypeOK, Steps, HoldingClient, Sleeping, Starting
<1>2. Place'
  BY <1>0, <1>p, DemucsPoolAssumption DEF Place, Starting, Registry, DemucsTypeOK, HeldClients,
     HoldingClient
<1>3. Registry'
  BY <1>0, <1>p, DemucsPoolAssumption DEF Registry, DemucsTypeOK, Place, HeldClients, HoldingClient
<1>4. Wear'
  BY <1>0, <1>p, DemucsPoolAssumption DEF Wear, DemucsTypeOK, Place, Registry, HeldClients,
     HoldingClient
<1>5. Waits'
  BY <1>0, <1>p, DemucsPoolAssumption DEF Waits, DemucsTypeOK, Place, Registry, HeldClients,
     HoldingClient, Sleeping
<1> QED
  BY <1>1, <1>2, <1>3, <1>4, <1>5

LEMMA StepRejected ==
  ASSUME IInv, NEW u \in DemucsUsers, Rejected(u)
  PROVE  IInv'
<1> USE DEF IInv
<1>0. \/ parked = <<>> /\ Parked = {}
      \/ parked # <<>> /\ Parked = {Latest} /\ Latest \in Clients /\ Popped = <<>> /\ Popped \in Seq(Clients)
  BY ParkedOne DEF DemucsTypeOK, Registry
<1>p. parked' = parked /\ Parked' = Parked
  BY DEF Rejected, Parked, PoolStep, slotVars, registryVars, daemonVars, NoDemucsFault, Enters,
     NoBroadcast, After
<1> USE DEF Rejected, PoolStep, slotVars, registryVars, daemonVars, NoDemucsFault, Enters,
        NoBroadcast, After
<1>1. DemucsTypeOK'
  BY <1>0, <1>p, DemucsPoolAssumption DEF DemucsTypeOK, Steps, HoldingClient, Sleeping, Starting
<1>2. Place'
  BY <1>0, <1>p, DemucsPoolAssumption DEF Place, Starting, Registry, DemucsTypeOK, HeldClients,
     HoldingClient
<1>3. Registry'
  BY <1>0, <1>p, DemucsPoolAssumption DEF Registry, DemucsTypeOK, Place, HeldClients, HoldingClient
<1>4. Wear'
  BY <1>0, <1>p, DemucsPoolAssumption DEF Wear, DemucsTypeOK, Place, Registry, HeldClients,
     HoldingClient
<1>5. Waits'
  BY <1>0, <1>p, DemucsPoolAssumption DEF Waits, DemucsTypeOK, Place, Registry, HeldClients,
     HoldingClient, Sleeping
<1> QED
  BY <1>1, <1>2, <1>3, <1>4, <1>5

LEMMA StepPrewarmed ==
  ASSUME IInv, NEW u \in DemucsUsers, Prewarmed(u)
  PROVE  IInv'
<1> USE DEF IInv
<1>0. \/ parked = <<>> /\ Parked = {}
      \/ parked # <<>> /\ Parked = {Latest} /\ Latest \in Clients /\ Popped = <<>> /\ Popped \in Seq(Clients)
  BY ParkedOne DEF DemucsTypeOK, Registry
<1>p. parked' = parked /\ Parked' = Parked
  BY DEF Prewarmed, Parked, PoolStep, slotVars, registryVars, daemonVars, NoDemucsFault, Enters,
     NoBroadcast
<1> USE DEF Prewarmed, PoolStep, slotVars, registryVars, daemonVars, NoDemucsFault, Enters,
        NoBroadcast
<1>1. DemucsTypeOK'
  BY <1>0, <1>p, DemucsPoolAssumption DEF DemucsTypeOK, Steps, HoldingClient, Sleeping, Starting
<1>2. Place'
  BY <1>0, <1>p, DemucsPoolAssumption DEF Place, Starting, Registry, DemucsTypeOK, HeldClients,
     HoldingClient
<1>3. Registry'
  BY <1>0, <1>p, DemucsPoolAssumption DEF Registry, DemucsTypeOK, Place, HeldClients, HoldingClient
<1>4. Wear'
  BY <1>0, <1>p, DemucsPoolAssumption DEF Wear, DemucsTypeOK, Place, Registry, HeldClients,
     HoldingClient
<1>5. Waits'
  BY <1>0, <1>p, DemucsPoolAssumption DEF Waits, DemucsTypeOK, Place, Registry, HeldClients,
     HoldingClient, Sleeping
<1> QED
  BY <1>1, <1>2, <1>3, <1>4, <1>5

LEMMA StepTakeParked ==
  ASSUME IInv, NEW u \in DemucsUsers, TakeParked(u)
  PROVE  IInv'
<1> USE DEF IInv
<1>0. \/ parked = <<>> /\ Parked = {}
      \/ parked # <<>> /\ Parked = {Latest} /\ Latest \in Clients /\ Popped = <<>> /\ Popped \in Seq(Clients)
  BY ParkedOne DEF DemucsTypeOK, Registry
<1>p. parked' = <<>> /\ parked' \in Seq(Clients) /\ Len(parked') = 0 /\ Parked' = {}
  BY <1>0, EmptyParked DEF TakeParked, PoolStep, slotVars, registryVars, daemonVars,
     NoDemucsFault, Admitted, Enters, NoBroadcast, GetsClient
<1> USE DEF TakeParked, PoolStep, slotVars, registryVars, daemonVars, NoDemucsFault, Admitted,
        Enters, NoBroadcast, GetsClient
<1>1. DemucsTypeOK'
  BY <1>0, <1>p, DemucsPoolAssumption DEF DemucsTypeOK, Steps, HoldingClient, Sleeping, Starting
<1>2. Place'
  BY <1>0, <1>p, DemucsPoolAssumption DEF Place, Starting, Registry, DemucsTypeOK, HeldClients,
     HoldingClient
<1>3. Registry'
  <2>1. /\ client' = [client EXCEPT ![u] = Latest] /\ client[u] = NoClient
        /\ Latest \in Parked /\ Parked = {Latest}
    BY <1>0 DEF DemucsTypeOK, HoldingClient
  <2>2. \A v \in DemucsUsers : client'[v] = IF v = u THEN Latest ELSE client[v]
    BY <2>1 DEF DemucsTypeOK
  <2>3. HeldClients' \ {NoClient} = (HeldClients \ {NoClient}) \cup {Latest}
    BY <1>0, <2>1, <2>2, DemucsPoolAssumption DEF HeldClients
  <2>4. \A v \in DemucsUsers : client[v] # Latest
    BY <2>1 DEF Registry, HeldClients
  <2> QED
    BY <1>p, <2>1, <2>2, <2>3, <2>4 DEF Registry
<1>4. Wear'
  BY <1>0, <1>p, DemucsPoolAssumption DEF Wear, DemucsTypeOK, Place, Registry, HeldClients,
     HoldingClient
<1>5. Waits'
  BY <1>0, <1>p, DemucsPoolAssumption DEF Waits, DemucsTypeOK, Place, Registry, HeldClients,
     HoldingClient, Sleeping
<1> QED
  BY <1>1, <1>2, <1>3, <1>4, <1>5

LEMMA StepRestart ==
  ASSUME IInv, NEW u \in DemucsUsers, Restart(u)
  PROVE  IInv'
<1> USE DEF IInv
<1>0. \/ parked = <<>> /\ Parked = {}
      \/ parked # <<>> /\ Parked = {Latest} /\ Latest \in Clients /\ Popped = <<>> /\ Popped \in Seq(Clients)
  BY ParkedOne DEF DemucsTypeOK, Registry
<1>p. parked' = <<>> /\ parked' \in Seq(Clients) /\ Len(parked') = 0 /\ Parked' = {}
  BY <1>0, EmptyParked DEF Restart, PoolStep, slotVars, registryVars, daemonVars, NoDemucsFault,
     Admitted, Enters, NoBroadcast, Ends
<1> USE DEF Restart, PoolStep, slotVars, registryVars, daemonVars, NoDemucsFault, Admitted,
        Enters, NoBroadcast, Ends
<1>1. DemucsTypeOK'
  BY <1>0, <1>p, DemucsPoolAssumption DEF DemucsTypeOK, Steps, HoldingClient, Sleeping, Starting
<1>2. Place'
  <2>1. Latest \in clients /\ clients = {Latest}
    BY <1>0 DEF Registry, Place
  <2>2. ~starting /\ clients' = {}
    BY <2>1 DEF Place
  <2>3. \A v \in DemucsUsers : ~Starting(v)
    BY <2>2 DEF Place
  <2>4. \A v \in DemucsUsers : Starting(v)' <=> v = u
    BY <2>3 DEF Starting, DemucsTypeOK
  <2> QED
    BY <2>2, <2>4 DEF Place
<1>3. Registry'
  <2>1. Latest \in clients /\ clients = {Latest} /\ Parked = {Latest}
    BY <1>0 DEF Registry, Place
  <2>2. clients' = {} /\ HeldClients' = HeldClients /\ HeldClients \subseteq {NoClient}
    BY <2>1 DEF Registry, HeldClients
  <2>3. running' = {} /\ alive' = {}
    BY <2>1 DEF Registry
  <2> QED
    BY <1>p, <2>2, <2>3 DEF Registry
<1>4. Wear'
  BY <1>0, <1>p, DemucsPoolAssumption DEF Wear, DemucsTypeOK, Place, Registry, HeldClients,
     HoldingClient
<1>5. Waits'
  BY <1>0, <1>p, DemucsPoolAssumption DEF Waits, DemucsTypeOK, Place, Registry, HeldClients,
     HoldingClient, Sleeping
<1> QED
  BY <1>1, <1>2, <1>3, <1>4, <1>5

LEMMA StepStartNew ==
  ASSUME IInv, NEW u \in DemucsUsers, StartNew(u)
  PROVE  IInv'
<1> USE DEF IInv
<1>0. \/ parked = <<>> /\ Parked = {}
      \/ parked # <<>> /\ Parked = {Latest} /\ Latest \in Clients /\ Popped = <<>> /\ Popped \in Seq(Clients)
  BY ParkedOne DEF DemucsTypeOK, Registry
<1>p. parked' = parked /\ Parked' = Parked
  BY DEF StartNew, Parked, PoolStep, slotVars, registryVars, daemonVars, NoDemucsFault,
     Admitted, Enters, NoBroadcast
<1> USE DEF StartNew, PoolStep, slotVars, registryVars, daemonVars, NoDemucsFault, Admitted,
        Enters, NoBroadcast
<1>1. DemucsTypeOK'
  BY <1>0, <1>p, DemucsPoolAssumption DEF DemucsTypeOK, Steps, HoldingClient, Sleeping, Starting
<1>2. Place'
  BY <1>0, <1>p, DemucsPoolAssumption DEF Place, Starting, Registry, DemucsTypeOK, HeldClients,
     HoldingClient
<1>3. Registry'
  BY <1>0, <1>p, DemucsPoolAssumption DEF Registry, DemucsTypeOK, Place, HeldClients, HoldingClient
<1>4. Wear'
  BY <1>0, <1>p, DemucsPoolAssumption DEF Wear, DemucsTypeOK, Place, Registry, HeldClients,
     HoldingClient
<1>5. Waits'
  BY <1>0, <1>p, DemucsPoolAssumption DEF Waits, DemucsTypeOK, Place, Registry, HeldClients,
     HoldingClient, Sleeping
<1> QED
  BY <1>1, <1>2, <1>3, <1>4, <1>5

LEMMA StepWaitForChange ==
  ASSUME IInv, NEW u \in DemucsUsers, WaitForChange(u)
  PROVE  IInv'
<1> USE DEF IInv
<1>0. \/ parked = <<>> /\ Parked = {}
      \/ parked # <<>> /\ Parked = {Latest} /\ Latest \in Clients /\ Popped = <<>> /\ Popped \in Seq(Clients)
  BY ParkedOne DEF DemucsTypeOK, Registry
<1>p. parked' = parked /\ Parked' = Parked
  BY DEF WaitForChange, Parked, PoolStep, slotVars, registryVars, daemonVars, NoDemucsFault,
     Admitted, Enters, NoBroadcast
<1> USE DEF WaitForChange, PoolStep, slotVars, registryVars, daemonVars, NoDemucsFault,
        Admitted, Enters, NoBroadcast
<1>1. DemucsTypeOK'
  BY <1>0, <1>p, DemucsPoolAssumption DEF DemucsTypeOK, Steps, HoldingClient, Sleeping, Starting
<1>2. Place'
  BY <1>0, <1>p, DemucsPoolAssumption DEF Place, Starting, Registry, DemucsTypeOK, HeldClients,
     HoldingClient
<1>3. Registry'
  BY <1>0, <1>p, DemucsPoolAssumption DEF Registry, DemucsTypeOK, Place, HeldClients, HoldingClient
<1>4. Wear'
  BY <1>0, <1>p, DemucsPoolAssumption DEF Wear, DemucsTypeOK, Place, Registry, HeldClients,
     HoldingClient
<1>5. Waits'
  BY <1>0, <1>p, DemucsPoolAssumption DEF Waits, DemucsTypeOK, Place, Registry, HeldClients,
     HoldingClient, Sleeping
<1> QED
  BY <1>1, <1>2, <1>3, <1>4, <1>5

LEMMA StepWakeExpired ==
  ASSUME IInv, NEW u \in DemucsUsers, WakeExpired(u)
  PROVE  IInv'
<1> USE DEF IInv
<1>0. \/ parked = <<>> /\ Parked = {}
      \/ parked # <<>> /\ Parked = {Latest} /\ Latest \in Clients /\ Popped = <<>> /\ Popped \in Seq(Clients)
  BY ParkedOne DEF DemucsTypeOK, Registry
<1>p. parked' = parked /\ Parked' = Parked
  BY DEF WakeExpired, Parked, PoolStep, slotVars, registryVars, daemonVars, NoDemucsFault
<1> USE DEF WakeExpired, PoolStep, slotVars, registryVars, daemonVars, NoDemucsFault
<1>1. DemucsTypeOK'
  BY <1>0, <1>p, DemucsPoolAssumption DEF DemucsTypeOK, Steps, HoldingClient, Sleeping, Starting
<1>2. Place'
  BY <1>0, <1>p, DemucsPoolAssumption DEF Place, Starting, Registry, DemucsTypeOK, HeldClients,
     HoldingClient
<1>3. Registry'
  BY <1>0, <1>p, DemucsPoolAssumption DEF Registry, DemucsTypeOK, Place, HeldClients, HoldingClient
<1>4. Wear'
  BY <1>0, <1>p, DemucsPoolAssumption DEF Wear, DemucsTypeOK, Place, Registry, HeldClients,
     HoldingClient
<1>5. Waits'
  BY <1>0, <1>p, DemucsPoolAssumption DEF Waits, DemucsTypeOK, Place, Registry, HeldClients,
     HoldingClient, Sleeping
<1> QED
  BY <1>1, <1>2, <1>3, <1>4, <1>5

LEMMA StepSpawned ==
  ASSUME IInv, NEW u \in DemucsUsers, Spawned(u)
  PROVE  IInv'
<1> USE DEF IInv
<1>0. starting /\ clients = {} /\ ~demucsClosed
  BY DEF Spawned, Place
<1>1. parked = <<>> /\ Parked = {} /\ running = {} /\ alive = {} /\ HeldClients \subseteq {NoClient}
  BY <1>0, ParkedOne DEF Registry, DemucsTypeOK
<1>2. PICK d \in Spare : Register(u, d)
  BY DEF Spawned
<1>3. d \in Clients /\ d # NoClient /\ tasks[d] = 0 /\ pipe[d] = "quiet"
  BY <1>0, <1>2, DemucsPoolAssumption DEF Spare, Wear
<1>4. clients' = {d} /\ running' = {d} /\ alive' = {d} /\ starting' = FALSE
  BY <1>0, <1>1, <1>2 DEF Register, Spawned
<1>5. \A v \in DemucsUsers : client[v] = NoClient
  BY <1>1 DEF HeldClients
<1>6. /\ UNCHANGED <<slotVars, ended, demucsClosed, tasks, pipe, demucsFaults>>
      /\ woken' = (woken \cup {v \in DemucsUsers : step[v] = "waiting"}) \ {u}
  BY <1>2 DEF Register, PoolStep, Spawned, Broadcast, NoDemucsFault
<1>7. \A v \in DemucsUsers : Starting(v) => v = u
  BY DEF Place, Spawned
<1>8. step[u] \notin HoldingClient \cup {"sleeping", "waiting"}
  BY DEF Spawned, Starting, HoldingClient
<1>9. CASE Keeps(u)
  <2>1. /\ client' = [client EXCEPT ![u] = d] /\ parked' = parked
        /\ step' = [step EXCEPT ![u] = "holding"]
    BY <1>2, <1>9 DEF Register, GetsClient, PoolStep
  <2>2. \A v \in DemucsUsers : client'[v] = IF v = u THEN d ELSE NoClient
    BY <1>5, <2>1 DEF DemucsTypeOK
  <2>3. \A v \in DemucsUsers : step'[v] = IF v = u THEN "holding" ELSE step[v]
    BY <2>1 DEF DemucsTypeOK
  <2>4. HeldClients' \ {NoClient} = {d} /\ HeldClients' \subseteq {d, NoClient}
    BY <1>3, <2>2 DEF HeldClients
  <2>5. Parked' = {}
    BY <1>1, <2>1 DEF Parked
  <2>6. DemucsTypeOK'
    BY <1>3, <1>4, <1>6, <1>8, <2>1, <2>2, <2>3 DEF DemucsTypeOK, Steps, HoldingClient,
       Sleeping, slotVars
  <2>7. Place'
    BY <1>4, <1>7, <2>3 DEF Place, Starting
  <2>8. Registry'
    BY <1>0, <1>1, <1>3, <1>4, <1>6, <2>1, <2>2, <2>4, <2>5 DEF Registry
  <2>9. Wear'
    <3>1. \A v \in DemucsUsers \ {u} : step'[v] \notin {"holding", "calling"}
      BY <1>5, <2>3 DEF DemucsTypeOK, HoldingClient
    <3>2. tasks'[client'[u]] < TasksPerClient
      BY <1>3, <1>6, <2>2, DemucsPoolAssumption
    <3>3. \A e \in Clients \ clients' : tasks'[e] = 0 /\ pipe'[e] = "quiet"
      BY <1>0, <1>6 DEF Wear
    <3> QED
      BY <2>5, <3>1, <3>2, <3>3 DEF Wear
  <2>10. Waits'
    BY <1>6, <2>3 DEF Waits, slotVars
  <2> QED
    BY <2>6, <2>7, <2>8, <2>9, <2>10
<1>10. CASE ~Keeps(u)
  <2>1. client' = client /\ parked' = Append(parked, d) /\ step' = [step EXCEPT ![u] = After(u)]
    BY <1>2, <1>10 DEF Register, PoolStep
  <2>2. After(u) \in {"leaving", "out"}
    BY DEF After
  <2>3. \A v \in DemucsUsers : step'[v] = IF v = u THEN After(u) ELSE step[v]
    BY <2>1 DEF DemucsTypeOK
  <2>4. HeldClients' = HeldClients
    BY <2>1 DEF HeldClients
  <2>5. parked' \in Seq(Clients) /\ Len(parked') = 1 /\ Parked' = {d}
    BY <1>1, <1>3, <2>1, ParkedAppend
  <2>6. DemucsTypeOK'
    BY <1>3, <1>4, <1>6, <1>8, <2>1, <2>2, <2>3, <2>5 DEF DemucsTypeOK, Steps, HoldingClient,
       Sleeping, slotVars
  <2>7. Place'
    BY <1>4, <1>7, <2>2, <2>3 DEF Place, Starting
  <2>8. Registry'
    BY <1>0, <1>1, <1>3, <1>4, <1>5, <1>6, <2>1, <2>4, <2>5 DEF Registry
  <2>9. Wear'
    <3>1. \A v \in DemucsUsers : step'[v] \notin {"holding", "calling"}
      BY <1>5, <2>2, <2>3 DEF DemucsTypeOK, HoldingClient
    <3>2. tasks'[d] < TasksPerClient
      BY <1>3, <1>6, DemucsPoolAssumption
    <3>3. \A e \in Clients \ clients' : tasks'[e] = 0 /\ pipe'[e] = "quiet"
      BY <1>0, <1>6 DEF Wear
    <3> QED
      BY <2>5, <3>1, <3>2, <3>3 DEF Wear
  <2>10. Waits'
    BY <1>6, <2>2, <2>3 DEF Waits, slotVars
  <2> QED
    BY <2>6, <2>7, <2>8, <2>9, <2>10
<1> QED
  BY <1>9, <1>10

LEMMA StepSpawnedTooLate ==
  ASSUME IInv, NEW u \in DemucsUsers, SpawnedTooLate(u)
  PROVE  IInv'
<1> USE DEF IInv
<1>0. \/ parked = <<>> /\ Parked = {}
      \/ parked # <<>> /\ Parked = {Latest} /\ Latest \in Clients /\ Popped = <<>> /\ Popped \in Seq(Clients)
  BY ParkedOne DEF DemucsTypeOK, Registry
<1>p. parked' = parked /\ Parked' = Parked
  BY DEF SpawnedTooLate, Parked, PoolStep, slotVars, registryVars, daemonVars, NoDemucsFault,
     Broadcast, After
<1> USE DEF SpawnedTooLate, PoolStep, slotVars, registryVars, daemonVars, NoDemucsFault,
        Broadcast, After
<1>1. DemucsTypeOK'
  BY <1>0, <1>p, DemucsPoolAssumption DEF DemucsTypeOK, Steps, HoldingClient, Sleeping, Starting
<1>2. Place'
  BY <1>0, <1>p, DemucsPoolAssumption DEF Place, Starting, Registry, DemucsTypeOK, HeldClients,
     HoldingClient
<1>3. Registry'
  BY <1>0, <1>p, DemucsPoolAssumption DEF Registry, DemucsTypeOK, Place, HeldClients, HoldingClient
<1>4. Wear'
  BY <1>0, <1>p, DemucsPoolAssumption DEF Wear, DemucsTypeOK, Place, Registry, HeldClients,
     HoldingClient
<1>5. Waits'
  BY <1>0, <1>p, DemucsPoolAssumption DEF Waits, DemucsTypeOK, Place, Registry, HeldClients,
     HoldingClient, Sleeping
<1> QED
  BY <1>1, <1>2, <1>3, <1>4, <1>5

LEMMA StepSpawnFails ==
  ASSUME IInv, NEW u \in DemucsUsers, SpawnFails(u)
  PROVE  IInv'
<1> USE DEF IInv
<1>0. \/ parked = <<>> /\ Parked = {}
      \/ parked # <<>> /\ Parked = {Latest} /\ Latest \in Clients /\ Popped = <<>> /\ Popped \in Seq(Clients)
  BY ParkedOne DEF DemucsTypeOK, Registry
<1>p. parked' = parked /\ Parked' = Parked
  BY DEF SpawnFails, Parked, PoolStep, slotVars, registryVars, daemonVars, NoDemucsFault,
     Broadcast, After, DemucsFault
<1> USE DEF SpawnFails, PoolStep, slotVars, registryVars, daemonVars, NoDemucsFault, Broadcast,
        After, DemucsFault
<1>1. DemucsTypeOK'
  <2>1. \A v \in DemucsUsers : step'[v] = IF v = u THEN After(u) ELSE step[v]
    BY DEF DemucsTypeOK
  <2>2. After(u) \in {"leaving", "out"} /\ step[u] \in {"starting", "recycling"}
    BY DEF Starting
  <2>3. step' \in [DemucsUsers -> Steps] /\ woken' \subseteq {v \in DemucsUsers : step'[v] = "waiting"}
    BY <2>1, <2>2 DEF DemucsTypeOK, Steps
  <2>4. \A v \in DemucsUsers : step'[v] \in HoldingClient <=> client'[v] # NoClient
    BY <2>1, <2>2 DEF DemucsTypeOK, HoldingClient
  <2>5. notified' \subseteq Sleeping'
    BY <2>1, <2>2 DEF DemucsTypeOK, Sleeping
  <2>6. demucsFaults' \in 0..MaxDemucsFaults
    BY DemucsPoolAssumption DEF DemucsTypeOK
  <2> QED
    BY <1>p, <2>3, <2>4, <2>5, <2>6 DEF DemucsTypeOK
<1>2. Place'
  BY <1>0, <1>p, DemucsPoolAssumption DEF Place, Starting, Registry, DemucsTypeOK, HeldClients,
     HoldingClient
<1>3. Registry'
  BY <1>0, <1>p, DemucsPoolAssumption DEF Registry, DemucsTypeOK, Place, HeldClients, HoldingClient
<1>4. Wear'
  BY <1>0, <1>p, DemucsPoolAssumption DEF Wear, DemucsTypeOK, Place, Registry, HeldClients,
     HoldingClient
<1>5. Waits'
  BY <1>0, <1>p, DemucsPoolAssumption DEF Waits, DemucsTypeOK, Place, Registry, HeldClients,
     HoldingClient, Sleeping
<1> QED
  BY <1>1, <1>2, <1>3, <1>4, <1>5

LEMMA StepAsks ==
  ASSUME IInv, NEW u \in DemucsUsers, Asks(u)
  PROVE  IInv'
<1> USE DEF IInv
<1>0. \/ parked = <<>> /\ Parked = {}
      \/ parked # <<>> /\ Parked = {Latest} /\ Latest \in Clients /\ Popped = <<>> /\ Popped \in Seq(Clients)
  BY ParkedOne DEF DemucsTypeOK, Registry
<1>p. parked' = parked /\ Parked' = Parked
  BY DEF Asks, Parked, PoolStep, slotVars, registryVars, daemonVars, NoDemucsFault
<1> USE DEF Asks, PoolStep, slotVars, registryVars, daemonVars, NoDemucsFault
<1>1. DemucsTypeOK'
  BY <1>0, <1>p, DemucsPoolAssumption DEF DemucsTypeOK, Steps, HoldingClient, Sleeping, Starting
<1>2. Place'
  BY <1>0, <1>p, DemucsPoolAssumption DEF Place, Starting, Registry, DemucsTypeOK, HeldClients,
     HoldingClient
<1>3. Registry'
  BY <1>0, <1>p, DemucsPoolAssumption DEF Registry, DemucsTypeOK, Place, HeldClients, HoldingClient
<1>4. Wear'
  BY <1>0, <1>p, DemucsPoolAssumption DEF Wear, DemucsTypeOK, Place, Registry, HeldClients,
     HoldingClient
<1>5. Waits'
  BY <1>0, <1>p, DemucsPoolAssumption DEF Waits, DemucsTypeOK, Place, Registry, HeldClients,
     HoldingClient, Sleeping
<1> QED
  BY <1>1, <1>2, <1>3, <1>4, <1>5

LEMMA StepCannotAsk ==
  ASSUME IInv, NEW u \in DemucsUsers, CannotAsk(u)
  PROVE  IInv'
<1> USE DEF IInv
<1>0. \/ parked = <<>> /\ Parked = {}
      \/ parked # <<>> /\ Parked = {Latest} /\ Latest \in Clients /\ Popped = <<>> /\ Popped \in Seq(Clients)
  BY ParkedOne DEF DemucsTypeOK, Registry
<1>p. parked' = parked /\ Parked' = Parked
  BY DEF CannotAsk, Parked, PoolStep, slotVars, registryVars, daemonVars, NoDemucsFault, Ends
<1> USE DEF CannotAsk, PoolStep, slotVars, registryVars, daemonVars, NoDemucsFault, Ends
<1>1. DemucsTypeOK'
  BY <1>0, <1>p, DemucsPoolAssumption DEF DemucsTypeOK, Steps, HoldingClient, Sleeping, Starting
<1>2. Place'
  BY <1>0, <1>p, DemucsPoolAssumption DEF Place, Starting, Registry, DemucsTypeOK, HeldClients,
     HoldingClient
<1>3. Registry'
  BY <1>0, <1>p, DemucsPoolAssumption DEF Registry, DemucsTypeOK, Place, HeldClients, HoldingClient
<1>4. Wear'
  BY <1>0, <1>p, DemucsPoolAssumption DEF Wear, DemucsTypeOK, Place, Registry, HeldClients,
     HoldingClient
<1>5. Waits'
  BY <1>0, <1>p, DemucsPoolAssumption DEF Waits, DemucsTypeOK, Place, Registry, HeldClients,
     HoldingClient, Sleeping
<1> QED
  BY <1>1, <1>2, <1>3, <1>4, <1>5

LEMMA StepHears ==
  ASSUME IInv, NEW u \in DemucsUsers, Hears(u)
  PROVE  IInv'
<1> USE DEF IInv
<1>0. \/ parked = <<>> /\ Parked = {}
      \/ parked # <<>> /\ Parked = {Latest} /\ Latest \in Clients /\ Popped = <<>> /\ Popped \in Seq(Clients)
  BY ParkedOne DEF DemucsTypeOK, Registry
<1>p. parked' = parked /\ Parked' = Parked
  BY DEF Hears, Parked, PoolStep, slotVars, registryVars, daemonVars, NoDemucsFault
<1> USE DEF Hears, PoolStep, slotVars, registryVars, daemonVars, NoDemucsFault
<1>1. DemucsTypeOK'
  <2>1. client[u] \in Clients /\ tasks[client[u]] < TasksPerClient
    BY DEF DemucsTypeOK, HoldingClient, Wear
  <2>2. tasks' \in [Clients -> 0..TasksPerClient]
    BY <2>1, DemucsPoolAssumption DEF DemucsTypeOK
  <2>3. pipe' \in [Clients -> {"quiet", "asked", "answered", "refused"}]
    BY DEF DemucsTypeOK
  <2> QED
    BY <1>p, <2>2, <2>3 DEF DemucsTypeOK, Steps, HoldingClient, Sleeping
<1>2. Place'
  BY <1>0, <1>p, DemucsPoolAssumption DEF Place, Starting, Registry, DemucsTypeOK, HeldClients,
     HoldingClient
<1>3. Registry'
  BY <1>0, <1>p, DemucsPoolAssumption DEF Registry, DemucsTypeOK, Place, HeldClients, HoldingClient
<1>4. Wear'
  BY <1>0, <1>p, DemucsPoolAssumption DEF Wear, DemucsTypeOK, Place, Registry, HeldClients,
     HoldingClient
<1>5. Waits'
  BY <1>0, <1>p, DemucsPoolAssumption DEF Waits, DemucsTypeOK, Place, Registry, HeldClients,
     HoldingClient, Sleeping
<1> QED
  BY <1>1, <1>2, <1>3, <1>4, <1>5

LEMMA StepGivesUp ==
  ASSUME IInv, NEW u \in DemucsUsers, GivesUp(u)
  PROVE  IInv'
<1> USE DEF IInv
<1>0. \/ parked = <<>> /\ Parked = {}
      \/ parked # <<>> /\ Parked = {Latest} /\ Latest \in Clients /\ Popped = <<>> /\ Popped \in Seq(Clients)
  BY ParkedOne DEF DemucsTypeOK, Registry
<1>p. parked' = parked /\ Parked' = Parked
  BY DEF GivesUp, Parked, PoolStep, slotVars, registryVars, daemonVars, NoDemucsFault, Ends
<1> USE DEF GivesUp, PoolStep, slotVars, registryVars, daemonVars, NoDemucsFault, Ends
<1>1. DemucsTypeOK'
  BY <1>0, <1>p, DemucsPoolAssumption DEF DemucsTypeOK, Steps, HoldingClient, Sleeping, Starting
<1>2. Place'
  BY <1>0, <1>p, DemucsPoolAssumption DEF Place, Starting, Registry, DemucsTypeOK, HeldClients,
     HoldingClient
<1>3. Registry'
  BY <1>0, <1>p, DemucsPoolAssumption DEF Registry, DemucsTypeOK, Place, HeldClients, HoldingClient
<1>4. Wear'
  BY <1>0, <1>p, DemucsPoolAssumption DEF Wear, DemucsTypeOK, Place, Registry, HeldClients,
     HoldingClient
<1>5. Waits'
  BY <1>0, <1>p, DemucsPoolAssumption DEF Waits, DemucsTypeOK, Place, Registry, HeldClients,
     HoldingClient, Sleeping
<1> QED
  BY <1>1, <1>2, <1>3, <1>4, <1>5

LEMMA StepReleaseClosed ==
  ASSUME IInv, NEW u \in DemucsUsers, ReleaseClosed(u)
  PROVE  IInv'
<1> USE DEF IInv
<1>0. \/ parked = <<>> /\ Parked = {}
      \/ parked # <<>> /\ Parked = {Latest} /\ Latest \in Clients /\ Popped = <<>> /\ Popped \in Seq(Clients)
  BY ParkedOne DEF DemucsTypeOK, Registry
<1>p. parked' = parked /\ Parked' = Parked
  BY DEF ReleaseClosed, Parked, PoolStep, slotVars, registryVars, daemonVars, NoDemucsFault,
     Ends, GetsClient, After, NoBroadcast
<1> USE DEF ReleaseClosed, PoolStep, slotVars, registryVars, daemonVars, NoDemucsFault, Ends,
        GetsClient, After, NoBroadcast
<1>1. DemucsTypeOK'
  BY <1>0, <1>p, DemucsPoolAssumption DEF DemucsTypeOK, Steps, HoldingClient, Sleeping, Starting
<1>2. Place'
  BY <1>0, <1>p, DemucsPoolAssumption DEF Place, Starting, Registry, DemucsTypeOK, HeldClients,
     HoldingClient
<1>3. Registry'
  BY <1>0, <1>p, DemucsPoolAssumption DEF Registry, DemucsTypeOK, Place, HeldClients, HoldingClient
<1>4. Wear'
  BY <1>0, <1>p, DemucsPoolAssumption DEF Wear, DemucsTypeOK, Place, Registry, HeldClients,
     HoldingClient
<1>5. Waits'
  BY <1>0, <1>p, DemucsPoolAssumption DEF Waits, DemucsTypeOK, Place, Registry, HeldClients,
     HoldingClient, Sleeping
<1> QED
  BY <1>1, <1>2, <1>3, <1>4, <1>5

LEMMA StepRecycle ==
  ASSUME IInv, NEW u \in DemucsUsers, Recycle(u)
  PROVE  IInv'
<1> USE DEF IInv
<1>0. \/ parked = <<>> /\ Parked = {}
      \/ parked # <<>> /\ Parked = {Latest} /\ Latest \in Clients /\ Popped = <<>> /\ Popped \in Seq(Clients)
  BY ParkedOne DEF DemucsTypeOK, Registry
<1>p. parked' = parked /\ Parked' = Parked
  BY DEF Recycle, Parked, PoolStep, slotVars, registryVars, daemonVars, NoDemucsFault, Ends,
     GetsClient, NoBroadcast
<1> USE DEF Recycle, PoolStep, slotVars, registryVars, daemonVars, NoDemucsFault, Ends,
        GetsClient, NoBroadcast
<1>1. DemucsTypeOK'
  BY <1>0, <1>p, DemucsPoolAssumption DEF DemucsTypeOK, Steps, HoldingClient, Sleeping, Starting
<1>2. Place'
  <2>0a. client[u] \in Clients /\ client[u] \in HeldClients /\ client[u] # NoClient
    BY DEF DemucsTypeOK, HoldingClient, HeldClients
  <2>0. client[u] \in clients /\ clients = {client[u]}
    BY <2>0a DEF Registry, Place
  <2>2. ~starting /\ clients' = {}
    BY <2>0 DEF Place
  <2>3. \A v \in DemucsUsers : ~Starting(v)
    BY <2>2 DEF Place
  <2>4. \A v \in DemucsUsers : Starting(v)' <=> v = u
    BY <2>3 DEF Starting, DemucsTypeOK
  <2> QED
    BY <2>2, <2>4 DEF Place
<1>3. Registry'
  BY <1>0, <1>p, DemucsPoolAssumption DEF Registry, DemucsTypeOK, Place, HeldClients, HoldingClient
<1>4. Wear'
  BY <1>0, <1>p, DemucsPoolAssumption DEF Wear, DemucsTypeOK, Place, Registry, HeldClients,
     HoldingClient
<1>5. Waits'
  BY <1>0, <1>p, DemucsPoolAssumption DEF Waits, DemucsTypeOK, Place, Registry, HeldClients,
     HoldingClient, Sleeping
<1> QED
  BY <1>1, <1>2, <1>3, <1>4, <1>5

LEMMA StepPark ==
  ASSUME IInv, NEW u \in DemucsUsers, Park(u)
  PROVE  IInv'
<1> USE DEF IInv
<1>0. \/ parked = <<>> /\ Parked = {}
      \/ parked # <<>> /\ Parked = {Latest} /\ Latest \in Clients /\ Popped = <<>> /\ Popped \in Seq(Clients)
  BY ParkedOne DEF DemucsTypeOK, Registry
<1> USE DEF Park, PoolStep, slotVars, registryVars, daemonVars, NoDemucsFault, Broadcast,
        GetsClient, After
<1>1. DemucsTypeOK'
  BY <1>0, DemucsPoolAssumption DEF DemucsTypeOK, Steps, HoldingClient, Sleeping, Starting
<1>2. Place'
  BY <1>0, DemucsPoolAssumption DEF Place, Starting, Registry, DemucsTypeOK, HeldClients,
     HoldingClient
<1>3. Registry'
  <2>1a. client[u] \in Clients /\ client[u] \in HeldClients /\ client[u] # NoClient
    BY DEF DemucsTypeOK, HoldingClient, HeldClients
  <2>1. client[u] \in Clients /\ clients = {client[u]}
    BY <2>1a DEF Registry, Place
  <2>2. parked = <<>>
    BY <1>0, <2>1 DEF Registry, HeldClients
  <2>3. parked' \in Seq(Clients) /\ Len(parked') = 1 /\ Parked' = {client[u]}
    BY <2>1, <2>2, ParkedAppend
  <2>4. \A v \in DemucsUsers : client'[v] = IF v = u THEN NoClient ELSE client[v]
    BY DEF DemucsTypeOK
  <2>5. \A v \in DemucsUsers : client'[v] = NoClient
    BY <2>1, <2>4 DEF Registry, HeldClients
  <2>6. HeldClients' \subseteq {NoClient}
    BY <2>5 DEF HeldClients
  <2> QED
    BY <2>1, <2>3, <2>5, <2>6, DemucsPoolAssumption DEF Registry
<1>4. Wear'
  <2>1a. client[u] \in Clients /\ client[u] \in HeldClients /\ client[u] # NoClient
    BY DEF DemucsTypeOK, HoldingClient, HeldClients
  <2>1. client[u] \in Clients /\ clients = {client[u]}
    BY <2>1a DEF Registry, Place
  <2>2. parked = <<>>
    BY <1>0, <2>1 DEF Registry, HeldClients
  <2>3. parked' \in Seq(Clients) /\ Len(parked') = 1 /\ Parked' = {client[u]}
    BY <2>1, <2>2, ParkedAppend
  <2>4. \A v \in DemucsUsers : v # u => step'[v] = step[v] /\ client'[v] = client[v]
    BY DEF DemucsTypeOK
  <2>5. step'[u] \notin {"holding", "calling"}
    BY DEF DemucsTypeOK
  <2> QED
    BY <2>1, <2>3, <2>4, <2>5 DEF Wear
<1>5. Waits'
  BY <1>0, DemucsPoolAssumption DEF Waits, DemucsTypeOK, Place, Registry, HeldClients,
     HoldingClient, Sleeping
<1> QED
  BY <1>1, <1>2, <1>3, <1>4, <1>5

LEMMA StepContextEnds ==
  ASSUME IInv, NEW u \in DemucsUsers, ContextEnds(u)
  PROVE  IInv'
<1> USE DEF IInv
<1>0. \/ parked = <<>> /\ Parked = {}
      \/ parked # <<>> /\ Parked = {Latest} /\ Latest \in Clients /\ Popped = <<>> /\ Popped \in Seq(Clients)
  BY ParkedOne DEF DemucsTypeOK, Registry
<1>p. parked' = parked /\ Parked' = Parked
  BY DEF ContextEnds, Parked, DemucsFault, PoolStep, slotVars, registryVars, daemonVars,
     NoDemucsFault
<1> USE DEF ContextEnds, DemucsFault, PoolStep, slotVars, registryVars, daemonVars, NoDemucsFault
<1>1. DemucsTypeOK'
  BY <1>0, <1>p, DemucsPoolAssumption DEF DemucsTypeOK, Steps, HoldingClient, Sleeping, Starting
<1>2. Place'
  BY <1>0, <1>p, DemucsPoolAssumption DEF Place, Starting, Registry, DemucsTypeOK, HeldClients,
     HoldingClient
<1>3. Registry'
  BY <1>0, <1>p, DemucsPoolAssumption DEF Registry, DemucsTypeOK, Place, HeldClients, HoldingClient
<1>4. Wear'
  BY <1>0, <1>p, DemucsPoolAssumption DEF Wear, DemucsTypeOK, Place, Registry, HeldClients,
     HoldingClient
<1>5. Waits'
  BY <1>0, <1>p, DemucsPoolAssumption DEF Waits, DemucsTypeOK, Place, Registry, HeldClients,
     HoldingClient, Sleeping
<1> QED
  BY <1>1, <1>2, <1>3, <1>4, <1>5

LEMMA StepWorks ==
  ASSUME IInv, NEW d \in Clients, Works(d)
  PROVE  IInv'
<1> USE DEF IInv
<1>0. \/ parked = <<>> /\ Parked = {}
      \/ parked # <<>> /\ Parked = {Latest} /\ Latest \in Clients /\ Popped = <<>> /\ Popped \in Seq(Clients)
  BY ParkedOne DEF DemucsTypeOK, Registry
<1>p. parked' = parked /\ Parked' = Parked
  BY DEF Works, Parked, PoolStep, slotVars, registryVars, daemonVars, NoDemucsFault
<1> USE DEF Works, PoolStep, slotVars, registryVars, daemonVars, NoDemucsFault
<1>1. DemucsTypeOK'
  BY <1>0, <1>p, DemucsPoolAssumption DEF DemucsTypeOK, Steps, HoldingClient, Sleeping, Starting
<1>2. Place'
  BY <1>0, <1>p, DemucsPoolAssumption DEF Place, Starting, Registry, DemucsTypeOK, HeldClients,
     HoldingClient
<1>3. Registry'
  BY <1>0, <1>p, DemucsPoolAssumption DEF Registry, DemucsTypeOK, Place, HeldClients, HoldingClient
<1>4. Wear'
  BY <1>0, <1>p, DemucsPoolAssumption DEF Wear, DemucsTypeOK, Place, Registry, HeldClients,
     HoldingClient
<1>5. Waits'
  BY <1>0, <1>p, DemucsPoolAssumption DEF Waits, DemucsTypeOK, Place, Registry, HeldClients,
     HoldingClient, Sleeping
<1> QED
  BY <1>1, <1>2, <1>3, <1>4, <1>5

LEMMA StepWorkFails ==
  ASSUME IInv, NEW d \in Clients, WorkFails(d)
  PROVE  IInv'
<1> USE DEF IInv
<1>0. \/ parked = <<>> /\ Parked = {}
      \/ parked # <<>> /\ Parked = {Latest} /\ Latest \in Clients /\ Popped = <<>> /\ Popped \in Seq(Clients)
  BY ParkedOne DEF DemucsTypeOK, Registry
<1>p. parked' = parked /\ Parked' = Parked
  BY DEF WorkFails, Parked, DemucsFault, PoolStep, slotVars, registryVars, daemonVars, NoDemucsFault
<1> USE DEF WorkFails, DemucsFault, PoolStep, slotVars, registryVars, daemonVars, NoDemucsFault
<1>1. DemucsTypeOK'
  BY <1>0, <1>p, DemucsPoolAssumption DEF DemucsTypeOK, Steps, HoldingClient, Sleeping, Starting
<1>2. Place'
  BY <1>0, <1>p, DemucsPoolAssumption DEF Place, Starting, Registry, DemucsTypeOK, HeldClients,
     HoldingClient
<1>3. Registry'
  BY <1>0, <1>p, DemucsPoolAssumption DEF Registry, DemucsTypeOK, Place, HeldClients, HoldingClient
<1>4. Wear'
  BY <1>0, <1>p, DemucsPoolAssumption DEF Wear, DemucsTypeOK, Place, Registry, HeldClients,
     HoldingClient
<1>5. Waits'
  BY <1>0, <1>p, DemucsPoolAssumption DEF Waits, DemucsTypeOK, Place, Registry, HeldClients,
     HoldingClient, Sleeping
<1> QED
  BY <1>1, <1>2, <1>3, <1>4, <1>5

LEMMA StepDaemonDies ==
  ASSUME IInv, NEW d \in Clients, DaemonDies(d)
  PROVE  IInv'
<1> USE DEF IInv
<1>0. \/ parked = <<>> /\ Parked = {}
      \/ parked # <<>> /\ Parked = {Latest} /\ Latest \in Clients /\ Popped = <<>> /\ Popped \in Seq(Clients)
  BY ParkedOne DEF DemucsTypeOK, Registry
<1>p. parked' = parked /\ Parked' = Parked
  BY DEF DaemonDies, Parked, DemucsFault, PoolStep, slotVars, registryVars, daemonVars,
     NoDemucsFault
<1> USE DEF DaemonDies, DemucsFault, PoolStep, slotVars, registryVars, daemonVars, NoDemucsFault
<1>1. DemucsTypeOK'
  BY <1>0, <1>p, DemucsPoolAssumption DEF DemucsTypeOK, Steps, HoldingClient, Sleeping, Starting
<1>2. Place'
  BY <1>0, <1>p, DemucsPoolAssumption DEF Place, Starting, Registry, DemucsTypeOK, HeldClients,
     HoldingClient
<1>3. Registry'
  BY <1>0, <1>p, DemucsPoolAssumption DEF Registry, DemucsTypeOK, Place, HeldClients, HoldingClient
<1>4. Wear'
  BY <1>0, <1>p, DemucsPoolAssumption DEF Wear, DemucsTypeOK, Place, Registry, HeldClients,
     HoldingClient
<1>5. Waits'
  BY <1>0, <1>p, DemucsPoolAssumption DEF Waits, DemucsTypeOK, Place, Registry, HeldClients,
     HoldingClient, Sleeping
<1> QED
  BY <1>1, <1>2, <1>3, <1>4, <1>5

LEMMA StepLowerLimit ==
  ASSUME IInv, LowerLimit
  PROVE  IInv'
<1> USE DEF IInv
<1>0. \/ parked = <<>> /\ Parked = {}
      \/ parked # <<>> /\ Parked = {Latest} /\ Latest \in Clients /\ Popped = <<>> /\ Popped \in Seq(Clients)
  BY ParkedOne DEF DemucsTypeOK, Registry
<1>p. parked' = parked /\ Parked' = Parked
  BY DEF LowerLimit, Parked, PoolStep, slotVars, registryVars, daemonVars, NoDemucsFault
<1> USE DEF LowerLimit, PoolStep, slotVars, registryVars, daemonVars, NoDemucsFault
<1>1. DemucsTypeOK'
  BY <1>0, <1>p, DemucsPoolAssumption DEF DemucsTypeOK, Steps, HoldingClient, Sleeping, Starting
<1>2. Place'
  BY <1>0, <1>p, DemucsPoolAssumption DEF Place, Starting, Registry, DemucsTypeOK, HeldClients,
     HoldingClient
<1>3. Registry'
  BY <1>0, <1>p, DemucsPoolAssumption DEF Registry, DemucsTypeOK, Place, HeldClients, HoldingClient
<1>4. Wear'
  BY <1>0, <1>p, DemucsPoolAssumption DEF Wear, DemucsTypeOK, Place, Registry, HeldClients,
     HoldingClient
<1>5. Waits'
  BY <1>0, <1>p, DemucsPoolAssumption DEF Waits, DemucsTypeOK, Place, Registry, HeldClients,
     HoldingClient, Sleeping
<1> QED
  BY <1>1, <1>2, <1>3, <1>4, <1>5

LEMMA StepCloseDemucs ==
  ASSUME IInv, CloseDemucs
  PROVE  IInv'
<1> USE DEF IInv
<1>0. \/ parked = <<>> /\ Parked = {}
      \/ parked # <<>> /\ Parked = {Latest} /\ Latest \in Clients /\ Popped = <<>> /\ Popped \in Seq(Clients)
  BY ParkedOne DEF DemucsTypeOK, Registry
<1>p. parked' = <<>> /\ parked' \in Seq(Clients) /\ Len(parked') = 0 /\ Parked' = {}
  BY <1>0, EmptyParked DEF CloseDemucs, PoolStep, slotVars, registryVars, daemonVars,
     NoDemucsFault, Ends
<1> USE DEF CloseDemucs, PoolStep, slotVars, registryVars, daemonVars, NoDemucsFault, Ends
<1>1. DemucsTypeOK'
  BY <1>0, <1>p, DemucsPoolAssumption DEF DemucsTypeOK, Steps, HoldingClient, Sleeping, Starting
<1>2. Place'
  BY <1>0, <1>p, DemucsPoolAssumption DEF Place, Starting, Registry, DemucsTypeOK, HeldClients,
     HoldingClient
<1>3. Registry'
  BY <1>0, <1>p, DemucsPoolAssumption DEF Registry, DemucsTypeOK, Place, HeldClients, HoldingClient
<1>4. Wear'
  BY <1>0, <1>p, DemucsPoolAssumption DEF Wear, DemucsTypeOK, Place, Registry, HeldClients,
     HoldingClient
<1>5. Waits'
  BY <1>0, <1>p, DemucsPoolAssumption DEF Waits, DemucsTypeOK, Place, Registry, HeldClients,
     HoldingClient, Sleeping
<1> QED
  BY <1>1, <1>2, <1>3, <1>4, <1>5

\* Every step of the pool keeps the invariant.
LEMMA NextIInv == IInv /\ [DemucsNext]_demucsVars => IInv'
<1> SUFFICES ASSUME IInv, [DemucsNext]_demucsVars PROVE IInv'
  OBVIOUS
<1>1. ASSUME UNCHANGED demucsVars PROVE IInv'
  <2> USE <1>1 DEF IInv, demucsVars, slotVars, registryVars, daemonVars
  <2>1. DemucsTypeOK'
    BY DEF DemucsTypeOK, Sleeping
  <2>2. Place'
    BY DEF Place, Starting
  <2>3. Registry'
    BY DEF Registry, Parked, HeldClients
  <2>4. Wear'
    BY DEF Wear, Parked
  <2>5. Waits'
    BY DEF Waits
  <2> QED
    BY <2>1, <2>2, <2>3, <2>4, <2>5
<1>2. ASSUME NEW u \in DemucsUsers, Begins(u) PROVE IInv'
  BY <1>2, StepBegins
<1>3. ASSUME NEW u \in DemucsUsers, TakeSlot(u) PROVE IInv'
  BY <1>3, StepTakeSlot
<1>4. ASSUME NEW u \in DemucsUsers, WaitForSlot(u) PROVE IInv'
  BY <1>4, StepWaitForSlot
<1>5. ASSUME NEW u \in DemucsUsers, SlotExpired(u) PROVE IInv'
  BY <1>5, StepSlotExpired
<1>6. ASSUME NEW u \in DemucsUsers, ReleaseSlot(u) PROVE IInv'
  BY <1>6, StepReleaseSlot
<1>7. ASSUME NEW u \in DemucsUsers, Rejected(u) PROVE IInv'
  BY <1>7, StepRejected
<1>8. ASSUME NEW u \in DemucsUsers, Prewarmed(u) PROVE IInv'
  BY <1>8, StepPrewarmed
<1>9. ASSUME NEW u \in DemucsUsers, TakeParked(u) PROVE IInv'
  BY <1>9, StepTakeParked
<1>10. ASSUME NEW u \in DemucsUsers, Restart(u) PROVE IInv'
  BY <1>10, StepRestart
<1>11. ASSUME NEW u \in DemucsUsers, StartNew(u) PROVE IInv'
  BY <1>11, StepStartNew
<1>12. ASSUME NEW u \in DemucsUsers, WaitForChange(u) PROVE IInv'
  BY <1>12, StepWaitForChange
<1>13. ASSUME NEW u \in DemucsUsers, WakeExpired(u) PROVE IInv'
  BY <1>13, StepWakeExpired
<1>14. ASSUME NEW u \in DemucsUsers, Spawned(u) PROVE IInv'
  BY <1>14, StepSpawned
<1>15. ASSUME NEW u \in DemucsUsers, SpawnedTooLate(u) PROVE IInv'
  BY <1>15, StepSpawnedTooLate
<1>16. ASSUME NEW u \in DemucsUsers, SpawnFails(u) PROVE IInv'
  BY <1>16, StepSpawnFails
<1>17. ASSUME NEW u \in DemucsUsers, Asks(u) PROVE IInv'
  BY <1>17, StepAsks
<1>18. ASSUME NEW u \in DemucsUsers, CannotAsk(u) PROVE IInv'
  BY <1>18, StepCannotAsk
<1>19. ASSUME NEW u \in DemucsUsers, Hears(u) PROVE IInv'
  BY <1>19, StepHears
<1>20. ASSUME NEW u \in DemucsUsers, GivesUp(u) PROVE IInv'
  BY <1>20, StepGivesUp
<1>21. ASSUME NEW u \in DemucsUsers, ReleaseClosed(u) PROVE IInv'
  BY <1>21, StepReleaseClosed
<1>22. ASSUME NEW u \in DemucsUsers, Recycle(u) PROVE IInv'
  BY <1>22, StepRecycle
<1>23. ASSUME NEW u \in DemucsUsers, Park(u) PROVE IInv'
  BY <1>23, StepPark
<1>24. ASSUME NEW u \in DemucsUsers, ContextEnds(u) PROVE IInv'
  BY <1>24, StepContextEnds
<1>25. ASSUME NEW d \in Clients, Works(d) PROVE IInv'
  BY <1>25, StepWorks
<1>26. ASSUME NEW d \in Clients, WorkFails(d) PROVE IInv'
  BY <1>26, StepWorkFails
<1>27. ASSUME NEW d \in Clients, DaemonDies(d) PROVE IInv'
  BY <1>27, StepDaemonDies
<1>28. ASSUME LowerLimit PROVE IInv'
  BY <1>28, StepLowerLimit
<1>29. ASSUME CloseDemucs PROVE IInv'
  BY <1>29, StepCloseDemucs
<1> QED
  BY <1>1, <1>2, <1>3, <1>4, <1>5, <1>6, <1>7, <1>8, <1>9, <1>10, <1>11, <1>12, <1>13, <1>14,
     <1>15, <1>16, <1>17, <1>18, <1>19, <1>20, <1>21, <1>22, <1>23, <1>24, <1>25, <1>26, <1>27,
     <1>28, <1>29 DEF DemucsNext, AcquireClient

LEMMA PoolInvariance == DemucsSpec => []IInv
BY InitIInv, NextIInv, PTL DEF DemucsSpec

\* Types of the pool and the semaphore, and no daemon serves more than its share
\* (demucs_daemon.go: taskCount).
THEOREM PoolTypes == DemucsSpec => []DemucsTypeOK
<1>1. IInv => DemucsTypeOK
  BY DEF IInv
<1> QED
  BY <1>1, PoolInvariance, PTL

\* The two counts of OneGPUPlace, from the invariant without counts.
LEMMA PlaceCounts ==
  ASSUME Place
  PROVE  Cardinality(clients) + Cardinality({u \in DemucsUsers : Starting(u)}) <= 1
<1> DEFINE Starters == {u \in DemucsUsers : Starting(u)}
<1>0. Cardinality({}) = 0
  BY FS_EmptySet
<1>a. Cardinality(clients) + Cardinality(Starters) <= 1
  <2>1. CASE starting
    <3>1. PICK u \in DemucsUsers : Starters = {u}
      BY <2>1 DEF Place
    <3>2. Cardinality(Starters) = 1
      BY <3>1, FS_Singleton
    <3>3. clients = {}
      BY <2>1 DEF Place
    <3>4. Cardinality(clients) = 0
      BY <3>3, <1>0
    <3> HIDE DEF Starters
    <3> QED
      BY <3>2, <3>4
  <2>2. CASE ~starting
    <3>1. Starters = {}
      BY <2>2 DEF Place
    <3>2. Cardinality(Starters) = 0
      BY <3>1, <1>0
    <3>3. Cardinality(clients) \in {0, 1}
      <4>1. CASE clients = {}
        BY <4>1, <1>0
      <4>2. ASSUME NEW d \in clients PROVE Cardinality(clients) \in {0, 1}
        <5>1. clients = {d}
          BY DEF Place
        <5> QED
          BY <5>1, FS_Singleton
      <4> QED
        BY <4>1, <4>2
    <3> HIDE DEF Starters
    <3> QED
      BY <3>2, <3>3
  <2> QED
    BY <2>1, <2>2
<1> QED
  BY <1>a

LEMMA RunningCount ==
  ASSUME Place, running \subseteq clients
  PROVE  Cardinality(running) <= 1
<1>1. CASE running = {}
  BY <1>1, FS_EmptySet
<1>2. ASSUME NEW d \in running PROVE Cardinality(running) <= 1
  <2>1. running = {d}
    BY DEF Place
  <2>2. Cardinality({d}) = 1
    BY FS_Singleton
  <2> QED
    BY <2>1, <2>2
<1> QED
  BY <1>1, <1>2

\* One daemon at a time is on the GPU, listed, parked, held or being started, for any
\* users, restarts, recyclings and faults (demucs_daemon.go:535-563, 593-608).
THEOREM OnePlace == DemucsSpec => []OneGPUPlace
<1>1. IInv => OneGPUPlace
  BY PlaceCounts, RunningCount DEF IInv, OneGPUPlace, Place, Registry
<1> QED
  BY <1>1, PoolInvariance, PTL

\* After Close no process lives, wherever the daemon was (demucs_daemon.go:485, 587, 656).
THEOREM DeadAfterClose == DemucsSpec => []ClosedIsDead
<1>1. IInv => ClosedIsDead
  BY DEF IInv, Registry, ClosedIsDead
<1> QED
  BY <1>1, PoolInvariance, PTL

LEMMA InitCount == DemucsInit => Count
<1> SUFFICES ASSUME DemucsInit PROVE Count
  OBVIOUS
<1>1. \A u \in DemucsUsers : step[u] = IF u \in Prewarmers THEN "entering" ELSE "out"
  BY DEF DemucsInit
<1>2. Owners = {}
  BY <1>1, DemucsPoolAssumption DEF Owners, DemucsUsers
<1> QED
  BY <1>1, <1>2, FS_EmptySet DEF Count, DemucsInit

LEMMA TakeCounts ==
  ASSUME IInv, Count, NEW u \in DemucsUsers, TakeSlot(u)
  PROVE  Count'
<1>1. u \in Separators /\ u \notin Owners
  BY DEF Count, TakeSlot, Looks, Owners
<1>2. inUse' = inUse + 1 /\ \A v \in DemucsUsers : step'[v] = IF v = u THEN "entering" ELSE step[v]
  BY DEF TakeSlot, SlotResult, IInv, DemucsTypeOK
<1>3. Owners' = Owners \cup {u}
  BY <1>1, <1>2 DEF Owners, DemucsUsers
<1>4. IsFiniteSet(Owners') /\ Cardinality(Owners') = Cardinality(Owners) + 1
  BY <1>1, <1>3, FS_AddElement DEF Count
<1> QED
  BY <1>2, <1>4 DEF Count

LEMMA ReleaseCounts ==
  ASSUME IInv, Count, NEW u \in DemucsUsers, ReleaseSlot(u)
  PROVE  Count'
<1>1. u \in Owners
  BY DEF Count, ReleaseSlot, Goes, Owners
<1>2. inUse' = Less(inUse) /\ \A v \in DemucsUsers : step'[v] = IF v = u THEN "out" ELSE step[v]
  BY DEF ReleaseSlot, Goes, IInv, DemucsTypeOK
<1>3. Owners' = Owners \ {u}
  BY <1>2 DEF Owners, DemucsUsers
<1>4. IsFiniteSet(Owners') /\ Cardinality(Owners') = Cardinality(Owners) - 1
  BY <1>1, <1>3, FS_RemoveElement DEF Count
<1>5. Cardinality(Owners) \in Nat /\ Cardinality(Owners) # 0
  BY <1>1, FS_CardinalityType, FS_EmptySet DEF Count
<1>6. inUse' = Cardinality(Owners')
  BY <1>2, <1>4, <1>5 DEF Less, Count
<1> QED
  BY <1>2, <1>4, <1>6 DEF Count

\* No other step touches a slot or its owner.
LEMMA OthersCount ==
  ASSUME IInv, Count, [DemucsNext]_demucsVars,
         \A u \in DemucsUsers : ~TakeSlot(u) /\ ~ReleaseSlot(u)
  PROVE  Count'
<1> DEFINE Outside == {"out", "queueing", "sleeping"}
<1> DEFINE Fit(u) == step'[u] \in {"queueing", "sleeping", "leaving"} => u \in Separators
<1> DEFINE Kept(u) == u \in Separators => (step'[u] \in Outside <=> step[u] \in Outside)
<1> SUFFICES /\ inUse' = inUse
             /\ \A v \in DemucsUsers : Fit(v) /\ Kept(v)
  <2>1. ASSUME \A v \in DemucsUsers : Kept(v) PROVE Owners' = Owners
    BY <2>1 DEF Owners, DemucsUsers
  <2> QED
    BY <2>1 DEF Count
<1> USE DEF Count
<1>1. CASE UNCHANGED demucsVars
  BY <1>1 DEF demucsVars, slotVars
<1>2. ASSUME NEW u \in DemucsUsers, Begins(u)
      PROVE  inUse' = inUse /\ \A v \in DemucsUsers : Fit(v) /\ Kept(v)
  BY <1>2, DemucsPoolAssumption DEF Begins, SlotStep, slotVars, registryVars, daemonVars,
     NoDemucsFault, Goes, DemucsUsers, IInv, DemucsTypeOK, Starting
<1>3. ASSUME NEW u \in DemucsUsers, WaitForSlot(u)
      PROVE  inUse' = inUse /\ \A v \in DemucsUsers : Fit(v) /\ Kept(v)
  BY <1>3, DemucsPoolAssumption DEF WaitForSlot, SlotStep, slotVars, registryVars, daemonVars,
     NoDemucsFault, SlotResult, Looks, DemucsUsers, IInv, DemucsTypeOK, Starting
<1>4. ASSUME NEW u \in DemucsUsers, SlotExpired(u)
      PROVE  inUse' = inUse /\ \A v \in DemucsUsers : Fit(v) /\ Kept(v)
  BY <1>4, DemucsPoolAssumption DEF SlotExpired, SlotStep, slotVars, registryVars, daemonVars,
     NoDemucsFault, SlotResult, Looks, DemucsUsers, IInv, DemucsTypeOK, Starting
<1>5. ASSUME NEW u \in DemucsUsers, Rejected(u)
      PROVE  inUse' = inUse /\ \A v \in DemucsUsers : Fit(v) /\ Kept(v)
  BY <1>5, DemucsPoolAssumption DEF Rejected, PoolStep, slotVars, registryVars, daemonVars,
     NoDemucsFault, Enters, NoBroadcast, After, DemucsUsers, IInv, DemucsTypeOK, Starting
<1>6. ASSUME NEW u \in DemucsUsers, Prewarmed(u)
      PROVE  inUse' = inUse /\ \A v \in DemucsUsers : Fit(v) /\ Kept(v)
  BY <1>6, DemucsPoolAssumption DEF Prewarmed, PoolStep, slotVars, registryVars, daemonVars,
     NoDemucsFault, Enters, NoBroadcast, DemucsUsers, IInv, DemucsTypeOK, Starting
<1>7. ASSUME NEW u \in DemucsUsers, TakeParked(u)
      PROVE  inUse' = inUse /\ \A v \in DemucsUsers : Fit(v) /\ Kept(v)
  BY <1>7, DemucsPoolAssumption DEF TakeParked, PoolStep, slotVars, registryVars, daemonVars,
     NoDemucsFault, Admitted, Enters, NoBroadcast, GetsClient, DemucsUsers, IInv, DemucsTypeOK,
     Starting
<1>8. ASSUME NEW u \in DemucsUsers, Restart(u)
      PROVE  inUse' = inUse /\ \A v \in DemucsUsers : Fit(v) /\ Kept(v)
  BY <1>8, DemucsPoolAssumption DEF Restart, PoolStep, slotVars, registryVars, daemonVars,
     NoDemucsFault, Admitted, Enters, NoBroadcast, Ends, DemucsUsers, IInv, DemucsTypeOK,
     Starting
<1>9. ASSUME NEW u \in DemucsUsers, StartNew(u)
      PROVE  inUse' = inUse /\ \A v \in DemucsUsers : Fit(v) /\ Kept(v)
  BY <1>9, DemucsPoolAssumption DEF StartNew, PoolStep, slotVars, registryVars, daemonVars,
     NoDemucsFault, Admitted, Enters, NoBroadcast, DemucsUsers, IInv, DemucsTypeOK, Starting
<1>10. ASSUME NEW u \in DemucsUsers, WaitForChange(u)
      PROVE  inUse' = inUse /\ \A v \in DemucsUsers : Fit(v) /\ Kept(v)
  BY <1>10, DemucsPoolAssumption DEF WaitForChange, PoolStep, slotVars, registryVars,
     daemonVars, NoDemucsFault, Admitted, Enters, NoBroadcast, DemucsUsers, IInv, DemucsTypeOK,
     Starting
<1>11. ASSUME NEW u \in DemucsUsers, WakeExpired(u)
      PROVE  inUse' = inUse /\ \A v \in DemucsUsers : Fit(v) /\ Kept(v)
  BY <1>11, DemucsPoolAssumption DEF WakeExpired, PoolStep, slotVars, registryVars, daemonVars,
     NoDemucsFault, DemucsUsers, IInv, DemucsTypeOK, Starting
<1>12. ASSUME NEW u \in DemucsUsers, Spawned(u)
      PROVE  inUse' = inUse /\ \A v \in DemucsUsers : Fit(v) /\ Kept(v)
  BY <1>12, DemucsPoolAssumption DEF Spawned, PoolStep, slotVars, registryVars, daemonVars,
     NoDemucsFault, Broadcast, Register, Keeps, GetsClient, After, Spare, DemucsUsers, IInv,
     DemucsTypeOK, Starting
<1>13. ASSUME NEW u \in DemucsUsers, SpawnedTooLate(u)
      PROVE  inUse' = inUse /\ \A v \in DemucsUsers : Fit(v) /\ Kept(v)
  BY <1>13, DemucsPoolAssumption DEF SpawnedTooLate, PoolStep, slotVars, registryVars,
     daemonVars, NoDemucsFault, Broadcast, After, DemucsUsers, IInv, DemucsTypeOK, Starting
<1>14. ASSUME NEW u \in DemucsUsers, SpawnFails(u)
      PROVE  inUse' = inUse /\ \A v \in DemucsUsers : Fit(v) /\ Kept(v)
  BY <1>14, DemucsPoolAssumption DEF SpawnFails, PoolStep, slotVars, registryVars, daemonVars,
     NoDemucsFault, Broadcast, After, DemucsFault, DemucsUsers, IInv, DemucsTypeOK, Starting
<1>15. ASSUME NEW u \in DemucsUsers, Asks(u)
      PROVE  inUse' = inUse /\ \A v \in DemucsUsers : Fit(v) /\ Kept(v)
  BY <1>15, DemucsPoolAssumption DEF Asks, PoolStep, slotVars, registryVars, daemonVars,
     NoDemucsFault, DemucsUsers, IInv, DemucsTypeOK, Starting
<1>16. ASSUME NEW u \in DemucsUsers, CannotAsk(u)
      PROVE  inUse' = inUse /\ \A v \in DemucsUsers : Fit(v) /\ Kept(v)
  BY <1>16, DemucsPoolAssumption DEF CannotAsk, PoolStep, slotVars, registryVars, daemonVars,
     NoDemucsFault, Ends, DemucsUsers, IInv, DemucsTypeOK, Starting
<1>17. ASSUME NEW u \in DemucsUsers, Hears(u)
      PROVE  inUse' = inUse /\ \A v \in DemucsUsers : Fit(v) /\ Kept(v)
  BY <1>17, DemucsPoolAssumption DEF Hears, PoolStep, slotVars, registryVars, daemonVars,
     NoDemucsFault, DemucsUsers, IInv, DemucsTypeOK, Starting
<1>18. ASSUME NEW u \in DemucsUsers, GivesUp(u)
      PROVE  inUse' = inUse /\ \A v \in DemucsUsers : Fit(v) /\ Kept(v)
  BY <1>18, DemucsPoolAssumption DEF GivesUp, PoolStep, slotVars, registryVars, daemonVars,
     NoDemucsFault, Ends, DemucsUsers, IInv, DemucsTypeOK, Starting
<1>19. ASSUME NEW u \in DemucsUsers, ReleaseClosed(u)
      PROVE  inUse' = inUse /\ \A v \in DemucsUsers : Fit(v) /\ Kept(v)
  BY <1>19, DemucsPoolAssumption DEF ReleaseClosed, PoolStep, slotVars, registryVars,
     daemonVars, NoDemucsFault, Ends, GetsClient, After, NoBroadcast, DemucsUsers, IInv,
     DemucsTypeOK, Starting
<1>20. ASSUME NEW u \in DemucsUsers, Recycle(u)
      PROVE  inUse' = inUse /\ \A v \in DemucsUsers : Fit(v) /\ Kept(v)
  BY <1>20, DemucsPoolAssumption DEF Recycle, PoolStep, slotVars, registryVars, daemonVars,
     NoDemucsFault, Ends, GetsClient, NoBroadcast, DemucsUsers, IInv, DemucsTypeOK, Starting
<1>21. ASSUME NEW u \in DemucsUsers, Park(u)
      PROVE  inUse' = inUse /\ \A v \in DemucsUsers : Fit(v) /\ Kept(v)
  BY <1>21, DemucsPoolAssumption DEF Park, PoolStep, slotVars, registryVars, daemonVars,
     NoDemucsFault, Broadcast, GetsClient, After, DemucsUsers, IInv, DemucsTypeOK, Starting
<1>22. ASSUME NEW u \in DemucsUsers, ContextEnds(u)
      PROVE  inUse' = inUse /\ \A v \in DemucsUsers : Fit(v) /\ Kept(v)
  BY <1>22, DemucsPoolAssumption DEF ContextEnds, DemucsFault, PoolStep, slotVars, registryVars,
     daemonVars, NoDemucsFault, DemucsUsers, IInv, DemucsTypeOK, Starting
<1>23. ASSUME NEW d \in Clients, Works(d)
      PROVE  inUse' = inUse /\ \A v \in DemucsUsers : Fit(v) /\ Kept(v)
  BY <1>23, DemucsPoolAssumption DEF Works, PoolStep, slotVars, registryVars, daemonVars,
     NoDemucsFault, DemucsUsers, IInv, DemucsTypeOK, Starting
<1>24. ASSUME NEW d \in Clients, WorkFails(d)
      PROVE  inUse' = inUse /\ \A v \in DemucsUsers : Fit(v) /\ Kept(v)
  BY <1>24, DemucsPoolAssumption DEF WorkFails, DemucsFault, PoolStep, slotVars, registryVars,
     daemonVars, NoDemucsFault, DemucsUsers, IInv, DemucsTypeOK, Starting
<1>25. ASSUME NEW d \in Clients, DaemonDies(d)
      PROVE  inUse' = inUse /\ \A v \in DemucsUsers : Fit(v) /\ Kept(v)
  BY <1>25, DemucsPoolAssumption DEF DaemonDies, DemucsFault, PoolStep, slotVars, registryVars,
     daemonVars, NoDemucsFault, DemucsUsers, IInv, DemucsTypeOK, Starting
<1>26. ASSUME LowerLimit
      PROVE  inUse' = inUse /\ \A v \in DemucsUsers : Fit(v) /\ Kept(v)
  BY <1>26, DemucsPoolAssumption DEF LowerLimit, PoolStep, slotVars, registryVars, daemonVars,
     NoDemucsFault, DemucsUsers, IInv, DemucsTypeOK, Starting
<1>27. ASSUME CloseDemucs
      PROVE  inUse' = inUse /\ \A v \in DemucsUsers : Fit(v) /\ Kept(v)
  BY <1>27, DemucsPoolAssumption DEF CloseDemucs, PoolStep, slotVars, registryVars, daemonVars,
     NoDemucsFault, Ends, DemucsUsers, IInv, DemucsTypeOK, Starting
<1> QED
  BY <1>1, <1>2, <1>3, <1>4, <1>5, <1>6, <1>7, <1>8, <1>9, <1>10, <1>11, <1>12, <1>13, <1>14,
     <1>15, <1>16, <1>17, <1>18, <1>19, <1>20, <1>21, <1>22, <1>23, <1>24, <1>25, <1>26, <1>27
  DEF DemucsNext, AcquireClient

LEMMA NextCount == IInv /\ Count /\ [DemucsNext]_demucsVars => Count'
BY TakeCounts, ReleaseCounts, OthersCount

\* Nobody sleeps through a change, and the slots in use are those of the separations under
\* way, for any limit, any users and any faults (semaphore.go:50-92).
THEOREM WaitersAreRemembered == DemucsSpec => []NoForgottenWaiter
<1>1. DemucsSpec => []Count
  BY InitCount, NextCount, PoolInvariance, PTL DEF DemucsSpec
<1>2. IInv /\ Count => NoForgottenWaiter
  BY DEF IInv, Count, Owners, Waits, NoForgottenWaiter
<1> QED
  BY <1>1, <1>2, PoolInvariance, PTL
=============================================================================
