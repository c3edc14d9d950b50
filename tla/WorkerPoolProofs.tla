-------------------------- MODULE WorkerPoolProofs --------------------------
(***************************************************************************)
(* The safety of the pool of feature daemons, for any lanes, warmers,      *)
(* names of daemons, capacity, recycling limit and number of faults.       *)
(*                                                                         *)
(* A daemon is in the channel, in one pair of hands or in neither: from    *)
(* this follows whose answers are in its pipes, from that how far the      *)
(* count of the Python loop can be ahead of the client's, and that the     *)
(* registry is exactly what is in the channel and in hands.                *)
(***************************************************************************)
EXTENDS WorkerPool, FiniteSetTheorems, TLAPS

Items(s) == {s[i] : i \in 1..Len(s)}
NoRepeats(s) == \A i, j \in 1..Len(s) : s[i] = s[j] => i = j

Spawners == {g \in Goroutines : at[g] \in {"spawning", "registered"}}
Starters == {g \in Goroutines : at[g] = "spawning"}
InHands(d) == \E g \in Goroutines : at[g] \in Holding \ {"spawning"} /\ has[g] = d

\* The reservations are counted.
Count == IsFiniteSet(Spawners) /\ spawning = Cardinality(Spawners)

\* The registry, and the room in it.
Registry ==
    /\ poolClosed => all = {}
    /\ ~poolClosed =>
          \A d \in Daemons : d \in all <=> d \in Idle \/ InHands(d)
Capacity ==
    /\ IsFiniteSet(all)
    /\ ~poolClosed => Cardinality(all) + Cardinality(Starters) <= maxDaemons

\* A process is known to somebody; the one that is being forgotten has ended.
Known ==
    /\ \A d \in Daemons :
          process[d] # "gone" =>
              d \in all \cup closing \cup abandoned \/ \E g \in Goroutines : has[g] = d
    /\ \A g \in Goroutines : at[g] = "retiring" => process[has[g]] = "gone"

\* The loop is ahead of its client by the answer that is on its way, and by no more.
Abreast ==
    \A d \in Daemons :
        /\ served[d] <= taskCount[d] + 1
        /\ wire[d].state # "done" => served[d] <= taskCount[d]

IInv ==
    /\ PoolTypeOK /\ OneUser /\ Count /\ Registry /\ Capacity /\ Known
    /\ AnswersAreAwaited /\ Abreast

(***************************************************************************)
(* The channel as a sequence.                                              *)
(***************************************************************************)
LEMMA HeadAndTail ==
  ASSUME NEW S, NEW s \in Seq(S), s # <<>>, NoRepeats(s)
  PROVE  /\ Head(s) \in S /\ Head(s) \in Items(s) /\ Tail(s) \in Seq(S)
         /\ NoRepeats(Tail(s)) /\ Items(Tail(s)) = Items(s) \ {Head(s)}
<1>1. /\ Len(s) \in Nat \ {0} /\ Head(s) = s[1] /\ Tail(s) \in Seq(S)
      /\ Len(Tail(s)) = Len(s) - 1 /\ \A i \in 1..Len(s) - 1 : Tail(s)[i] = s[i + 1]
  OBVIOUS
<1>2. NoRepeats(Tail(s))
  BY <1>1 DEF NoRepeats
<1>3. \A x : x \in Items(Tail(s)) => x \in Items(s) \ {Head(s)}
  BY <1>1 DEF Items, NoRepeats
<1>4. \A i \in 2..Len(s) : s[i] = Tail(s)[i - 1]
  BY <1>1
<1>5. \A x : x \in Items(s) \ {Head(s)} => x \in Items(Tail(s))
  <2> SUFFICES ASSUME NEW i \in 1..Len(s), s[i] # s[1] PROVE s[i] \in Items(Tail(s))
    BY <1>1 DEF Items
  <2>1. i \in 2..Len(s) /\ i - 1 \in 1..Len(Tail(s))
    BY <1>1
  <2> QED
    BY <1>4, <2>1 DEF Items
<1> QED
  BY <1>1, <1>2, <1>3, <1>5 DEF Items

LEMMA Appended ==
  ASSUME NEW S, NEW s \in Seq(S), NoRepeats(s), NEW d \in S, d \notin Items(s)
  PROVE  /\ Append(s, d) \in Seq(S) /\ NoRepeats(Append(s, d))
         /\ Items(Append(s, d)) = Items(s) \cup {d}
<1>1. /\ Len(s) \in Nat /\ Append(s, d) \in Seq(S) /\ Len(Append(s, d)) = Len(s) + 1
      /\ Append(s, d)[Len(s) + 1] = d /\ \A i \in 1..Len(s) : Append(s, d)[i] = s[i]
  OBVIOUS
<1>2. NoRepeats(Append(s, d))
  BY <1>1 DEF NoRepeats, Items
<1>3. \A x : x \in Items(Append(s, d)) => x \in Items(s) \cup {d}
  BY <1>1 DEF Items
<1>4. d \in Items(Append(s, d))
  BY <1>1 DEF Items
<1>5. \A i \in 1..Len(s) : i \in 1..Len(Append(s, d)) /\ s[i] = Append(s, d)[i]
  BY <1>1
<1>6. \A x : x \in Items(s) => x \in Items(Append(s, d))
  BY <1>5 DEF Items
<1> QED
  BY <1>1, <1>2, <1>3, <1>4, <1>6

LEMMA Trimmed ==
  ASSUME NEW S, NEW s \in Seq(S), NoRepeats(s), NEW n \in Nat, n <= Len(s)
  PROVE  /\ SubSeq(s, n + 1, Len(s)) \in Seq(S) /\ NoRepeats(SubSeq(s, n + 1, Len(s)))
         /\ Items(SubSeq(s, n + 1, Len(s))) = Items(s) \ {s[i] : i \in 1..n}
<1> DEFINE t == SubSeq(s, n + 1, Len(s))
<1>1. /\ Len(s) \in Nat /\ t \in Seq(S) /\ Len(t) = Len(s) - n
      /\ \A i \in 1..Len(s) - n : t[i] = s[n + i]
  OBVIOUS
<1>2. NoRepeats(t)
  BY <1>1 DEF NoRepeats
<1>3. \A x : x \in Items(t) => x \in Items(s) \ {s[i] : i \in 1..n}
  BY <1>1 DEF Items, NoRepeats
<1>4. \A i \in 1..Len(s) : i \notin 1..n => i - n \in 1..Len(t) /\ s[i] = t[i - n]
  BY <1>1
<1>5. \A x : x \in Items(s) \ {s[i] : i \in 1..n} => x \in Items(t)
  BY <1>4 DEF Items
<1> QED
  BY <1>1, <1>2, <1>3, <1>5

\* One user, element by element.
LEMMA Users ==
  ASSUME PoolTypeOK, OneUser
  PROVE  /\ idle \in Seq(Daemons) /\ NoRepeats(idle) /\ Idle = Items(idle) /\ Idle \subseteq Daemons
         /\ \A g \in Goroutines : has[g] \notin Idle
         /\ \A g, h \in Goroutines : has[g] = has[h] /\ has[g] # NoDaemon => g = h
<1>1. idle \in Seq(Daemons) /\ Idle = Items(idle) /\ \A g \in Goroutines : has[g] \in Held
  BY DEF PoolTypeOK, Idle, Items, Held
<1>2. NoRepeats(idle) /\ Idle \cap Held = {}
  BY DEF OneUser, NoRepeats
<1>3. \A g, h \in Goroutines : has[g] = has[h] /\ has[g] # NoDaemon => g = h
  BY DEF OneUser
<1>4. Idle \subseteq Daemons
  BY <1>1 DEF Items
<1> QED
  BY <1>1, <1>2, <1>3, <1>4

LEMMA UsersAgain ==
  ASSUME NoRepeats(idle'), \A g \in Goroutines : has'[g] \notin Idle',
         \A g, h \in Goroutines : has'[g] = has'[h] /\ has'[g] # NoDaemon => g = h
  PROVE  OneUser'
BY DEF OneUser, NoRepeats, Idle, Held

\* Nobody starts, nothing is listed.
LEMMA CapacityKept ==
  ASSUME Count, Capacity, Starters' \subseteq Starters, all' \subseteq all,
         poolClosed => poolClosed', poolClosed \in BOOLEAN, maxDaemons \in Nat
  PROVE  Capacity'
<1>1. IsFiniteSet(Starters)
  BY FS_Subset DEF Count, Starters, Spawners
<1>2. Cardinality(Starters') <= Cardinality(Starters) /\ Cardinality(Starters') \in Nat
  BY <1>1, FS_Subset, FS_CardinalityType
<1>3. IsFiniteSet(all') /\ Cardinality(all') <= Cardinality(all) /\ Cardinality(all') \in Nat
  BY FS_Subset, FS_CardinalityType DEF Capacity
<1>4. Cardinality(all) \in Nat /\ Cardinality(Starters) \in Nat
  BY <1>1, FS_CardinalityType DEF Capacity
<1> QED
  BY <1>2, <1>3, <1>4 DEF Capacity

LEMMA StepStartCall ==
  ASSUME IInv, NEW g \in Goroutines, StartCall(g)
  PROVE  IInv'
<1> USE WorkerPoolAssumption DEF IInv
<1>u. /\ idle \in Seq(Daemons) /\ NoRepeats(idle) /\ Idle = Items(idle) /\ Idle \subseteq Daemons
      /\ \A h \in Goroutines : has[h] \notin Idle
      /\ \A h, k \in Goroutines : has[h] = has[k] /\ has[h] # NoDaemon => h = k
  BY Users
<1>i. idle' \in Seq(Daemons) /\ NoRepeats(idle') /\ Idle' = Idle
  <2>1. idle' = idle
    BY DEF StartCall, NoPoolFault, bookVars, clientVars, Move
  <2> QED
    BY <1>u, <2>1 DEF Idle
<1>f. /\ \A h \in Goroutines \ {g} : at'[h] = at[h] /\ has'[h] = has[h]
      /\ at[g] = "away" /\ at'[g] = "looking" /\ has[g] = NoDaemon /\ has'[g] = has[g]
  BY DEF StartCall, NoPoolFault, bookVars, clientVars, Move, PoolTypeOK, Holding
<1>c. Count' /\ spawning' \in Nat
  <2>1. Spawners' = Spawners
    BY <1>f DEF Spawners
  <2>2. spawning' = spawning
    BY DEF StartCall, NoPoolFault, bookVars, clientVars, Move
  <2> QED
    BY <2>1, <2>2, FS_CardinalityType DEF Count
<1>h. \A d \in Daemons : InHands(d)' <=> InHands(d)
  BY <1>f, <1>u DEF InHands, Holding
<1>1. PoolTypeOK'
  BY <1>u, <1>i, <1>f, <1>c DEF PoolTypeOK, GoroutineAt, Holding, Processes, Wires, Requests,
     Answers, Quiet, StartCall, NoPoolFault, bookVars, clientVars, Move
<1>2. OneUser'
  BY <1>u, <1>i, <1>f, UsersAgain DEF Held
<1>3. Registry'
  <2>1. UNCHANGED <<all, poolClosed>>
    BY DEF StartCall, NoPoolFault, bookVars, clientVars, Move
  <2> QED
    BY <1>u, <1>i, <1>f, <1>h, <2>1 DEF Registry
<1>4. Known'
  BY <1>u, <1>i, <1>f, <1>h DEF Known, PoolTypeOK, StartCall, NoPoolFault, bookVars, clientVars,
     Move
<1>5. AnswersAreAwaited'
  BY <1>u, <1>i, <1>f DEF AnswersAreAwaited, PoolTypeOK, Quiet, StartCall, NoPoolFault,
     bookVars, clientVars, Move
<1>6. Abreast'
  BY <1>u, <1>i, <1>f DEF Abreast, PoolTypeOK, AnswersAreAwaited, Quiet, StartCall, NoPoolFault,
     bookVars, clientVars, Move
<1>7. Capacity'
  <2>1. Starters' = Starters
    BY <1>f DEF Starters
  <2>2. UNCHANGED <<all, poolClosed>>
    BY DEF StartCall, NoPoolFault, bookVars, clientVars, Move
  <2> QED
    BY <2>1, <2>2 DEF Capacity
<1> QED
  BY <1>c, <1>1, <1>2, <1>3, <1>4, <1>5, <1>6, <1>7

LEMMA StepFailClosed ==
  ASSUME IInv, NEW g \in Goroutines, FailClosed(g)
  PROVE  IInv'
<1> USE WorkerPoolAssumption DEF IInv
<1>u. /\ idle \in Seq(Daemons) /\ NoRepeats(idle) /\ Idle = Items(idle) /\ Idle \subseteq Daemons
      /\ \A h \in Goroutines : has[h] \notin Idle
      /\ \A h, k \in Goroutines : has[h] = has[k] /\ has[h] # NoDaemon => h = k
  BY Users
<1>i. idle' \in Seq(Daemons) /\ NoRepeats(idle') /\ Idle' = Idle
  <2>1. idle' = idle
    BY DEF FailClosed, NoPoolFault, bookVars, clientVars, Move, Leaves, Takes
  <2> QED
    BY <1>u, <2>1 DEF Idle
<1>f. /\ \A h \in Goroutines \ {g} : at'[h] = at[h] /\ has'[h] = has[h]
      /\ at[g] = "looking" /\ at'[g] = "away" /\ has[g] = NoDaemon /\ has'[g] = NoDaemon
  BY DEF FailClosed, NoPoolFault, bookVars, clientVars, Move, Leaves, Takes, PoolTypeOK, Holding
<1>c. Count' /\ spawning' \in Nat
  <2>1. Spawners' = Spawners
    BY <1>f DEF Spawners
  <2>2. spawning' = spawning
    BY DEF FailClosed, NoPoolFault, bookVars, clientVars, Move, Leaves, Takes
  <2> QED
    BY <2>1, <2>2, FS_CardinalityType DEF Count
<1>h. \A d \in Daemons : InHands(d)' <=> InHands(d)
  BY <1>f, <1>u DEF InHands, Holding
<1>1. PoolTypeOK'
  BY <1>u, <1>i, <1>f, <1>c DEF PoolTypeOK, GoroutineAt, Holding, Processes, Wires, Requests,
     Answers, Quiet, FailClosed, NoPoolFault, bookVars, clientVars, Move, Leaves, Takes
<1>2. OneUser'
  BY <1>u, <1>i, <1>f, UsersAgain DEF Held
<1>3. Registry'
  <2>1. UNCHANGED <<all, poolClosed>>
    BY DEF FailClosed, NoPoolFault, bookVars, clientVars, Move, Leaves, Takes
  <2> QED
    BY <1>u, <1>i, <1>f, <1>h, <2>1 DEF Registry
<1>4. Known'
  BY <1>u, <1>i, <1>f, <1>h DEF Known, PoolTypeOK, FailClosed, NoPoolFault, bookVars,
     clientVars, Move, Leaves, Takes
<1>5. AnswersAreAwaited'
  BY <1>u, <1>i, <1>f DEF AnswersAreAwaited, PoolTypeOK, Quiet, FailClosed, NoPoolFault,
     bookVars, clientVars, Move, Leaves, Takes
<1>6. Abreast'
  BY <1>u, <1>i, <1>f DEF Abreast, PoolTypeOK, AnswersAreAwaited, Quiet, FailClosed,
     NoPoolFault, bookVars, clientVars, Move, Leaves, Takes
<1>7. Capacity'
  <2>1. Starters' = Starters
    BY <1>f DEF Starters
  <2>2. UNCHANGED <<all, poolClosed>>
    BY DEF FailClosed, NoPoolFault, bookVars, clientVars, Move, Leaves, Takes
  <2> QED
    BY <2>1, <2>2 DEF Capacity
<1> QED
  BY <1>c, <1>1, <1>2, <1>3, <1>4, <1>5, <1>6, <1>7

LEMMA StepTakeIdle ==
  ASSUME IInv, NEW g \in Goroutines, TakeIdle(g)
  PROVE  IInv'
<1> USE WorkerPoolAssumption DEF IInv
<1>u. /\ idle \in Seq(Daemons) /\ NoRepeats(idle) /\ Idle = Items(idle) /\ Idle \subseteq Daemons
      /\ \A h \in Goroutines : has[h] \notin Idle
      /\ \A h, k \in Goroutines : has[h] = has[k] /\ has[h] # NoDaemon => h = k
  BY Users
<1>i. /\ idle' \in Seq(Daemons) /\ NoRepeats(idle') /\ Idle' = Idle \ {Head(idle)}
      /\ Head(idle) \in Daemons /\ Head(idle) \in Idle
  <2>1. idle' = Tail(idle) /\ idle # <<>>
    BY DEF TakeIdle, NoPoolFault, bookVars, clientVars, Move, Takes
  <2>2. Idle' = Items(idle')
    BY DEF Idle, Items
  <2>3. Idle' = Items(Tail(idle))
    BY <2>1, <2>2
  <2> QED
    BY <1>u, <2>1, <2>3, HeadAndTail
<1>f. /\ \A h \in Goroutines \ {g} : at'[h] = at[h] /\ has'[h] = has[h]
      /\ at[g] = "looking" /\ at'[g] = "checking" /\ has[g] = NoDaemon /\ has'[g] = Head(idle)
  BY DEF TakeIdle, NoPoolFault, bookVars, clientVars, Move, Takes, PoolTypeOK, Holding
<1>c. Count' /\ spawning' \in Nat
  <2>1. Spawners' = Spawners
    BY <1>f DEF Spawners
  <2>2. spawning' = spawning
    BY DEF TakeIdle, NoPoolFault, bookVars, clientVars, Move, Takes
  <2> QED
    BY <2>1, <2>2, FS_CardinalityType DEF Count
<1>h. \A d \in Daemons : InHands(d)' <=> InHands(d) \/ d = Head(idle)
  BY <1>f, <1>u DEF InHands, Holding
<1>1. PoolTypeOK'
  BY <1>u, <1>i, <1>f, <1>c DEF PoolTypeOK, GoroutineAt, Holding, Processes, Wires, Requests,
     Answers, Quiet, TakeIdle, NoPoolFault, bookVars, clientVars, Move, Takes
<1>2. OneUser'
  BY <1>u, <1>i, <1>f, UsersAgain DEF Held
<1>3. Registry'
  <2>1. UNCHANGED <<all, poolClosed>>
    BY DEF TakeIdle, NoPoolFault, bookVars, clientVars, Move, Takes
  <2> QED
    BY <1>u, <1>i, <1>f, <1>h, <2>1 DEF Registry
<1>4. Known'
  BY <1>u, <1>i, <1>f, <1>h DEF Known, PoolTypeOK, TakeIdle, NoPoolFault, bookVars, clientVars,
     Move, Takes
<1>5. AnswersAreAwaited'
  BY <1>u, <1>i, <1>f DEF AnswersAreAwaited, PoolTypeOK, Quiet, TakeIdle, NoPoolFault, bookVars,
     clientVars, Move, Takes
<1>6. Abreast'
  BY <1>u, <1>i, <1>f DEF Abreast, PoolTypeOK, AnswersAreAwaited, Quiet, TakeIdle, NoPoolFault,
     bookVars, clientVars, Move, Takes
<1>7. Capacity'
  <2>1. Starters' = Starters
    BY <1>f DEF Starters
  <2>2. UNCHANGED <<all, poolClosed>>
    BY DEF TakeIdle, NoPoolFault, bookVars, clientVars, Move, Takes
  <2> QED
    BY <2>1, <2>2 DEF Capacity
<1> QED
  BY <1>c, <1>1, <1>2, <1>3, <1>4, <1>5, <1>6, <1>7

LEMMA StepReserve ==
  ASSUME IInv, NEW g \in Goroutines, Reserve(g)
  PROVE  IInv'
<1> USE WorkerPoolAssumption DEF IInv
<1>u. /\ idle \in Seq(Daemons) /\ NoRepeats(idle) /\ Idle = Items(idle) /\ Idle \subseteq Daemons
      /\ \A h \in Goroutines : has[h] \notin Idle
      /\ \A h, k \in Goroutines : has[h] = has[k] /\ has[h] # NoDaemon => h = k
  BY Users
<1>i. idle' \in Seq(Daemons) /\ NoRepeats(idle') /\ Idle' = Idle
  <2>1. idle' = idle
    BY DEF Reserve, NoPoolFault, bookVars, clientVars, Move, Takes
  <2> QED
    BY <1>u, <2>1 DEF Idle
<1>f. /\ \A h \in Goroutines \ {g} : at'[h] = at[h] /\ has'[h] = has[h]
      /\ at[g] = "looking" /\ at'[g] = "spawning" /\ has[g] = NoDaemon /\ has'[g] \in Daemons \ (all \cup closing \cup Idle \cup Held)
  BY DEF Reserve, NoPoolFault, bookVars, clientVars, Move, Takes, PoolTypeOK, Holding, Fresh
<1>c. Count' /\ spawning' \in Nat
  <2>1. Spawners' = Spawners \cup {g} /\ g \notin Spawners
    BY <1>f DEF Spawners
  <2>2. spawning' = spawning + 1
    BY DEF Reserve, NoPoolFault, bookVars, clientVars, Move, Takes
  <2>3. /\ IsFiniteSet(Spawners) /\ Cardinality(Spawners) \in Nat /\ IsFiniteSet(Spawners')
        /\ Cardinality(Spawners') = Cardinality(Spawners) + 1
        /\ Cardinality(Spawners') \in Nat
    BY <2>1, FS_AddElement, FS_CardinalityType DEF Count
  <2> QED
    BY <2>2, <2>3 DEF Count
<1>h. \A d \in Daemons : InHands(d)' <=> InHands(d)
  BY <1>f, <1>u DEF InHands, Holding
<1>1. PoolTypeOK'
  BY <1>u, <1>i, <1>f, <1>c DEF PoolTypeOK, GoroutineAt, Holding, Processes, Wires, Requests,
     Answers, Quiet, Reserve, NoPoolFault, bookVars, clientVars, Move, Takes
<1>2. OneUser'
  BY <1>u, <1>i, <1>f, UsersAgain DEF Held
<1>3. Registry'
  <2>1. UNCHANGED <<all, poolClosed>>
    BY DEF Reserve, NoPoolFault, bookVars, clientVars, Move, Takes
  <2> QED
    BY <1>u, <1>i, <1>f, <1>h, <2>1 DEF Registry
<1>4. Known'
  <2>1. /\ \A e \in Daemons \ {has'[g]} : process'[e] = process[e]
        /\ UNCHANGED <<all, closing>> /\ abandoned' = abandoned \ {has'[g]}
    BY <1>f DEF Reserve, NoPoolFault, bookVars, clientVars, Move, Takes, PoolTypeOK
  <2>2. \A h \in Goroutines : at[h] = "retiring" => has[h] \in Daemons /\ has[h] \in Held
    BY DEF PoolTypeOK, Holding, Held
  <2> QED
    BY <1>f, <2>1, <2>2 DEF Known
<1>5. AnswersAreAwaited'
  BY <1>u, <1>i, <1>f DEF AnswersAreAwaited, PoolTypeOK, Quiet, Reserve, NoPoolFault, bookVars,
     clientVars, Move, Takes
<1>6. Abreast'
  BY <1>u, <1>i, <1>f DEF Abreast, PoolTypeOK, AnswersAreAwaited, Quiet, Reserve, NoPoolFault,
     bookVars, clientVars, Move, Takes
<1>7. Capacity'
  <2>1. Starters' = Starters \cup {g} /\ Starters \subseteq Spawners /\ g \notin Starters
    BY <1>f DEF Starters, Spawners
  <2>2. UNCHANGED <<all, poolClosed>> /\ Cardinality(all) + spawning < maxDaemons
    BY DEF Reserve, NoPoolFault, bookVars, clientVars, Move, Takes, Room
  <2>3. /\ IsFiniteSet(Starters) /\ Cardinality(Starters) <= Cardinality(Spawners)
        /\ Cardinality(Starters) \in Nat /\ Cardinality(Spawners) \in Nat
    BY <2>1, FS_Subset, FS_CardinalityType DEF Count
  <2>4. Cardinality(Starters') = Cardinality(Starters) + 1
    BY <2>1, <2>3, FS_AddElement
  <2>5. Cardinality(all) \in Nat
    BY FS_CardinalityType DEF Capacity
  <2> QED
    BY <2>2, <2>3, <2>4, <2>5 DEF Capacity, Count
<1> QED
  BY <1>c, <1>1, <1>2, <1>3, <1>4, <1>5, <1>6, <1>7

LEMMA StepWarmerFull ==
  ASSUME IInv, NEW g \in Goroutines, WarmerFull(g)
  PROVE  IInv'
<1> USE WorkerPoolAssumption DEF IInv
<1>u. /\ idle \in Seq(Daemons) /\ NoRepeats(idle) /\ Idle = Items(idle) /\ Idle \subseteq Daemons
      /\ \A h \in Goroutines : has[h] \notin Idle
      /\ \A h, k \in Goroutines : has[h] = has[k] /\ has[h] # NoDaemon => h = k
  BY Users
<1>i. idle' \in Seq(Daemons) /\ NoRepeats(idle') /\ Idle' = Idle
  <2>1. idle' = idle
    BY DEF WarmerFull, NoPoolFault, bookVars, clientVars, Move, Leaves, Takes
  <2> QED
    BY <1>u, <2>1 DEF Idle
<1>f. /\ \A h \in Goroutines \ {g} : at'[h] = at[h] /\ has'[h] = has[h]
      /\ at[g] = "looking" /\ at'[g] = "away" /\ has[g] = NoDaemon /\ has'[g] = NoDaemon
  BY DEF WarmerFull, NoPoolFault, bookVars, clientVars, Move, Leaves, Takes, PoolTypeOK, Holding
<1>c. Count' /\ spawning' \in Nat
  <2>1. Spawners' = Spawners
    BY <1>f DEF Spawners
  <2>2. spawning' = spawning
    BY DEF WarmerFull, NoPoolFault, bookVars, clientVars, Move, Leaves, Takes
  <2> QED
    BY <2>1, <2>2, FS_CardinalityType DEF Count
<1>h. \A d \in Daemons : InHands(d)' <=> InHands(d)
  BY <1>f, <1>u DEF InHands, Holding
<1>1. PoolTypeOK'
  BY <1>u, <1>i, <1>f, <1>c DEF PoolTypeOK, GoroutineAt, Holding, Processes, Wires, Requests,
     Answers, Quiet, WarmerFull, NoPoolFault, bookVars, clientVars, Move, Leaves, Takes
<1>2. OneUser'
  BY <1>u, <1>i, <1>f, UsersAgain DEF Held
<1>3. Registry'
  <2>1. UNCHANGED <<all, poolClosed>>
    BY DEF WarmerFull, NoPoolFault, bookVars, clientVars, Move, Leaves, Takes
  <2> QED
    BY <1>u, <1>i, <1>f, <1>h, <2>1 DEF Registry
<1>4. Known'
  BY <1>u, <1>i, <1>f, <1>h DEF Known, PoolTypeOK, WarmerFull, NoPoolFault, bookVars,
     clientVars, Move, Leaves, Takes
<1>5. AnswersAreAwaited'
  BY <1>u, <1>i, <1>f DEF AnswersAreAwaited, PoolTypeOK, Quiet, WarmerFull, NoPoolFault,
     bookVars, clientVars, Move, Leaves, Takes
<1>6. Abreast'
  BY <1>u, <1>i, <1>f DEF Abreast, PoolTypeOK, AnswersAreAwaited, Quiet, WarmerFull,
     NoPoolFault, bookVars, clientVars, Move, Leaves, Takes
<1>7. Capacity'
  <2>1. Starters' = Starters
    BY <1>f DEF Starters
  <2>2. UNCHANGED <<all, poolClosed>>
    BY DEF WarmerFull, NoPoolFault, bookVars, clientVars, Move, Leaves, Takes
  <2> QED
    BY <2>1, <2>2 DEF Capacity
<1> QED
  BY <1>c, <1>1, <1>2, <1>3, <1>4, <1>5, <1>6, <1>7

LEMMA StepWait ==
  ASSUME IInv, NEW g \in Goroutines, Wait(g)
  PROVE  IInv'
<1> USE WorkerPoolAssumption DEF IInv
<1>u. /\ idle \in Seq(Daemons) /\ NoRepeats(idle) /\ Idle = Items(idle) /\ Idle \subseteq Daemons
      /\ \A h \in Goroutines : has[h] \notin Idle
      /\ \A h, k \in Goroutines : has[h] = has[k] /\ has[h] # NoDaemon => h = k
  BY Users
<1>i. idle' \in Seq(Daemons) /\ NoRepeats(idle') /\ Idle' = Idle
  <2>1. idle' = idle
    BY DEF Wait, NoPoolFault, bookVars, clientVars, Move
  <2> QED
    BY <1>u, <2>1 DEF Idle
<1>f. /\ \A h \in Goroutines \ {g} : at'[h] = at[h] /\ has'[h] = has[h]
      /\ at[g] = "looking" /\ at'[g] = "waiting" /\ has[g] = NoDaemon /\ has'[g] = has[g]
  BY DEF Wait, NoPoolFault, bookVars, clientVars, Move, PoolTypeOK, Holding
<1>c. Count' /\ spawning' \in Nat
  <2>1. Spawners' = Spawners
    BY <1>f DEF Spawners
  <2>2. spawning' = spawning
    BY DEF Wait, NoPoolFault, bookVars, clientVars, Move
  <2> QED
    BY <2>1, <2>2, FS_CardinalityType DEF Count
<1>h. \A d \in Daemons : InHands(d)' <=> InHands(d)
  BY <1>f, <1>u DEF InHands, Holding
<1>1. PoolTypeOK'
  BY <1>u, <1>i, <1>f, <1>c DEF PoolTypeOK, GoroutineAt, Holding, Processes, Wires, Requests,
     Answers, Quiet, Wait, NoPoolFault, bookVars, clientVars, Move
<1>2. OneUser'
  BY <1>u, <1>i, <1>f, UsersAgain DEF Held
<1>3. Registry'
  <2>1. UNCHANGED <<all, poolClosed>>
    BY DEF Wait, NoPoolFault, bookVars, clientVars, Move
  <2> QED
    BY <1>u, <1>i, <1>f, <1>h, <2>1 DEF Registry
<1>4. Known'
  BY <1>u, <1>i, <1>f, <1>h DEF Known, PoolTypeOK, Wait, NoPoolFault, bookVars, clientVars, Move
<1>5. AnswersAreAwaited'
  BY <1>u, <1>i, <1>f DEF AnswersAreAwaited, PoolTypeOK, Quiet, Wait, NoPoolFault, bookVars,
     clientVars, Move
<1>6. Abreast'
  BY <1>u, <1>i, <1>f DEF Abreast, PoolTypeOK, AnswersAreAwaited, Quiet, Wait, NoPoolFault,
     bookVars, clientVars, Move
<1>7. Capacity'
  <2>1. Starters' = Starters
    BY <1>f DEF Starters
  <2>2. UNCHANGED <<all, poolClosed>>
    BY DEF Wait, NoPoolFault, bookVars, clientVars, Move
  <2> QED
    BY <2>1, <2>2 DEF Capacity
<1> QED
  BY <1>c, <1>1, <1>2, <1>3, <1>4, <1>5, <1>6, <1>7

LEMMA StepWaitTake ==
  ASSUME IInv, NEW g \in Goroutines, WaitTake(g)
  PROVE  IInv'
<1> USE WorkerPoolAssumption DEF IInv
<1>u. /\ idle \in Seq(Daemons) /\ NoRepeats(idle) /\ Idle = Items(idle) /\ Idle \subseteq Daemons
      /\ \A h \in Goroutines : has[h] \notin Idle
      /\ \A h, k \in Goroutines : has[h] = has[k] /\ has[h] # NoDaemon => h = k
  BY Users
<1>i. /\ idle' \in Seq(Daemons) /\ NoRepeats(idle') /\ Idle' = Idle \ {Head(idle)}
      /\ Head(idle) \in Daemons /\ Head(idle) \in Idle
  <2>1. idle' = Tail(idle) /\ idle # <<>>
    BY DEF WaitTake, NoPoolFault, bookVars, clientVars, Move, Takes
  <2>2. Idle' = Items(idle')
    BY DEF Idle, Items
  <2>3. Idle' = Items(Tail(idle))
    BY <2>1, <2>2
  <2> QED
    BY <1>u, <2>1, <2>3, HeadAndTail
<1>f. /\ \A h \in Goroutines \ {g} : at'[h] = at[h] /\ has'[h] = has[h]
      /\ at[g] = "waiting" /\ at'[g] = "checking" /\ has[g] = NoDaemon /\ has'[g] = Head(idle)
  BY DEF WaitTake, NoPoolFault, bookVars, clientVars, Move, Takes, PoolTypeOK, Holding
<1>c. Count' /\ spawning' \in Nat
  <2>1. Spawners' = Spawners
    BY <1>f DEF Spawners
  <2>2. spawning' = spawning
    BY DEF WaitTake, NoPoolFault, bookVars, clientVars, Move, Takes
  <2> QED
    BY <2>1, <2>2, FS_CardinalityType DEF Count
<1>h. \A d \in Daemons : InHands(d)' <=> InHands(d) \/ d = Head(idle)
  BY <1>f, <1>u DEF InHands, Holding
<1>1. PoolTypeOK'
  BY <1>u, <1>i, <1>f, <1>c DEF PoolTypeOK, GoroutineAt, Holding, Processes, Wires, Requests,
     Answers, Quiet, WaitTake, NoPoolFault, bookVars, clientVars, Move, Takes
<1>2. OneUser'
  BY <1>u, <1>i, <1>f, UsersAgain DEF Held
<1>3. Registry'
  <2>1. UNCHANGED <<all, poolClosed>>
    BY DEF WaitTake, NoPoolFault, bookVars, clientVars, Move, Takes
  <2> QED
    BY <1>u, <1>i, <1>f, <1>h, <2>1 DEF Registry
<1>4. Known'
  BY <1>u, <1>i, <1>f, <1>h DEF Known, PoolTypeOK, WaitTake, NoPoolFault, bookVars, clientVars,
     Move, Takes
<1>5. AnswersAreAwaited'
  BY <1>u, <1>i, <1>f DEF AnswersAreAwaited, PoolTypeOK, Quiet, WaitTake, NoPoolFault, bookVars,
     clientVars, Move, Takes
<1>6. Abreast'
  BY <1>u, <1>i, <1>f DEF Abreast, PoolTypeOK, AnswersAreAwaited, Quiet, WaitTake, NoPoolFault,
     bookVars, clientVars, Move, Takes
<1>7. Capacity'
  <2>1. Starters' = Starters
    BY <1>f DEF Starters
  <2>2. UNCHANGED <<all, poolClosed>>
    BY DEF WaitTake, NoPoolFault, bookVars, clientVars, Move, Takes
  <2> QED
    BY <2>1, <2>2 DEF Capacity
<1> QED
  BY <1>c, <1>1, <1>2, <1>3, <1>4, <1>5, <1>6, <1>7

LEMMA StepWaitClosed ==
  ASSUME IInv, NEW g \in Goroutines, WaitClosed(g)
  PROVE  IInv'
<1> USE WorkerPoolAssumption DEF IInv
<1>u. /\ idle \in Seq(Daemons) /\ NoRepeats(idle) /\ Idle = Items(idle) /\ Idle \subseteq Daemons
      /\ \A h \in Goroutines : has[h] \notin Idle
      /\ \A h, k \in Goroutines : has[h] = has[k] /\ has[h] # NoDaemon => h = k
  BY Users
<1>i. idle' \in Seq(Daemons) /\ NoRepeats(idle') /\ Idle' = Idle
  <2>1. idle' = idle
    BY DEF WaitClosed, NoPoolFault, bookVars, clientVars, Move, Leaves, Takes
  <2> QED
    BY <1>u, <2>1 DEF Idle
<1>f. /\ \A h \in Goroutines \ {g} : at'[h] = at[h] /\ has'[h] = has[h]
      /\ at[g] = "waiting" /\ at'[g] = "away" /\ has[g] = NoDaemon /\ has'[g] = NoDaemon
  BY DEF WaitClosed, NoPoolFault, bookVars, clientVars, Move, Leaves, Takes, PoolTypeOK, Holding
<1>c. Count' /\ spawning' \in Nat
  <2>1. Spawners' = Spawners
    BY <1>f DEF Spawners
  <2>2. spawning' = spawning
    BY DEF WaitClosed, NoPoolFault, bookVars, clientVars, Move, Leaves, Takes
  <2> QED
    BY <2>1, <2>2, FS_CardinalityType DEF Count
<1>h. \A d \in Daemons : InHands(d)' <=> InHands(d)
  BY <1>f, <1>u DEF InHands, Holding
<1>1. PoolTypeOK'
  BY <1>u, <1>i, <1>f, <1>c DEF PoolTypeOK, GoroutineAt, Holding, Processes, Wires, Requests,
     Answers, Quiet, WaitClosed, NoPoolFault, bookVars, clientVars, Move, Leaves, Takes
<1>2. OneUser'
  BY <1>u, <1>i, <1>f, UsersAgain DEF Held
<1>3. Registry'
  <2>1. UNCHANGED <<all, poolClosed>>
    BY DEF WaitClosed, NoPoolFault, bookVars, clientVars, Move, Leaves, Takes
  <2> QED
    BY <1>u, <1>i, <1>f, <1>h, <2>1 DEF Registry
<1>4. Known'
  BY <1>u, <1>i, <1>f, <1>h DEF Known, PoolTypeOK, WaitClosed, NoPoolFault, bookVars,
     clientVars, Move, Leaves, Takes
<1>5. AnswersAreAwaited'
  BY <1>u, <1>i, <1>f DEF AnswersAreAwaited, PoolTypeOK, Quiet, WaitClosed, NoPoolFault,
     bookVars, clientVars, Move, Leaves, Takes
<1>6. Abreast'
  BY <1>u, <1>i, <1>f DEF Abreast, PoolTypeOK, AnswersAreAwaited, Quiet, WaitClosed,
     NoPoolFault, bookVars, clientVars, Move, Leaves, Takes
<1>7. Capacity'
  <2>1. Starters' = Starters
    BY <1>f DEF Starters
  <2>2. UNCHANGED <<all, poolClosed>>
    BY DEF WaitClosed, NoPoolFault, bookVars, clientVars, Move, Leaves, Takes
  <2> QED
    BY <2>1, <2>2 DEF Capacity
<1> QED
  BY <1>c, <1>1, <1>2, <1>3, <1>4, <1>5, <1>6, <1>7

LEMMA StepWaitExpired ==
  ASSUME IInv, NEW g \in Goroutines, WaitExpired(g)
  PROVE  IInv'
<1> USE WorkerPoolAssumption DEF IInv
<1>u. /\ idle \in Seq(Daemons) /\ NoRepeats(idle) /\ Idle = Items(idle) /\ Idle \subseteq Daemons
      /\ \A h \in Goroutines : has[h] \notin Idle
      /\ \A h, k \in Goroutines : has[h] = has[k] /\ has[h] # NoDaemon => h = k
  BY Users
<1>i. idle' \in Seq(Daemons) /\ NoRepeats(idle') /\ Idle' = Idle
  <2>1. idle' = idle
    BY DEF WaitExpired, NoPoolFault, bookVars, clientVars, Move, Leaves, Takes
  <2> QED
    BY <1>u, <2>1 DEF Idle
<1>f. /\ \A h \in Goroutines \ {g} : at'[h] = at[h] /\ has'[h] = has[h]
      /\ at[g] = "waiting" /\ at'[g] = "away" /\ has[g] = NoDaemon /\ has'[g] = NoDaemon
  BY DEF WaitExpired, NoPoolFault, bookVars, clientVars, Move, Leaves, Takes, PoolTypeOK, Holding
<1>c. Count' /\ spawning' \in Nat
  <2>1. Spawners' = Spawners
    BY <1>f DEF Spawners
  <2>2. spawning' = spawning
    BY DEF WaitExpired, NoPoolFault, bookVars, clientVars, Move, Leaves, Takes
  <2> QED
    BY <2>1, <2>2, FS_CardinalityType DEF Count
<1>h. \A d \in Daemons : InHands(d)' <=> InHands(d)
  BY <1>f, <1>u DEF InHands, Holding
<1>1. PoolTypeOK'
  BY <1>u, <1>i, <1>f, <1>c DEF PoolTypeOK, GoroutineAt, Holding, Processes, Wires, Requests,
     Answers, Quiet, WaitExpired, NoPoolFault, bookVars, clientVars, Move, Leaves, Takes
<1>2. OneUser'
  BY <1>u, <1>i, <1>f, UsersAgain DEF Held
<1>3. Registry'
  <2>1. UNCHANGED <<all, poolClosed>>
    BY DEF WaitExpired, NoPoolFault, bookVars, clientVars, Move, Leaves, Takes
  <2> QED
    BY <1>u, <1>i, <1>f, <1>h, <2>1 DEF Registry
<1>4. Known'
  BY <1>u, <1>i, <1>f, <1>h DEF Known, PoolTypeOK, WaitExpired, NoPoolFault, bookVars,
     clientVars, Move, Leaves, Takes
<1>5. AnswersAreAwaited'
  BY <1>u, <1>i, <1>f DEF AnswersAreAwaited, PoolTypeOK, Quiet, WaitExpired, NoPoolFault,
     bookVars, clientVars, Move, Leaves, Takes
<1>6. Abreast'
  BY <1>u, <1>i, <1>f DEF Abreast, PoolTypeOK, AnswersAreAwaited, Quiet, WaitExpired,
     NoPoolFault, bookVars, clientVars, Move, Leaves, Takes
<1>7. Capacity'
  <2>1. Starters' = Starters
    BY <1>f DEF Starters
  <2>2. UNCHANGED <<all, poolClosed>>
    BY DEF WaitExpired, NoPoolFault, bookVars, clientVars, Move, Leaves, Takes
  <2> QED
    BY <2>1, <2>2 DEF Capacity
<1> QED
  BY <1>c, <1>1, <1>2, <1>3, <1>4, <1>5, <1>6, <1>7

LEMMA StepCheckHealthy ==
  ASSUME IInv, NEW g \in Goroutines, CheckHealthy(g)
  PROVE  IInv'
<1> USE WorkerPoolAssumption DEF IInv
<1>u. /\ idle \in Seq(Daemons) /\ NoRepeats(idle) /\ Idle = Items(idle) /\ Idle \subseteq Daemons
      /\ \A h \in Goroutines : has[h] \notin Idle
      /\ \A h, k \in Goroutines : has[h] = has[k] /\ has[h] # NoDaemon => h = k
  BY Users
<1>i. idle' \in Seq(Daemons) /\ NoRepeats(idle') /\ Idle' = Idle
  <2>1. idle' = idle
    BY DEF CheckHealthy, NoPoolFault, bookVars, clientVars, Move
  <2> QED
    BY <1>u, <2>1 DEF Idle
<1>f. /\ \A h \in Goroutines \ {g} : at'[h] = at[h] /\ has'[h] = has[h]
      /\ at[g] = "checking" /\ at'[g] = "holding" /\ has[g] \in Daemons /\ has'[g] = has[g]
  BY DEF CheckHealthy, NoPoolFault, bookVars, clientVars, Move, PoolTypeOK, Holding
<1>c. Count' /\ spawning' \in Nat
  <2>1. Spawners' = Spawners
    BY <1>f DEF Spawners
  <2>2. spawning' = spawning
    BY DEF CheckHealthy, NoPoolFault, bookVars, clientVars, Move
  <2> QED
    BY <2>1, <2>2, FS_CardinalityType DEF Count
<1>h. \A d \in Daemons : InHands(d)' <=> InHands(d)
  BY <1>f, <1>u DEF InHands, Holding
<1>1. PoolTypeOK'
  BY <1>u, <1>i, <1>f, <1>c DEF PoolTypeOK, GoroutineAt, Holding, Processes, Wires, Requests,
     Answers, Quiet, CheckHealthy, NoPoolFault, bookVars, clientVars, Move
<1>2. OneUser'
  BY <1>u, <1>i, <1>f, UsersAgain DEF Held
<1>3. Registry'
  <2>1. UNCHANGED <<all, poolClosed>>
    BY DEF CheckHealthy, NoPoolFault, bookVars, clientVars, Move
  <2> QED
    BY <1>u, <1>i, <1>f, <1>h, <2>1 DEF Registry
<1>4. Known'
  BY <1>u, <1>i, <1>f, <1>h DEF Known, PoolTypeOK, CheckHealthy, NoPoolFault, bookVars,
     clientVars, Move
<1>5. AnswersAreAwaited'
  BY <1>u, <1>i, <1>f DEF AnswersAreAwaited, PoolTypeOK, Quiet, CheckHealthy, NoPoolFault,
     bookVars, clientVars, Move
<1>6. Abreast'
  BY <1>u, <1>i, <1>f DEF Abreast, PoolTypeOK, AnswersAreAwaited, Quiet, CheckHealthy,
     NoPoolFault, bookVars, clientVars, Move
<1>7. Capacity'
  <2>1. Starters' = Starters
    BY <1>f DEF Starters
  <2>2. UNCHANGED <<all, poolClosed>>
    BY DEF CheckHealthy, NoPoolFault, bookVars, clientVars, Move
  <2> QED
    BY <2>1, <2>2 DEF Capacity
<1> QED
  BY <1>c, <1>1, <1>2, <1>3, <1>4, <1>5, <1>6, <1>7

LEMMA StepCheckDead ==
  ASSUME IInv, NEW g \in Goroutines, CheckDead(g)
  PROVE  IInv'
<1> USE WorkerPoolAssumption DEF IInv
<1>u. /\ idle \in Seq(Daemons) /\ NoRepeats(idle) /\ Idle = Items(idle) /\ Idle \subseteq Daemons
      /\ \A h \in Goroutines : has[h] \notin Idle
      /\ \A h, k \in Goroutines : has[h] = has[k] /\ has[h] # NoDaemon => h = k
  BY Users
<1>i. idle' \in Seq(Daemons) /\ NoRepeats(idle') /\ Idle' = Idle
  <2>1. idle' = idle
    BY DEF CheckDead, NoPoolFault, bookVars, clientVars, Move, Kill
  <2> QED
    BY <1>u, <2>1 DEF Idle
<1>f. /\ \A h \in Goroutines \ {g} : at'[h] = at[h] /\ has'[h] = has[h]
      /\ at[g] = "checking" /\ at'[g] = "retiring" /\ has[g] \in Daemons /\ has'[g] = has[g]
  BY DEF CheckDead, NoPoolFault, bookVars, clientVars, Move, Kill, PoolTypeOK, Holding
<1>c. Count' /\ spawning' \in Nat
  <2>1. Spawners' = Spawners
    BY <1>f DEF Spawners
  <2>2. spawning' = spawning
    BY DEF CheckDead, NoPoolFault, bookVars, clientVars, Move, Kill
  <2> QED
    BY <2>1, <2>2, FS_CardinalityType DEF Count
<1>h. \A d \in Daemons : InHands(d)' <=> InHands(d)
  BY <1>f, <1>u DEF InHands, Holding
<1>1. PoolTypeOK'
  BY <1>u, <1>i, <1>f, <1>c DEF PoolTypeOK, GoroutineAt, Holding, Processes, Wires, Requests,
     Answers, Quiet, CheckDead, NoPoolFault, bookVars, clientVars, Move, Kill
<1>2. OneUser'
  BY <1>u, <1>i, <1>f, UsersAgain DEF Held
<1>3. Registry'
  <2>1. UNCHANGED <<all, poolClosed>>
    BY DEF CheckDead, NoPoolFault, bookVars, clientVars, Move, Kill
  <2> QED
    BY <1>u, <1>i, <1>f, <1>h, <2>1 DEF Registry
<1>4. Known'
  <2>1. /\ \A e \in Daemons : process'[e] # "gone" => e # has[g] /\ process[e] # "gone"
        /\ process'[has[g]] = "gone" /\ UNCHANGED <<all, closing, abandoned>>
    BY <1>f DEF CheckDead, NoPoolFault, bookVars, clientVars, Move, Kill, PoolTypeOK
  <2>2. \A h \in Goroutines : at[h] = "retiring" => has[h] \in Daemons
    BY DEF PoolTypeOK, Holding
  <2> QED
    BY <1>f, <2>1, <2>2 DEF Known
<1>5. AnswersAreAwaited'
  BY <1>u, <1>i, <1>f DEF AnswersAreAwaited, PoolTypeOK, Quiet, CheckDead, NoPoolFault,
     bookVars, clientVars, Move, Kill
<1>6. Abreast'
  BY <1>u, <1>i, <1>f DEF Abreast, PoolTypeOK, AnswersAreAwaited, Quiet, CheckDead, NoPoolFault,
     bookVars, clientVars, Move, Kill
<1>7. Capacity'
  <2>1. Starters' = Starters
    BY <1>f DEF Starters
  <2>2. UNCHANGED <<all, poolClosed>>
    BY DEF CheckDead, NoPoolFault, bookVars, clientVars, Move, Kill
  <2> QED
    BY <2>1, <2>2 DEF Capacity
<1> QED
  BY <1>c, <1>1, <1>2, <1>3, <1>4, <1>5, <1>6, <1>7

LEMMA StepForget ==
  ASSUME IInv, NEW g \in Goroutines, Forget(g)
  PROVE  IInv'
<1> USE WorkerPoolAssumption DEF IInv
<1>u. /\ idle \in Seq(Daemons) /\ NoRepeats(idle) /\ Idle = Items(idle) /\ Idle \subseteq Daemons
      /\ \A h \in Goroutines : has[h] \notin Idle
      /\ \A h, k \in Goroutines : has[h] = has[k] /\ has[h] # NoDaemon => h = k
  BY Users
<1>i. idle' \in Seq(Daemons) /\ NoRepeats(idle') /\ Idle' = Idle
  <2>1. idle' = idle
    BY DEF Forget, NoPoolFault, bookVars, clientVars, Move, Takes
  <2> QED
    BY <1>u, <2>1 DEF Idle
<1>f. /\ \A h \in Goroutines \ {g} : at'[h] = at[h] /\ has'[h] = has[h]
      /\ at[g] = "retiring" /\ at'[g] = "looking" /\ has[g] \in Daemons /\ has'[g] = NoDaemon
  BY DEF Forget, NoPoolFault, bookVars, clientVars, Move, Takes, PoolTypeOK, Holding
<1>c. Count' /\ spawning' \in Nat
  <2>1. Spawners' = Spawners
    BY <1>f DEF Spawners
  <2>2. spawning' = spawning
    BY DEF Forget, NoPoolFault, bookVars, clientVars, Move, Takes
  <2> QED
    BY <2>1, <2>2, FS_CardinalityType DEF Count
<1>h. \A d \in Daemons : InHands(d)' <=> InHands(d) /\ d # has[g]
  BY <1>f, <1>u DEF InHands, Holding
<1>1. PoolTypeOK'
  BY <1>u, <1>i, <1>f, <1>c DEF PoolTypeOK, GoroutineAt, Holding, Processes, Wires, Requests,
     Answers, Quiet, Forget, NoPoolFault, bookVars, clientVars, Move, Takes
<1>2. OneUser'
  BY <1>u, <1>i, <1>f, UsersAgain DEF Held
<1>3. Registry'
  BY <1>u, <1>i, <1>f, <1>h DEF Registry, Forget, NoPoolFault, bookVars, clientVars, Move, Takes
<1>4. Known'
  BY <1>u, <1>i, <1>f, <1>h DEF Known, PoolTypeOK, Forget, NoPoolFault, bookVars, clientVars,
     Move, Takes
<1>5. AnswersAreAwaited'
  BY <1>u, <1>i, <1>f DEF AnswersAreAwaited, PoolTypeOK, Quiet, Forget, NoPoolFault, bookVars,
     clientVars, Move, Takes
<1>6. Abreast'
  BY <1>u, <1>i, <1>f DEF Abreast, PoolTypeOK, AnswersAreAwaited, Quiet, Forget, NoPoolFault,
     bookVars, clientVars, Move, Takes
<1>7. Capacity'
  <2>1. Starters' = Starters
    BY <1>f DEF Starters
  <2>2. all' \subseteq all /\ UNCHANGED poolClosed
    BY DEF Forget, NoPoolFault, bookVars, clientVars, Move, Takes
  <2> QED
    BY <2>1, <2>2, CapacityKept DEF PoolTypeOK
<1> QED
  BY <1>c, <1>1, <1>2, <1>3, <1>4, <1>5, <1>6, <1>7

LEMMA StepProcessReady ==
  ASSUME IInv, NEW d \in Daemons, ProcessReady(d)
  PROVE  IInv'
<1> USE WorkerPoolAssumption DEF IInv
<1>u. /\ idle \in Seq(Daemons) /\ NoRepeats(idle) /\ Idle = Items(idle) /\ Idle \subseteq Daemons
      /\ \A h \in Goroutines : has[h] \notin Idle
      /\ \A h, k \in Goroutines : has[h] = has[k] /\ has[h] # NoDaemon => h = k
  BY Users
<1>i. idle' \in Seq(Daemons) /\ NoRepeats(idle') /\ Idle' = Idle
  <2>1. idle' = idle
    BY DEF ProcessReady, NoPoolFault, bookVars, clientVars
  <2> QED
    BY <1>u, <2>1 DEF Idle
<1>f. UNCHANGED <<at, has>>
  BY DEF ProcessReady, NoPoolFault, bookVars, clientVars
<1>c. Count' /\ spawning' \in Nat
  <2>1. Spawners' = Spawners
    BY <1>f DEF Spawners
  <2>2. spawning' = spawning
    BY DEF ProcessReady, NoPoolFault, bookVars, clientVars
  <2> QED
    BY <2>1, <2>2, FS_CardinalityType DEF Count
<1>h. \A e \in Daemons : InHands(e)' <=> InHands(e)
  BY <1>f, <1>u DEF InHands, Holding
<1>1. PoolTypeOK'
  BY <1>u, <1>i, <1>f, <1>c DEF PoolTypeOK, GoroutineAt, Holding, Processes, Wires, Requests,
     Answers, Quiet, ProcessReady, NoPoolFault, bookVars, clientVars
<1>2. OneUser'
  BY <1>u, <1>i, <1>f, UsersAgain DEF Held
<1>3. Registry'
  <2>1. UNCHANGED <<all, poolClosed>>
    BY DEF ProcessReady, NoPoolFault, bookVars, clientVars
  <2> QED
    BY <1>u, <1>i, <1>f, <1>h, <2>1 DEF Registry
<1>4. Known'
  BY <1>u, <1>i, <1>f, <1>h DEF Known, PoolTypeOK, ProcessReady, NoPoolFault, bookVars, clientVars
<1>5. AnswersAreAwaited'
  BY <1>u, <1>i, <1>f DEF AnswersAreAwaited, PoolTypeOK, Quiet, ProcessReady, NoPoolFault,
     bookVars, clientVars
<1>6. Abreast'
  BY <1>u, <1>i, <1>f DEF Abreast, PoolTypeOK, AnswersAreAwaited, Quiet, ProcessReady,
     NoPoolFault, bookVars, clientVars
<1>7. Capacity'
  <2>1. Starters' = Starters
    BY <1>f DEF Starters
  <2>2. UNCHANGED <<all, poolClosed>>
    BY DEF ProcessReady, NoPoolFault, bookVars, clientVars
  <2> QED
    BY <2>1, <2>2 DEF Capacity
<1> QED
  BY <1>c, <1>1, <1>2, <1>3, <1>4, <1>5, <1>6, <1>7

LEMMA StepProcessFails ==
  ASSUME IInv, NEW d \in Daemons, ProcessFails(d)
  PROVE  IInv'
<1> USE WorkerPoolAssumption DEF IInv
<1>u. /\ idle \in Seq(Daemons) /\ NoRepeats(idle) /\ Idle = Items(idle) /\ Idle \subseteq Daemons
      /\ \A h \in Goroutines : has[h] \notin Idle
      /\ \A h, k \in Goroutines : has[h] = has[k] /\ has[h] # NoDaemon => h = k
  BY Users
<1>i. idle' \in Seq(Daemons) /\ NoRepeats(idle') /\ Idle' = Idle
  <2>1. idle' = idle
    BY DEF ProcessFails, NoPoolFault, bookVars, clientVars, Kill, PoolFault
  <2> QED
    BY <1>u, <2>1 DEF Idle
<1>f. UNCHANGED <<at, has>>
  BY DEF ProcessFails, NoPoolFault, bookVars, clientVars, Kill, PoolFault
<1>c. Count' /\ spawning' \in Nat
  <2>1. Spawners' = Spawners
    BY <1>f DEF Spawners
  <2>2. spawning' = spawning
    BY DEF ProcessFails, NoPoolFault, bookVars, clientVars, Kill, PoolFault
  <2> QED
    BY <2>1, <2>2, FS_CardinalityType DEF Count
<1>h. \A e \in Daemons : InHands(e)' <=> InHands(e)
  BY <1>f, <1>u DEF InHands, Holding
<1>1. PoolTypeOK'
  BY <1>u, <1>i, <1>f, <1>c DEF PoolTypeOK, GoroutineAt, Holding, Processes, Wires, Requests,
     Answers, Quiet, ProcessFails, NoPoolFault, bookVars, clientVars, Kill, PoolFault
<1>2. OneUser'
  BY <1>u, <1>i, <1>f, UsersAgain DEF Held
<1>3. Registry'
  <2>1. UNCHANGED <<all, poolClosed>>
    BY DEF ProcessFails, NoPoolFault, bookVars, clientVars, Kill, PoolFault
  <2> QED
    BY <1>u, <1>i, <1>f, <1>h, <2>1 DEF Registry
<1>4. Known'
  <2>1. /\ \A e \in Daemons : process'[e] # "gone" => e # d /\ process[e] # "gone"
        /\ process'[d] = "gone" /\ UNCHANGED <<all, closing, abandoned>>
    BY DEF ProcessFails, NoPoolFault, bookVars, clientVars, Kill, PoolFault, PoolTypeOK
  <2>2. \A h \in Goroutines : at[h] = "retiring" => has[h] \in Daemons
    BY DEF PoolTypeOK, Holding
  <2> QED
    BY <1>f, <2>1, <2>2 DEF Known
<1>5. AnswersAreAwaited'
  BY <1>u, <1>i, <1>f DEF AnswersAreAwaited, PoolTypeOK, Quiet, ProcessFails, NoPoolFault,
     bookVars, clientVars, Kill, PoolFault
<1>6. Abreast'
  BY <1>u, <1>i, <1>f DEF Abreast, PoolTypeOK, AnswersAreAwaited, Quiet, ProcessFails,
     NoPoolFault, bookVars, clientVars, Kill, PoolFault
<1>7. Capacity'
  <2>1. Starters' = Starters
    BY <1>f DEF Starters
  <2>2. UNCHANGED <<all, poolClosed>>
    BY DEF ProcessFails, NoPoolFault, bookVars, clientVars, Kill, PoolFault
  <2> QED
    BY <2>1, <2>2 DEF Capacity
<1> QED
  BY <1>c, <1>1, <1>2, <1>3, <1>4, <1>5, <1>6, <1>7

LEMMA StepSpawnExpired ==
  ASSUME IInv, NEW g \in Goroutines, SpawnExpired(g)
  PROVE  IInv'
<1> USE WorkerPoolAssumption DEF IInv
<1>u. /\ idle \in Seq(Daemons) /\ NoRepeats(idle) /\ Idle = Items(idle) /\ Idle \subseteq Daemons
      /\ \A h \in Goroutines : has[h] \notin Idle
      /\ \A h, k \in Goroutines : has[h] = has[k] /\ has[h] # NoDaemon => h = k
  BY Users
<1>i. idle' \in Seq(Daemons) /\ NoRepeats(idle') /\ Idle' = Idle
  <2>1. idle' = idle
    BY DEF SpawnExpired, NoPoolFault, bookVars, clientVars, Move, Leaves, Takes
  <2> QED
    BY <1>u, <2>1 DEF Idle
<1>f. /\ \A h \in Goroutines \ {g} : at'[h] = at[h] /\ has'[h] = has[h]
      /\ at[g] = "spawning" /\ at'[g] = "away" /\ has[g] \in Daemons /\ has'[g] = NoDaemon
  BY DEF SpawnExpired, NoPoolFault, bookVars, clientVars, Move, Leaves, Takes, PoolTypeOK, Holding
<1>c. Count' /\ spawning' \in Nat
  <2>1. Spawners' = Spawners \ {g} /\ g \in Spawners
    BY <1>f DEF Spawners
  <2>2. spawning' = spawning - 1
    BY DEF SpawnExpired, NoPoolFault, bookVars, clientVars, Move, Leaves, Takes
  <2>3. /\ IsFiniteSet(Spawners) /\ Cardinality(Spawners) \in Nat /\ IsFiniteSet(Spawners')
        /\ Cardinality(Spawners') = Cardinality(Spawners) - 1
        /\ Cardinality(Spawners') \in Nat
    BY <2>1, FS_RemoveElement, FS_CardinalityType DEF Count
  <2> QED
    BY <2>2, <2>3 DEF Count
<1>h. \A d \in Daemons : InHands(d)' <=> InHands(d)
  BY <1>f, <1>u DEF InHands, Holding
<1>1. PoolTypeOK'
  BY <1>u, <1>i, <1>f, <1>c DEF PoolTypeOK, GoroutineAt, Holding, Processes, Wires, Requests,
     Answers, Quiet, SpawnExpired, NoPoolFault, bookVars, clientVars, Move, Leaves, Takes
<1>2. OneUser'
  BY <1>u, <1>i, <1>f, UsersAgain DEF Held
<1>3. Registry'
  <2>1. UNCHANGED <<all, poolClosed>>
    BY DEF SpawnExpired, NoPoolFault, bookVars, clientVars, Move, Leaves, Takes
  <2> QED
    BY <1>u, <1>i, <1>f, <1>h, <2>1 DEF Registry
<1>4. Known'
  BY <1>u, <1>i, <1>f, <1>h DEF Known, PoolTypeOK, SpawnExpired, NoPoolFault, bookVars,
     clientVars, Move, Leaves, Takes
<1>5. AnswersAreAwaited'
  BY <1>u, <1>i, <1>f DEF AnswersAreAwaited, PoolTypeOK, Quiet, SpawnExpired, NoPoolFault,
     bookVars, clientVars, Move, Leaves, Takes
<1>6. Abreast'
  BY <1>u, <1>i, <1>f DEF Abreast, PoolTypeOK, AnswersAreAwaited, Quiet, SpawnExpired,
     NoPoolFault, bookVars, clientVars, Move, Leaves, Takes
<1>7. Capacity'
  <2>1. Starters' = Starters \ {g} /\ g \in Starters
    BY <1>f DEF Starters
  <2>2. UNCHANGED <<all, poolClosed>>
    BY DEF SpawnExpired, NoPoolFault, bookVars, clientVars, Move, Leaves, Takes
  <2> QED
    BY <2>1, <2>2, CapacityKept DEF PoolTypeOK
<1> QED
  BY <1>c, <1>1, <1>2, <1>3, <1>4, <1>5, <1>6, <1>7

LEMMA StepSpawnFailed ==
  ASSUME IInv, NEW g \in Goroutines, SpawnFailed(g)
  PROVE  IInv'
<1> USE WorkerPoolAssumption DEF IInv
<1>u. /\ idle \in Seq(Daemons) /\ NoRepeats(idle) /\ Idle = Items(idle) /\ Idle \subseteq Daemons
      /\ \A h \in Goroutines : has[h] \notin Idle
      /\ \A h, k \in Goroutines : has[h] = has[k] /\ has[h] # NoDaemon => h = k
  BY Users
<1>i. idle' \in Seq(Daemons) /\ NoRepeats(idle') /\ Idle' = Idle
  <2>1. idle' = idle
    BY DEF SpawnFailed, NoPoolFault, bookVars, clientVars, Move, Leaves, Takes
  <2> QED
    BY <1>u, <2>1 DEF Idle
<1>f. /\ \A h \in Goroutines \ {g} : at'[h] = at[h] /\ has'[h] = has[h]
      /\ at[g] = "spawning" /\ at'[g] = "away" /\ has[g] \in Daemons /\ has'[g] = NoDaemon
  BY DEF SpawnFailed, NoPoolFault, bookVars, clientVars, Move, Leaves, Takes, PoolTypeOK, Holding
<1>c. Count' /\ spawning' \in Nat
  <2>1. Spawners' = Spawners \ {g} /\ g \in Spawners
    BY <1>f DEF Spawners
  <2>2. spawning' = spawning - 1
    BY DEF SpawnFailed, NoPoolFault, bookVars, clientVars, Move, Leaves, Takes
  <2>3. /\ IsFiniteSet(Spawners) /\ Cardinality(Spawners) \in Nat /\ IsFiniteSet(Spawners')
        /\ Cardinality(Spawners') = Cardinality(Spawners) - 1
        /\ Cardinality(Spawners') \in Nat
    BY <2>1, FS_RemoveElement, FS_CardinalityType DEF Count
  <2> QED
    BY <2>2, <2>3 DEF Count
<1>h. \A d \in Daemons : InHands(d)' <=> InHands(d)
  BY <1>f, <1>u DEF InHands, Holding
<1>1. PoolTypeOK'
  BY <1>u, <1>i, <1>f, <1>c DEF PoolTypeOK, GoroutineAt, Holding, Processes, Wires, Requests,
     Answers, Quiet, SpawnFailed, NoPoolFault, bookVars, clientVars, Move, Leaves, Takes
<1>2. OneUser'
  BY <1>u, <1>i, <1>f, UsersAgain DEF Held
<1>3. Registry'
  <2>1. UNCHANGED <<all, poolClosed>>
    BY DEF SpawnFailed, NoPoolFault, bookVars, clientVars, Move, Leaves, Takes
  <2> QED
    BY <1>u, <1>i, <1>f, <1>h, <2>1 DEF Registry
<1>4. Known'
  BY <1>u, <1>i, <1>f, <1>h DEF Known, PoolTypeOK, SpawnFailed, NoPoolFault, bookVars,
     clientVars, Move, Leaves, Takes
<1>5. AnswersAreAwaited'
  BY <1>u, <1>i, <1>f DEF AnswersAreAwaited, PoolTypeOK, Quiet, SpawnFailed, NoPoolFault,
     bookVars, clientVars, Move, Leaves, Takes
<1>6. Abreast'
  BY <1>u, <1>i, <1>f DEF Abreast, PoolTypeOK, AnswersAreAwaited, Quiet, SpawnFailed,
     NoPoolFault, bookVars, clientVars, Move, Leaves, Takes
<1>7. Capacity'
  <2>1. Starters' = Starters \ {g} /\ g \in Starters
    BY <1>f DEF Starters
  <2>2. UNCHANGED <<all, poolClosed>>
    BY DEF SpawnFailed, NoPoolFault, bookVars, clientVars, Move, Leaves, Takes
  <2> QED
    BY <2>1, <2>2, CapacityKept DEF PoolTypeOK
<1> QED
  BY <1>c, <1>1, <1>2, <1>3, <1>4, <1>5, <1>6, <1>7

LEMMA StepSpawnClosed ==
  ASSUME IInv, NEW g \in Goroutines, SpawnClosed(g)
  PROVE  IInv'
<1> USE WorkerPoolAssumption DEF IInv
<1>u. /\ idle \in Seq(Daemons) /\ NoRepeats(idle) /\ Idle = Items(idle) /\ Idle \subseteq Daemons
      /\ \A h \in Goroutines : has[h] \notin Idle
      /\ \A h, k \in Goroutines : has[h] = has[k] /\ has[h] # NoDaemon => h = k
  BY Users
<1>i. idle' \in Seq(Daemons) /\ NoRepeats(idle') /\ Idle' = Idle
  <2>1. idle' = idle
    BY DEF SpawnClosed, NoPoolFault, bookVars, clientVars, Move, Leaves, Takes, Kill
  <2> QED
    BY <1>u, <2>1 DEF Idle
<1>f. /\ \A h \in Goroutines \ {g} : at'[h] = at[h] /\ has'[h] = has[h]
      /\ at[g] = "spawning" /\ at'[g] = "away" /\ has[g] \in Daemons /\ has'[g] = NoDaemon
  BY DEF SpawnClosed, NoPoolFault, bookVars, clientVars, Move, Leaves, Takes, Kill, PoolTypeOK,
     Holding
<1>c. Count' /\ spawning' \in Nat
  <2>1. Spawners' = Spawners \ {g} /\ g \in Spawners
    BY <1>f DEF Spawners
  <2>2. spawning' = spawning - 1
    BY DEF SpawnClosed, NoPoolFault, bookVars, clientVars, Move, Leaves, Takes, Kill
  <2>3. /\ IsFiniteSet(Spawners) /\ Cardinality(Spawners) \in Nat /\ IsFiniteSet(Spawners')
        /\ Cardinality(Spawners') = Cardinality(Spawners) - 1
        /\ Cardinality(Spawners') \in Nat
    BY <2>1, FS_RemoveElement, FS_CardinalityType DEF Count
  <2> QED
    BY <2>2, <2>3 DEF Count
<1>h. \A d \in Daemons : InHands(d)' <=> InHands(d)
  BY <1>f, <1>u DEF InHands, Holding
<1>1. PoolTypeOK'
  BY <1>u, <1>i, <1>f, <1>c DEF PoolTypeOK, GoroutineAt, Holding, Processes, Wires, Requests,
     Answers, Quiet, SpawnClosed, NoPoolFault, bookVars, clientVars, Move, Leaves, Takes, Kill
<1>2. OneUser'
  BY <1>u, <1>i, <1>f, UsersAgain DEF Held
<1>3. Registry'
  <2>1. UNCHANGED <<all, poolClosed>>
    BY DEF SpawnClosed, NoPoolFault, bookVars, clientVars, Move, Leaves, Takes, Kill
  <2> QED
    BY <1>u, <1>i, <1>f, <1>h, <2>1 DEF Registry
<1>4. Known'
  <2>1. /\ \A e \in Daemons : process'[e] # "gone" => e # has[g] /\ process[e] # "gone"
        /\ process'[has[g]] = "gone" /\ UNCHANGED <<all, closing, abandoned>>
    BY <1>f DEF SpawnClosed, NoPoolFault, bookVars, clientVars, Move, Leaves, Takes, Kill,
       PoolTypeOK
  <2>2. \A h \in Goroutines : at[h] = "retiring" => has[h] \in Daemons
    BY DEF PoolTypeOK, Holding
  <2> QED
    BY <1>f, <2>1, <2>2 DEF Known
<1>5. AnswersAreAwaited'
  BY <1>u, <1>i, <1>f DEF AnswersAreAwaited, PoolTypeOK, Quiet, SpawnClosed, NoPoolFault,
     bookVars, clientVars, Move, Leaves, Takes, Kill
<1>6. Abreast'
  BY <1>u, <1>i, <1>f DEF Abreast, PoolTypeOK, AnswersAreAwaited, Quiet, SpawnClosed,
     NoPoolFault, bookVars, clientVars, Move, Leaves, Takes, Kill
<1>7. Capacity'
  <2>1. Starters' = Starters \ {g} /\ g \in Starters
    BY <1>f DEF Starters
  <2>2. UNCHANGED <<all, poolClosed>>
    BY DEF SpawnClosed, NoPoolFault, bookVars, clientVars, Move, Leaves, Takes, Kill
  <2> QED
    BY <2>1, <2>2, CapacityKept DEF PoolTypeOK
<1> QED
  BY <1>c, <1>1, <1>2, <1>3, <1>4, <1>5, <1>6, <1>7

LEMMA StepSpawnRegister ==
  ASSUME IInv, NEW g \in Goroutines, SpawnRegister(g)
  PROVE  IInv'
<1> USE WorkerPoolAssumption DEF IInv
<1>u. /\ idle \in Seq(Daemons) /\ NoRepeats(idle) /\ Idle = Items(idle) /\ Idle \subseteq Daemons
      /\ \A h \in Goroutines : has[h] \notin Idle
      /\ \A h, k \in Goroutines : has[h] = has[k] /\ has[h] # NoDaemon => h = k
  BY Users
<1>i. idle' \in Seq(Daemons) /\ NoRepeats(idle') /\ Idle' = Idle
  <2>1. idle' = idle
    BY DEF SpawnRegister, NoPoolFault, bookVars, clientVars, Move, Started
  <2> QED
    BY <1>u, <2>1 DEF Idle
<1>f. /\ \A h \in Goroutines \ {g} : at'[h] = at[h] /\ has'[h] = has[h]
      /\ at[g] = "spawning" /\ at'[g] = "registered" /\ has[g] \in Daemons /\ has'[g] = has[g]
  BY DEF SpawnRegister, NoPoolFault, bookVars, clientVars, Move, Started, PoolTypeOK, Holding
<1>c. Count' /\ spawning' \in Nat
  <2>1. Spawners' = Spawners
    BY <1>f DEF Spawners
  <2>2. spawning' = spawning
    BY DEF SpawnRegister, NoPoolFault, bookVars, clientVars, Move, Started
  <2> QED
    BY <2>1, <2>2, FS_CardinalityType DEF Count
<1>h. \A d \in Daemons : InHands(d)' <=> InHands(d) \/ d = has[g]
  BY <1>f, <1>u DEF InHands, Holding
<1>1. PoolTypeOK'
  BY <1>u, <1>i, <1>f, <1>c DEF PoolTypeOK, GoroutineAt, Holding, Processes, Wires, Requests,
     Answers, Quiet, SpawnRegister, NoPoolFault, bookVars, clientVars, Move, Started
<1>2. OneUser'
  BY <1>u, <1>i, <1>f, UsersAgain DEF Held
<1>3. Registry'
  BY <1>u, <1>i, <1>f, <1>h DEF Registry, SpawnRegister, NoPoolFault, bookVars, clientVars,
     Move, Started
<1>4. Known'
  BY <1>u, <1>i, <1>f, <1>h DEF Known, PoolTypeOK, SpawnRegister, NoPoolFault, bookVars,
     clientVars, Move, Started
<1>5. AnswersAreAwaited'
  BY <1>u, <1>i, <1>f DEF AnswersAreAwaited, PoolTypeOK, Quiet, SpawnRegister, NoPoolFault,
     bookVars, clientVars, Move, Started
<1>6. Abreast'
  BY <1>u, <1>i, <1>f DEF Abreast, PoolTypeOK, AnswersAreAwaited, Quiet, SpawnRegister,
     NoPoolFault, bookVars, clientVars, Move, Started
<1>7. Capacity'
  <2>1. Starters' = Starters \ {g} /\ g \in Starters /\ Starters \subseteq Spawners
    BY <1>f DEF Starters, Spawners
  <2>2. all' = all \cup {has[g]} /\ UNCHANGED poolClosed
    BY DEF SpawnRegister, NoPoolFault, bookVars, clientVars, Move, Started
  <2>3. IsFiniteSet(Starters) /\ Cardinality(Starters) \in Nat
    BY <2>1, FS_Subset, FS_CardinalityType DEF Count
  <2>4. Cardinality(Starters') = Cardinality(Starters) - 1
    BY <2>1, <2>3, FS_RemoveElement
  <2>5. Cardinality(all) \in Nat /\ IsFiniteSet(all)
    BY FS_CardinalityType DEF Capacity
  <2>6. /\ IsFiniteSet(all') /\ Cardinality(all') \in Nat
        /\ Cardinality(all') = Cardinality(all) \/ Cardinality(all') = Cardinality(all) + 1
    BY <2>2, <2>5, FS_AddElement, FS_CardinalityType
  <2> QED
    BY <2>2, <2>3, <2>4, <2>5, <2>6 DEF Capacity
<1> QED
  BY <1>c, <1>1, <1>2, <1>3, <1>4, <1>5, <1>6, <1>7

LEMMA StepUnreserve ==
  ASSUME IInv, NEW g \in Goroutines, Unreserve(g)
  PROVE  IInv'
<1> USE WorkerPoolAssumption DEF IInv
<1>u. /\ idle \in Seq(Daemons) /\ NoRepeats(idle) /\ Idle = Items(idle) /\ Idle \subseteq Daemons
      /\ \A h \in Goroutines : has[h] \notin Idle
      /\ \A h, k \in Goroutines : has[h] = has[k] /\ has[h] # NoDaemon => h = k
  BY Users
<1>i. idle' \in Seq(Daemons) /\ NoRepeats(idle') /\ Idle' = Idle
  <2>1. idle' = idle
    BY DEF Unreserve, NoPoolFault, bookVars, clientVars, Move
  <2> QED
    BY <1>u, <2>1 DEF Idle
<1>f. /\ \A h \in Goroutines \ {g} : at'[h] = at[h] /\ has'[h] = has[h]
      /\ at[g] = "registered" /\ at'[g] \in {"holding", "releasing"} /\ has[g] \in Daemons /\ has'[g] = has[g]
  BY DEF Unreserve, NoPoolFault, bookVars, clientVars, Move, PoolTypeOK, Holding
<1>c. Count' /\ spawning' \in Nat
  <2>1. Spawners' = Spawners \ {g} /\ g \in Spawners
    BY <1>f DEF Spawners
  <2>2. spawning' = spawning - 1
    BY DEF Unreserve, NoPoolFault, bookVars, clientVars, Move
  <2>3. /\ IsFiniteSet(Spawners) /\ Cardinality(Spawners) \in Nat /\ IsFiniteSet(Spawners')
        /\ Cardinality(Spawners') = Cardinality(Spawners) - 1
        /\ Cardinality(Spawners') \in Nat
    BY <2>1, FS_RemoveElement, FS_CardinalityType DEF Count
  <2> QED
    BY <2>2, <2>3 DEF Count
<1>h. \A d \in Daemons : InHands(d)' <=> InHands(d)
  BY <1>f, <1>u DEF InHands, Holding
<1>1. PoolTypeOK'
  BY <1>u, <1>i, <1>f, <1>c DEF PoolTypeOK, GoroutineAt, Holding, Processes, Wires, Requests,
     Answers, Quiet, Unreserve, NoPoolFault, bookVars, clientVars, Move
<1>2. OneUser'
  BY <1>u, <1>i, <1>f, UsersAgain DEF Held
<1>3. Registry'
  <2>1. UNCHANGED <<all, poolClosed>>
    BY DEF Unreserve, NoPoolFault, bookVars, clientVars, Move
  <2> QED
    BY <1>u, <1>i, <1>f, <1>h, <2>1 DEF Registry
<1>4. Known'
  BY <1>u, <1>i, <1>f, <1>h DEF Known, PoolTypeOK, Unreserve, NoPoolFault, bookVars, clientVars,
     Move
<1>5. AnswersAreAwaited'
  BY <1>u, <1>i, <1>f DEF AnswersAreAwaited, PoolTypeOK, Quiet, Unreserve, NoPoolFault,
     bookVars, clientVars, Move
<1>6. Abreast'
  BY <1>u, <1>i, <1>f DEF Abreast, PoolTypeOK, AnswersAreAwaited, Quiet, Unreserve, NoPoolFault,
     bookVars, clientVars, Move
<1>7. Capacity'
  <2>1. Starters' = Starters
    BY <1>f DEF Starters
  <2>2. UNCHANGED <<all, poolClosed>>
    BY DEF Unreserve, NoPoolFault, bookVars, clientVars, Move
  <2> QED
    BY <2>1, <2>2 DEF Capacity
<1> QED
  BY <1>c, <1>1, <1>2, <1>3, <1>4, <1>5, <1>6, <1>7

LEMMA StepSend ==
  ASSUME IInv, NEW g \in Goroutines, Send(g)
  PROVE  IInv'
<1> USE WorkerPoolAssumption DEF IInv
<1>u. /\ idle \in Seq(Daemons) /\ NoRepeats(idle) /\ Idle = Items(idle) /\ Idle \subseteq Daemons
      /\ \A h \in Goroutines : has[h] \notin Idle
      /\ \A h, k \in Goroutines : has[h] = has[k] /\ has[h] # NoDaemon => h = k
  BY Users
<1>i. idle' \in Seq(Daemons) /\ NoRepeats(idle') /\ Idle' = Idle
  <2>1. idle' = idle
    BY DEF Send, NoPoolFault, bookVars, clientVars, Move
  <2> QED
    BY <1>u, <2>1 DEF Idle
<1>f. /\ \A h \in Goroutines \ {g} : at'[h] = at[h] /\ has'[h] = has[h]
      /\ at[g] = "holding" /\ at'[g] = "calling" /\ has[g] \in Daemons /\ has'[g] = has[g]
  BY DEF Send, NoPoolFault, bookVars, clientVars, Move, PoolTypeOK, Holding
<1>c. Count' /\ spawning' \in Nat
  <2>1. Spawners' = Spawners
    BY <1>f DEF Spawners
  <2>2. spawning' = spawning
    BY DEF Send, NoPoolFault, bookVars, clientVars, Move
  <2> QED
    BY <2>1, <2>2, FS_CardinalityType DEF Count
<1>h. \A d \in Daemons : InHands(d)' <=> InHands(d)
  BY <1>f, <1>u DEF InHands, Holding
<1>1. PoolTypeOK'
  BY <1>u, <1>i, <1>f, <1>c DEF PoolTypeOK, GoroutineAt, Holding, Processes, Wires, Requests,
     Answers, Quiet, Send, NoPoolFault, bookVars, clientVars, Move
<1>2. OneUser'
  BY <1>u, <1>i, <1>f, UsersAgain DEF Held
<1>3. Registry'
  <2>1. UNCHANGED <<all, poolClosed>>
    BY DEF Send, NoPoolFault, bookVars, clientVars, Move
  <2> QED
    BY <1>u, <1>i, <1>f, <1>h, <2>1 DEF Registry
<1>4. Known'
  BY <1>u, <1>i, <1>f, <1>h DEF Known, PoolTypeOK, Send, NoPoolFault, bookVars, clientVars, Move
<1>5. AnswersAreAwaited'
  BY <1>u, <1>i, <1>f DEF AnswersAreAwaited, PoolTypeOK, Quiet, Send, NoPoolFault, bookVars,
     clientVars, Move
<1>6. Abreast'
  <2>1. wire[has[g]] = Quiet
    <3> SUFFICES ASSUME wire[has[g]] # Quiet PROVE FALSE
      OBVIOUS
    <3>1. wire[has[g]].by \in Goroutines
      BY <1>f DEF PoolTypeOK, Wires, Requests, Answers
    <3> QED
      BY <1>f, <1>u, <3>1 DEF AnswersAreAwaited, PoolTypeOK
  <2>2. UNCHANGED <<served, taskCount>> /\ \A d \in Daemons \ {has[g]} : wire'[d] = wire[d]
    BY DEF Send, NoPoolFault, bookVars, clientVars, Move, PoolTypeOK
  <2>3. wire[has[g]].state # "done"
    BY <2>1 DEF Quiet
  <2> QED
    BY <2>2, <2>3 DEF Abreast
<1>7. Capacity'
  <2>1. Starters' = Starters
    BY <1>f DEF Starters
  <2>2. UNCHANGED <<all, poolClosed>>
    BY DEF Send, NoPoolFault, bookVars, clientVars, Move
  <2> QED
    BY <2>1, <2>2 DEF Capacity
<1> QED
  BY <1>c, <1>1, <1>2, <1>3, <1>4, <1>5, <1>6, <1>7

LEMMA StepSendFails ==
  ASSUME IInv, NEW g \in Goroutines, SendFails(g)
  PROVE  IInv'
<1> USE WorkerPoolAssumption DEF IInv
<1>u. /\ idle \in Seq(Daemons) /\ NoRepeats(idle) /\ Idle = Items(idle) /\ Idle \subseteq Daemons
      /\ \A h \in Goroutines : has[h] \notin Idle
      /\ \A h, k \in Goroutines : has[h] = has[k] /\ has[h] # NoDaemon => h = k
  BY Users
<1>i. idle' \in Seq(Daemons) /\ NoRepeats(idle') /\ Idle' = Idle
  <2>1. idle' = idle
    BY DEF SendFails, NoPoolFault, bookVars, clientVars, Move, Kill
  <2> QED
    BY <1>u, <2>1 DEF Idle
<1>f. /\ \A h \in Goroutines \ {g} : at'[h] = at[h] /\ has'[h] = has[h]
      /\ at[g] = "holding" /\ at'[g] = "releasing" /\ has[g] \in Daemons /\ has'[g] = has[g]
  BY DEF SendFails, NoPoolFault, bookVars, clientVars, Move, Kill, PoolTypeOK, Holding
<1>c. Count' /\ spawning' \in Nat
  <2>1. Spawners' = Spawners
    BY <1>f DEF Spawners
  <2>2. spawning' = spawning
    BY DEF SendFails, NoPoolFault, bookVars, clientVars, Move, Kill
  <2> QED
    BY <2>1, <2>2, FS_CardinalityType DEF Count
<1>h. \A d \in Daemons : InHands(d)' <=> InHands(d)
  BY <1>f, <1>u DEF InHands, Holding
<1>1. PoolTypeOK'
  BY <1>u, <1>i, <1>f, <1>c DEF PoolTypeOK, GoroutineAt, Holding, Processes, Wires, Requests,
     Answers, Quiet, SendFails, NoPoolFault, bookVars, clientVars, Move, Kill
<1>2. OneUser'
  BY <1>u, <1>i, <1>f, UsersAgain DEF Held
<1>3. Registry'
  <2>1. UNCHANGED <<all, poolClosed>>
    BY DEF SendFails, NoPoolFault, bookVars, clientVars, Move, Kill
  <2> QED
    BY <1>u, <1>i, <1>f, <1>h, <2>1 DEF Registry
<1>4. Known'
  <2>1. /\ \A e \in Daemons : process'[e] # "gone" => e # has[g] /\ process[e] # "gone"
        /\ process'[has[g]] = "gone" /\ UNCHANGED <<all, closing, abandoned>>
    BY <1>f DEF SendFails, NoPoolFault, bookVars, clientVars, Move, Kill, PoolTypeOK
  <2>2. \A h \in Goroutines : at[h] = "retiring" => has[h] \in Daemons
    BY DEF PoolTypeOK, Holding
  <2> QED
    BY <1>f, <2>1, <2>2 DEF Known
<1>5. AnswersAreAwaited'
  BY <1>u, <1>i, <1>f DEF AnswersAreAwaited, PoolTypeOK, Quiet, SendFails, NoPoolFault,
     bookVars, clientVars, Move, Kill
<1>6. Abreast'
  BY <1>u, <1>i, <1>f DEF Abreast, PoolTypeOK, AnswersAreAwaited, Quiet, SendFails, NoPoolFault,
     bookVars, clientVars, Move, Kill
<1>7. Capacity'
  <2>1. Starters' = Starters
    BY <1>f DEF Starters
  <2>2. UNCHANGED <<all, poolClosed>>
    BY DEF SendFails, NoPoolFault, bookVars, clientVars, Move, Kill
  <2> QED
    BY <2>1, <2>2 DEF Capacity
<1> QED
  BY <1>c, <1>1, <1>2, <1>3, <1>4, <1>5, <1>6, <1>7

LEMMA StepRefuse ==
  ASSUME IInv, NEW g \in Goroutines, Refuse(g)
  PROVE  IInv'
<1> USE WorkerPoolAssumption DEF IInv
<1>u. /\ idle \in Seq(Daemons) /\ NoRepeats(idle) /\ Idle = Items(idle) /\ Idle \subseteq Daemons
      /\ \A h \in Goroutines : has[h] \notin Idle
      /\ \A h, k \in Goroutines : has[h] = has[k] /\ has[h] # NoDaemon => h = k
  BY Users
<1>i. idle' \in Seq(Daemons) /\ NoRepeats(idle') /\ Idle' = Idle
  <2>1. idle' = idle
    BY DEF Refuse, NoPoolFault, bookVars, clientVars, Move
  <2> QED
    BY <1>u, <2>1 DEF Idle
<1>f. /\ \A h \in Goroutines \ {g} : at'[h] = at[h] /\ has'[h] = has[h]
      /\ at[g] = "holding" /\ at'[g] = "releasing" /\ has[g] \in Daemons /\ has'[g] = has[g]
  BY DEF Refuse, NoPoolFault, bookVars, clientVars, Move, PoolTypeOK, Holding
<1>c. Count' /\ spawning' \in Nat
  <2>1. Spawners' = Spawners
    BY <1>f DEF Spawners
  <2>2. spawning' = spawning
    BY DEF Refuse, NoPoolFault, bookVars, clientVars, Move
  <2> QED
    BY <2>1, <2>2, FS_CardinalityType DEF Count
<1>h. \A d \in Daemons : InHands(d)' <=> InHands(d)
  BY <1>f, <1>u DEF InHands, Holding
<1>1. PoolTypeOK'
  BY <1>u, <1>i, <1>f, <1>c DEF PoolTypeOK, GoroutineAt, Holding, Processes, Wires, Requests,
     Answers, Quiet, Refuse, NoPoolFault, bookVars, clientVars, Move
<1>2. OneUser'
  BY <1>u, <1>i, <1>f, UsersAgain DEF Held
<1>3. Registry'
  <2>1. UNCHANGED <<all, poolClosed>>
    BY DEF Refuse, NoPoolFault, bookVars, clientVars, Move
  <2> QED
    BY <1>u, <1>i, <1>f, <1>h, <2>1 DEF Registry
<1>4. Known'
  BY <1>u, <1>i, <1>f, <1>h DEF Known, PoolTypeOK, Refuse, NoPoolFault, bookVars, clientVars, Move
<1>5. AnswersAreAwaited'
  BY <1>u, <1>i, <1>f DEF AnswersAreAwaited, PoolTypeOK, Quiet, Refuse, NoPoolFault, bookVars,
     clientVars, Move
<1>6. Abreast'
  BY <1>u, <1>i, <1>f DEF Abreast, PoolTypeOK, AnswersAreAwaited, Quiet, Refuse, NoPoolFault,
     bookVars, clientVars, Move
<1>7. Capacity'
  <2>1. Starters' = Starters
    BY <1>f DEF Starters
  <2>2. UNCHANGED <<all, poolClosed>>
    BY DEF Refuse, NoPoolFault, bookVars, clientVars, Move
  <2> QED
    BY <2>1, <2>2 DEF Capacity
<1> QED
  BY <1>c, <1>1, <1>2, <1>3, <1>4, <1>5, <1>6, <1>7

LEMMA StepServeExtract ==
  ASSUME IInv, NEW d \in Daemons, ServeExtract(d)
  PROVE  IInv'
<1> USE WorkerPoolAssumption DEF IInv
<1>u. /\ idle \in Seq(Daemons) /\ NoRepeats(idle) /\ Idle = Items(idle) /\ Idle \subseteq Daemons
      /\ \A h \in Goroutines : has[h] \notin Idle
      /\ \A h, k \in Goroutines : has[h] = has[k] /\ has[h] # NoDaemon => h = k
  BY Users
<1>i. idle' \in Seq(Daemons) /\ NoRepeats(idle') /\ Idle' = Idle
  <2>1. idle' = idle
    BY DEF ServeExtract, NoPoolFault, bookVars, clientVars
  <2> QED
    BY <1>u, <2>1 DEF Idle
<1>f. UNCHANGED <<at, has>>
  BY DEF ServeExtract, NoPoolFault, bookVars, clientVars
<1>c. Count' /\ spawning' \in Nat
  <2>1. Spawners' = Spawners
    BY <1>f DEF Spawners
  <2>2. spawning' = spawning
    BY DEF ServeExtract, NoPoolFault, bookVars, clientVars
  <2> QED
    BY <2>1, <2>2, FS_CardinalityType DEF Count
<1>h. \A e \in Daemons : InHands(e)' <=> InHands(e)
  BY <1>f, <1>u DEF InHands, Holding
<1>1. PoolTypeOK'
  <2>1. wire[d].state \in {"extract"} /\ wire[d] \in Wires
    BY DEF ServeExtract, NoPoolFault, bookVars, clientVars, PoolTypeOK
  <2>2. wire[d] \in Requests
    BY <2>1 DEF Wires, Requests, Answers, Quiet
  <2>3. PICK s \in {"done", "cleaned", "failed", "uncleaned"} : wire' = [wire EXCEPT ![d].state = s]
    BY DEF ServeExtract, NoPoolFault, bookVars, clientVars
  <2>4. [wire[d] EXCEPT !.state = s] \in Wires
    BY <2>2, <2>3 DEF Requests, Answers, Wires
  <2>5. wire' \in [Daemons -> Wires]
    BY <2>3, <2>4 DEF PoolTypeOK
  <2> QED
    BY <1>i, <1>f, <1>c, <2>5 DEF PoolTypeOK, Processes, ServeExtract, NoPoolFault, bookVars,
       clientVars
<1>2. OneUser'
  BY <1>u, <1>i, <1>f, UsersAgain DEF Held
<1>3. Registry'
  <2>1. UNCHANGED <<all, poolClosed>>
    BY DEF ServeExtract, NoPoolFault, bookVars, clientVars
  <2> QED
    BY <1>u, <1>i, <1>f, <1>h, <2>1 DEF Registry
<1>4. Known'
  BY <1>u, <1>i, <1>f, <1>h DEF Known, PoolTypeOK, ServeExtract, NoPoolFault, bookVars, clientVars
<1>5. AnswersAreAwaited'
  BY <1>u, <1>i, <1>f DEF AnswersAreAwaited, PoolTypeOK, Quiet, ServeExtract, NoPoolFault,
     bookVars, clientVars
<1>6. Abreast'
  BY <1>u, <1>i, <1>f DEF Abreast, PoolTypeOK, AnswersAreAwaited, Quiet, ServeExtract,
     NoPoolFault, bookVars, clientVars
<1>7. Capacity'
  <2>1. Starters' = Starters
    BY <1>f DEF Starters
  <2>2. UNCHANGED <<all, poolClosed>>
    BY DEF ServeExtract, NoPoolFault, bookVars, clientVars
  <2> QED
    BY <2>1, <2>2 DEF Capacity
<1> QED
  BY <1>c, <1>1, <1>2, <1>3, <1>4, <1>5, <1>6, <1>7

LEMMA StepServeCleanup ==
  ASSUME IInv, NEW d \in Daemons, ServeCleanup(d)
  PROVE  IInv'
<1> USE WorkerPoolAssumption DEF IInv
<1>u. /\ idle \in Seq(Daemons) /\ NoRepeats(idle) /\ Idle = Items(idle) /\ Idle \subseteq Daemons
      /\ \A h \in Goroutines : has[h] \notin Idle
      /\ \A h, k \in Goroutines : has[h] = has[k] /\ has[h] # NoDaemon => h = k
  BY Users
<1>i. idle' \in Seq(Daemons) /\ NoRepeats(idle') /\ Idle' = Idle
  <2>1. idle' = idle
    BY DEF ServeCleanup, NoPoolFault, bookVars, clientVars
  <2> QED
    BY <1>u, <2>1 DEF Idle
<1>f. UNCHANGED <<at, has>>
  BY DEF ServeCleanup, NoPoolFault, bookVars, clientVars
<1>c. Count' /\ spawning' \in Nat
  <2>1. Spawners' = Spawners
    BY <1>f DEF Spawners
  <2>2. spawning' = spawning
    BY DEF ServeCleanup, NoPoolFault, bookVars, clientVars
  <2> QED
    BY <2>1, <2>2, FS_CardinalityType DEF Count
<1>h. \A e \in Daemons : InHands(e)' <=> InHands(e)
  BY <1>f, <1>u DEF InHands, Holding
<1>1. PoolTypeOK'
  <2>1. wire[d].state \in {"cleanup"} /\ wire[d] \in Wires
    BY DEF ServeCleanup, NoPoolFault, bookVars, clientVars, PoolTypeOK
  <2>2. wire[d] \in Requests
    BY <2>1 DEF Wires, Requests, Answers, Quiet
  <2>3. PICK s \in {"done", "cleaned", "failed", "uncleaned"} : wire' = [wire EXCEPT ![d].state = s]
    BY DEF ServeCleanup, NoPoolFault, bookVars, clientVars
  <2>4. [wire[d] EXCEPT !.state = s] \in Wires
    BY <2>2, <2>3 DEF Requests, Answers, Wires
  <2>5. wire' \in [Daemons -> Wires]
    BY <2>3, <2>4 DEF PoolTypeOK
  <2> QED
    BY <1>i, <1>f, <1>c, <2>5 DEF PoolTypeOK, Processes, ServeCleanup, NoPoolFault, bookVars,
       clientVars
<1>2. OneUser'
  BY <1>u, <1>i, <1>f, UsersAgain DEF Held
<1>3. Registry'
  <2>1. UNCHANGED <<all, poolClosed>>
    BY DEF ServeCleanup, NoPoolFault, bookVars, clientVars
  <2> QED
    BY <1>u, <1>i, <1>f, <1>h, <2>1 DEF Registry
<1>4. Known'
  BY <1>u, <1>i, <1>f, <1>h DEF Known, PoolTypeOK, ServeCleanup, NoPoolFault, bookVars, clientVars
<1>5. AnswersAreAwaited'
  BY <1>u, <1>i, <1>f DEF AnswersAreAwaited, PoolTypeOK, Quiet, ServeCleanup, NoPoolFault,
     bookVars, clientVars
<1>6. Abreast'
  BY <1>u, <1>i, <1>f DEF Abreast, PoolTypeOK, AnswersAreAwaited, Quiet, ServeCleanup,
     NoPoolFault, bookVars, clientVars
<1>7. Capacity'
  <2>1. Starters' = Starters
    BY <1>f DEF Starters
  <2>2. UNCHANGED <<all, poolClosed>>
    BY DEF ServeCleanup, NoPoolFault, bookVars, clientVars
  <2> QED
    BY <2>1, <2>2 DEF Capacity
<1> QED
  BY <1>c, <1>1, <1>2, <1>3, <1>4, <1>5, <1>6, <1>7

LEMMA StepServeFails ==
  ASSUME IInv, NEW d \in Daemons, ServeFails(d)
  PROVE  IInv'
<1> USE WorkerPoolAssumption DEF IInv
<1>u. /\ idle \in Seq(Daemons) /\ NoRepeats(idle) /\ Idle = Items(idle) /\ Idle \subseteq Daemons
      /\ \A h \in Goroutines : has[h] \notin Idle
      /\ \A h, k \in Goroutines : has[h] = has[k] /\ has[h] # NoDaemon => h = k
  BY Users
<1>i. idle' \in Seq(Daemons) /\ NoRepeats(idle') /\ Idle' = Idle
  <2>1. idle' = idle
    BY DEF ServeFails, NoPoolFault, bookVars, clientVars, PoolFault
  <2> QED
    BY <1>u, <2>1 DEF Idle
<1>f. UNCHANGED <<at, has>>
  BY DEF ServeFails, NoPoolFault, bookVars, clientVars, PoolFault
<1>c. Count' /\ spawning' \in Nat
  <2>1. Spawners' = Spawners
    BY <1>f DEF Spawners
  <2>2. spawning' = spawning
    BY DEF ServeFails, NoPoolFault, bookVars, clientVars, PoolFault
  <2> QED
    BY <2>1, <2>2, FS_CardinalityType DEF Count
<1>h. \A e \in Daemons : InHands(e)' <=> InHands(e)
  BY <1>f, <1>u DEF InHands, Holding
<1>1. PoolTypeOK'
  <2>1. wire[d].state \in {"extract", "cleanup"} /\ wire[d] \in Wires
    BY DEF ServeFails, NoPoolFault, bookVars, clientVars, PoolFault, PoolTypeOK
  <2>2. wire[d] \in Requests
    BY <2>1 DEF Wires, Requests, Answers, Quiet
  <2>3. PICK s \in {"done", "cleaned", "failed", "uncleaned"} : wire' = [wire EXCEPT ![d].state = s]
    BY DEF ServeFails, NoPoolFault, bookVars, clientVars, PoolFault
  <2>4. [wire[d] EXCEPT !.state = s] \in Wires
    BY <2>2, <2>3 DEF Requests, Answers, Wires
  <2>5. wire' \in [Daemons -> Wires]
    BY <2>3, <2>4 DEF PoolTypeOK
  <2> QED
    BY <1>i, <1>f, <1>c, <2>5 DEF PoolTypeOK, Processes, ServeFails, NoPoolFault, bookVars,
       clientVars, PoolFault
<1>2. OneUser'
  BY <1>u, <1>i, <1>f, UsersAgain DEF Held
<1>3. Registry'
  <2>1. UNCHANGED <<all, poolClosed>>
    BY DEF ServeFails, NoPoolFault, bookVars, clientVars, PoolFault
  <2> QED
    BY <1>u, <1>i, <1>f, <1>h, <2>1 DEF Registry
<1>4. Known'
  BY <1>u, <1>i, <1>f, <1>h DEF Known, PoolTypeOK, ServeFails, NoPoolFault, bookVars,
     clientVars, PoolFault
<1>5. AnswersAreAwaited'
  BY <1>u, <1>i, <1>f DEF AnswersAreAwaited, PoolTypeOK, Quiet, ServeFails, NoPoolFault,
     bookVars, clientVars, PoolFault
<1>6. Abreast'
  BY <1>u, <1>i, <1>f DEF Abreast, PoolTypeOK, AnswersAreAwaited, Quiet, ServeFails,
     NoPoolFault, bookVars, clientVars, PoolFault
<1>7. Capacity'
  <2>1. Starters' = Starters
    BY <1>f DEF Starters
  <2>2. UNCHANGED <<all, poolClosed>>
    BY DEF ServeFails, NoPoolFault, bookVars, clientVars, PoolFault
  <2> QED
    BY <2>1, <2>2 DEF Capacity
<1> QED
  BY <1>c, <1>1, <1>2, <1>3, <1>4, <1>5, <1>6, <1>7

LEMMA StepReceive ==
  ASSUME IInv, NEW g \in Goroutines, Receive(g)
  PROVE  IInv'
<1> USE WorkerPoolAssumption DEF IInv
<1>u. /\ idle \in Seq(Daemons) /\ NoRepeats(idle) /\ Idle = Items(idle) /\ Idle \subseteq Daemons
      /\ \A h \in Goroutines : has[h] \notin Idle
      /\ \A h, k \in Goroutines : has[h] = has[k] /\ has[h] # NoDaemon => h = k
  BY Users
<1>i. idle' \in Seq(Daemons) /\ NoRepeats(idle') /\ Idle' = Idle
  <2>1. idle' = idle
    BY DEF Receive, NoPoolFault, bookVars, clientVars, Move
  <2> QED
    BY <1>u, <2>1 DEF Idle
<1>f. /\ \A h \in Goroutines \ {g} : at'[h] = at[h] /\ has'[h] = has[h]
      /\ at[g] = "calling" /\ at'[g] = "releasing" /\ has[g] \in Daemons /\ has'[g] = has[g]
  BY DEF Receive, NoPoolFault, bookVars, clientVars, Move, PoolTypeOK, Holding
<1>c. Count' /\ spawning' \in Nat
  <2>1. Spawners' = Spawners
    BY <1>f DEF Spawners
  <2>2. spawning' = spawning
    BY DEF Receive, NoPoolFault, bookVars, clientVars, Move
  <2> QED
    BY <2>1, <2>2, FS_CardinalityType DEF Count
<1>h. \A d \in Daemons : InHands(d)' <=> InHands(d)
  BY <1>f, <1>u DEF InHands, Holding
<1>1. PoolTypeOK'
  BY <1>u, <1>i, <1>f, <1>c DEF PoolTypeOK, GoroutineAt, Holding, Processes, Wires, Requests,
     Answers, Quiet, Receive, NoPoolFault, bookVars, clientVars, Move
<1>2. OneUser'
  BY <1>u, <1>i, <1>f, UsersAgain DEF Held
<1>3. Registry'
  <2>1. UNCHANGED <<all, poolClosed>>
    BY DEF Receive, NoPoolFault, bookVars, clientVars, Move
  <2> QED
    BY <1>u, <1>i, <1>f, <1>h, <2>1 DEF Registry
<1>4. Known'
  BY <1>u, <1>i, <1>f, <1>h DEF Known, PoolTypeOK, Receive, NoPoolFault, bookVars, clientVars, Move
<1>5. AnswersAreAwaited'
  BY <1>u, <1>i, <1>f DEF AnswersAreAwaited, PoolTypeOK, Quiet, Receive, NoPoolFault, bookVars,
     clientVars, Move
<1>6. Abreast'
  BY <1>u, <1>i, <1>f DEF Abreast, PoolTypeOK, AnswersAreAwaited, Quiet, Receive, NoPoolFault,
     bookVars, clientVars, Move
<1>7. Capacity'
  <2>1. Starters' = Starters
    BY <1>f DEF Starters
  <2>2. UNCHANGED <<all, poolClosed>>
    BY DEF Receive, NoPoolFault, bookVars, clientVars, Move
  <2> QED
    BY <2>1, <2>2 DEF Capacity
<1> QED
  BY <1>c, <1>1, <1>2, <1>3, <1>4, <1>5, <1>6, <1>7

LEMMA StepReceiveBad ==
  ASSUME IInv, NEW g \in Goroutines, ReceiveBad(g)
  PROVE  IInv'
<1> USE WorkerPoolAssumption DEF IInv
<1>u. /\ idle \in Seq(Daemons) /\ NoRepeats(idle) /\ Idle = Items(idle) /\ Idle \subseteq Daemons
      /\ \A h \in Goroutines : has[h] \notin Idle
      /\ \A h, k \in Goroutines : has[h] = has[k] /\ has[h] # NoDaemon => h = k
  BY Users
<1>i. idle' \in Seq(Daemons) /\ NoRepeats(idle') /\ Idle' = Idle
  <2>1. idle' = idle
    BY DEF ReceiveBad, NoPoolFault, bookVars, clientVars, Move, Kill, Answered
  <2> QED
    BY <1>u, <2>1 DEF Idle
<1>f. /\ \A h \in Goroutines \ {g} : at'[h] = at[h] /\ has'[h] = has[h]
      /\ at[g] = "calling" /\ at'[g] = "releasing" /\ has[g] \in Daemons /\ has'[g] = has[g]
  BY DEF ReceiveBad, NoPoolFault, bookVars, clientVars, Move, Kill, Answered, PoolTypeOK, Holding
<1>c. Count' /\ spawning' \in Nat
  <2>1. Spawners' = Spawners
    BY <1>f DEF Spawners
  <2>2. spawning' = spawning
    BY DEF ReceiveBad, NoPoolFault, bookVars, clientVars, Move, Kill, Answered
  <2> QED
    BY <2>1, <2>2, FS_CardinalityType DEF Count
<1>h. \A d \in Daemons : InHands(d)' <=> InHands(d)
  BY <1>f, <1>u DEF InHands, Holding
<1>1. PoolTypeOK'
  BY <1>u, <1>i, <1>f, <1>c DEF PoolTypeOK, GoroutineAt, Holding, Processes, Wires, Requests,
     Answers, Quiet, ReceiveBad, NoPoolFault, bookVars, clientVars, Move, Kill, Answered
<1>2. OneUser'
  BY <1>u, <1>i, <1>f, UsersAgain DEF Held
<1>3. Registry'
  <2>1. UNCHANGED <<all, poolClosed>>
    BY DEF ReceiveBad, NoPoolFault, bookVars, clientVars, Move, Kill, Answered
  <2> QED
    BY <1>u, <1>i, <1>f, <1>h, <2>1 DEF Registry
<1>4. Known'
  <2>1. /\ \A e \in Daemons : process'[e] # "gone" => e # has[g] /\ process[e] # "gone"
        /\ process'[has[g]] = "gone" /\ UNCHANGED <<all, closing, abandoned>>
    BY <1>f DEF ReceiveBad, NoPoolFault, bookVars, clientVars, Move, Kill, Answered, PoolTypeOK
  <2>2. \A h \in Goroutines : at[h] = "retiring" => has[h] \in Daemons
    BY DEF PoolTypeOK, Holding
  <2> QED
    BY <1>f, <2>1, <2>2 DEF Known
<1>5. AnswersAreAwaited'
  BY <1>u, <1>i, <1>f DEF AnswersAreAwaited, PoolTypeOK, Quiet, ReceiveBad, NoPoolFault,
     bookVars, clientVars, Move, Kill, Answered
<1>6. Abreast'
  BY <1>u, <1>i, <1>f DEF Abreast, PoolTypeOK, AnswersAreAwaited, Quiet, ReceiveBad,
     NoPoolFault, bookVars, clientVars, Move, Kill, Answered
<1>7. Capacity'
  <2>1. Starters' = Starters
    BY <1>f DEF Starters
  <2>2. UNCHANGED <<all, poolClosed>>
    BY DEF ReceiveBad, NoPoolFault, bookVars, clientVars, Move, Kill, Answered
  <2> QED
    BY <2>1, <2>2 DEF Capacity
<1> QED
  BY <1>c, <1>1, <1>2, <1>3, <1>4, <1>5, <1>6, <1>7

LEMMA StepCallExpired ==
  ASSUME IInv, NEW g \in Goroutines, CallExpired(g)
  PROVE  IInv'
<1> USE WorkerPoolAssumption DEF IInv
<1>u. /\ idle \in Seq(Daemons) /\ NoRepeats(idle) /\ Idle = Items(idle) /\ Idle \subseteq Daemons
      /\ \A h \in Goroutines : has[h] \notin Idle
      /\ \A h, k \in Goroutines : has[h] = has[k] /\ has[h] # NoDaemon => h = k
  BY Users
<1>i. idle' \in Seq(Daemons) /\ NoRepeats(idle') /\ Idle' = Idle
  <2>1. idle' = idle
    BY DEF CallExpired, NoPoolFault, bookVars, clientVars, Move, Kill
  <2> QED
    BY <1>u, <2>1 DEF Idle
<1>f. /\ \A h \in Goroutines \ {g} : at'[h] = at[h] /\ has'[h] = has[h]
      /\ at[g] = "calling" /\ at'[g] = "releasing" /\ has[g] \in Daemons /\ has'[g] = has[g]
  BY DEF CallExpired, NoPoolFault, bookVars, clientVars, Move, Kill, PoolTypeOK, Holding
<1>c. Count' /\ spawning' \in Nat
  <2>1. Spawners' = Spawners
    BY <1>f DEF Spawners
  <2>2. spawning' = spawning
    BY DEF CallExpired, NoPoolFault, bookVars, clientVars, Move, Kill
  <2> QED
    BY <2>1, <2>2, FS_CardinalityType DEF Count
<1>h. \A d \in Daemons : InHands(d)' <=> InHands(d)
  BY <1>f, <1>u DEF InHands, Holding
<1>1. PoolTypeOK'
  BY <1>u, <1>i, <1>f, <1>c DEF PoolTypeOK, GoroutineAt, Holding, Processes, Wires, Requests,
     Answers, Quiet, CallExpired, NoPoolFault, bookVars, clientVars, Move, Kill
<1>2. OneUser'
  BY <1>u, <1>i, <1>f, UsersAgain DEF Held
<1>3. Registry'
  <2>1. UNCHANGED <<all, poolClosed>>
    BY DEF CallExpired, NoPoolFault, bookVars, clientVars, Move, Kill
  <2> QED
    BY <1>u, <1>i, <1>f, <1>h, <2>1 DEF Registry
<1>4. Known'
  <2>1. /\ \A e \in Daemons : process'[e] # "gone" => e # has[g] /\ process[e] # "gone"
        /\ process'[has[g]] = "gone" /\ UNCHANGED <<all, closing, abandoned>>
    BY <1>f DEF CallExpired, NoPoolFault, bookVars, clientVars, Move, Kill, PoolTypeOK
  <2>2. \A h \in Goroutines : at[h] = "retiring" => has[h] \in Daemons
    BY DEF PoolTypeOK, Holding
  <2> QED
    BY <1>f, <2>1, <2>2 DEF Known
<1>5. AnswersAreAwaited'
  BY <1>u, <1>i, <1>f DEF AnswersAreAwaited, PoolTypeOK, Quiet, CallExpired, NoPoolFault,
     bookVars, clientVars, Move, Kill
<1>6. Abreast'
  BY <1>u, <1>i, <1>f DEF Abreast, PoolTypeOK, AnswersAreAwaited, Quiet, CallExpired,
     NoPoolFault, bookVars, clientVars, Move, Kill
<1>7. Capacity'
  <2>1. Starters' = Starters
    BY <1>f DEF Starters
  <2>2. UNCHANGED <<all, poolClosed>>
    BY DEF CallExpired, NoPoolFault, bookVars, clientVars, Move, Kill
  <2> QED
    BY <2>1, <2>2 DEF Capacity
<1> QED
  BY <1>c, <1>1, <1>2, <1>3, <1>4, <1>5, <1>6, <1>7

LEMMA StepPutBack ==
  ASSUME IInv, NEW g \in Goroutines, PutBack(g)
  PROVE  IInv'
<1> USE WorkerPoolAssumption DEF IInv
<1>u. /\ idle \in Seq(Daemons) /\ NoRepeats(idle) /\ Idle = Items(idle) /\ Idle \subseteq Daemons
      /\ \A h \in Goroutines : has[h] \notin Idle
      /\ \A h, k \in Goroutines : has[h] = has[k] /\ has[h] # NoDaemon => h = k
  BY Users
<1>i. /\ idle' \in Seq(Daemons) /\ NoRepeats(idle')
      /\ \/ Unfit(has[g]) /\ Idle' = Idle
         \/ ~Unfit(has[g]) /\ Idle' = Idle \cup {has[g]}
  <2>1. CASE Unfit(has[g])
    <3>1. idle' = idle
      BY <2>1 DEF PutBack, NoPoolFault, bookVars, clientVars, Move, Leaves, Takes, Kill
    <3> QED
      BY <1>u, <2>1, <3>1 DEF Idle
  <2>2. CASE ~Unfit(has[g])
    <3>1. idle' = Append(idle, has[g]) /\ has[g] \in Daemons
      BY <2>2 DEF PutBack, NoPoolFault, bookVars, clientVars, Move, Leaves, Takes, Kill,
         PoolTypeOK, Holding
    <3> QED
      BY <1>u, <2>2, <3>1, Appended DEF Idle, Items
  <2> QED
    BY <2>1, <2>2
<1>f. /\ \A h \in Goroutines \ {g} : at'[h] = at[h] /\ has'[h] = has[h]
      /\ at[g] = "releasing" /\ at'[g] = "away" /\ has[g] \in Daemons /\ has'[g] = NoDaemon
  BY DEF PutBack, NoPoolFault, bookVars, clientVars, Move, Leaves, Takes, Kill, PoolTypeOK, Holding
<1>c. Count' /\ spawning' \in Nat
  <2>1. Spawners' = Spawners
    BY <1>f DEF Spawners
  <2>2. spawning' = spawning
    BY DEF PutBack, NoPoolFault, bookVars, clientVars, Move, Leaves, Takes, Kill
  <2> QED
    BY <2>1, <2>2, FS_CardinalityType DEF Count
<1>h. \A d \in Daemons : InHands(d)' <=> InHands(d) /\ d # has[g]
  BY <1>f, <1>u DEF InHands, Holding
<1>1. PoolTypeOK'
  <2>1. CASE Unfit(has[g])
    <3>1. /\ process' \in [Daemons -> Processes] /\ shut' \in [Daemons -> BOOLEAN]
          /\ taskCount' \in [Daemons -> Nat] /\ served' \in [Daemons -> Nat]
          /\ wire' \in [Daemons -> Wires] /\ all' \subseteq Daemons
      <4>1. Kill({has[g]}) /\ all' = all \ {has[g]}
        BY <2>1 DEF PutBack
      <4>2. "gone" \in Processes /\ Quiet \in Wires
        BY DEF Processes, Wires
      <4> QED
        BY <4>1, <4>2 DEF Kill, PoolTypeOK
    <3> QED
      BY <1>i, <1>f, <1>c, <3>1 DEF PoolTypeOK, GoroutineAt, Holding, PutBack, NoPoolFault,
         Move, Leaves, Takes
  <2>2. CASE ~Unfit(has[g])
    <3>1. UNCHANGED <<all, process, shut, taskCount, served, wire>>
      BY <2>2 DEF PutBack, NoPoolFault, bookVars, clientVars, Move, Leaves, Takes, Kill
    <3> QED
      BY <1>i, <1>f, <1>c, <3>1 DEF PoolTypeOK, GoroutineAt, Holding, PutBack, NoPoolFault,
         Move, Leaves, Takes
  <2> QED
    BY <2>1, <2>2
<1>2. OneUser'
  BY <1>u, <1>i, <1>f, UsersAgain DEF Held
<1>3. Registry'
  <2>1. UNCHANGED poolClosed /\ (poolClosed => Unfit(has[g]))
    BY DEF PutBack, Unfit
  <2>2. CASE Unfit(has[g])
    <3>1. all' = all \ {has[g]} /\ Idle' = Idle
      BY <1>i, <2>2 DEF PutBack
    <3> QED
      BY <1>u, <1>f, <1>h, <2>1, <3>1 DEF Registry
  <2>3. CASE ~Unfit(has[g])
    <3>1. all' = all /\ Idle' = Idle \cup {has[g]} /\ ~poolClosed
      BY <1>i, <2>1, <2>3 DEF PutBack
    <3>2. InHands(has[g])
      BY <1>f DEF InHands, Holding
    <3> QED
      BY <1>u, <1>f, <1>h, <2>1, <3>1, <3>2 DEF Registry
  <2> QED
    BY <2>2, <2>3
<1>4. Known'
  <2>1. UNCHANGED <<poolClosed, closing, abandoned>>
    BY DEF PutBack, NoPoolFault
  <2>2. \A h \in Goroutines : at[h] = "retiring" => has[h] \in Daemons
    BY DEF PoolTypeOK, Holding
  <2>3. CASE Unfit(has[g])
    <3>1. /\ \A e \in Daemons : process'[e] # "gone" => e # has[g] /\ process[e] # "gone"
          /\ process'[has[g]] = "gone" /\ all' = all \ {has[g]}
      BY <1>f, <2>3 DEF PutBack, Kill, PoolTypeOK
    <3> QED
      BY <1>f, <2>1, <2>2, <3>1 DEF Known
  <2>4. CASE ~Unfit(has[g])
    <3>1. UNCHANGED <<process, all>> /\ ~poolClosed
      BY <2>4 DEF PutBack, clientVars, Unfit
    <3>2. has[g] \in all
      <4>1. InHands(has[g])
        BY <1>f DEF InHands, Holding
      <4> QED
        BY <1>f, <3>1, <4>1 DEF Registry
    <3> QED
      BY <1>f, <2>1, <2>2, <3>1, <3>2 DEF Known
  <2> QED
    BY <2>3, <2>4
<1>5. AnswersAreAwaited'
  <2>1. CASE Unfit(has[g])
    <3>1. /\ wire' = [d \in Daemons |-> IF d = has[g] THEN Quiet ELSE wire[d]]
          /\ taskCount' = [d \in Daemons |-> IF d = has[g] THEN 0 ELSE taskCount[d]]
          /\ served' = [d \in Daemons |-> IF d = has[g] THEN 0 ELSE served[d]]
      BY <2>1 DEF PutBack, Kill
    <3> QED
      <4> SUFFICES ASSUME NEW d \in Daemons, wire'[d] # Quiet
                   PROVE  at'[wire'[d].by] = "calling" /\ has'[wire'[d].by] = d
        BY DEF AnswersAreAwaited, Quiet
      <4>1. wire'[d] = wire[d] /\ wire[d] # Quiet
        BY <3>1
      <4>2. wire[d].by \in Goroutines
        BY <4>1 DEF PoolTypeOK, Wires, Requests, Answers
      <4>3. at[wire[d].by] = "calling" /\ has[wire[d].by] = d
        BY <4>1 DEF AnswersAreAwaited
      <4> QED
        BY <1>f, <4>1, <4>2, <4>3
  <2>2. CASE ~Unfit(has[g])
    <3>1. UNCHANGED <<wire, taskCount, served>>
      BY <2>2 DEF PutBack, clientVars
    <3> QED
      <4> SUFFICES ASSUME NEW d \in Daemons, wire'[d] # Quiet
                   PROVE  at'[wire'[d].by] = "calling" /\ has'[wire'[d].by] = d
        BY DEF AnswersAreAwaited, Quiet
      <4>1. wire'[d] = wire[d] /\ wire[d] # Quiet
        BY <3>1
      <4>2. wire[d].by \in Goroutines
        BY <4>1 DEF PoolTypeOK, Wires, Requests, Answers
      <4>3. at[wire[d].by] = "calling" /\ has[wire[d].by] = d
        BY <4>1 DEF AnswersAreAwaited
      <4> QED
        BY <1>f, <4>1, <4>2, <4>3
  <2> QED
    BY <2>1, <2>2
<1>6. Abreast'
  <2>1. CASE Unfit(has[g])
    <3>1. /\ wire' = [d \in Daemons |-> IF d = has[g] THEN Quiet ELSE wire[d]]
          /\ taskCount' = [d \in Daemons |-> IF d = has[g] THEN 0 ELSE taskCount[d]]
          /\ served' = [d \in Daemons |-> IF d = has[g] THEN 0 ELSE served[d]]
      BY <2>1 DEF PutBack, Kill
    <3> QED
      BY <1>f, <1>u, <3>1 DEF Abreast, Quiet, PoolTypeOK
  <2>2. CASE ~Unfit(has[g])
    <3>1. UNCHANGED <<wire, taskCount, served>>
      BY <2>2 DEF PutBack, clientVars
    <3> QED
      BY <1>f, <1>u, <3>1 DEF Abreast, Quiet, PoolTypeOK
  <2> QED
    BY <2>1, <2>2
<1>7. Capacity'
  <2>1. Starters' = Starters
    BY <1>f DEF Starters
  <2>2. all' \subseteq all /\ UNCHANGED poolClosed
    BY DEF PutBack, NoPoolFault, bookVars, clientVars, Move, Leaves, Takes, Kill
  <2> QED
    BY <2>1, <2>2, CapacityKept DEF PoolTypeOK
<1> QED
  BY <1>c, <1>1, <1>2, <1>3, <1>4, <1>5, <1>6, <1>7

LEMMA StepTrim ==
  ASSUME IInv, NEW m \in {0, 1}, Trim(m)
  PROVE  IInv'
<1> USE WorkerPoolAssumption DEF IInv
<1>u. /\ idle \in Seq(Daemons) /\ NoRepeats(idle) /\ Idle = Items(idle) /\ Idle \subseteq Daemons
      /\ \A h \in Goroutines : has[h] \notin Idle
      /\ \A h, k \in Goroutines : has[h] = has[k] /\ has[h] # NoDaemon => h = k
  BY Users
<1>i. /\ idle' \in Seq(Daemons) /\ NoRepeats(idle')
      /\ Idle' = Idle \ {idle[i] : i \in 1..Len(idle) - m}
      /\ {idle[i] : i \in 1..Len(idle) - m} \subseteq Idle
  <2>1. Len(idle) \in Nat /\ Len(idle) - m \in Nat /\ Len(idle) - m <= Len(idle)
    BY <1>u DEF Trim, NoPoolFault, bookVars, clientVars
  <2>2. idle' = SubSeq(idle, (Len(idle) - m) + 1, Len(idle))
    BY DEF Trim, NoPoolFault, bookVars, clientVars
  <2>3. {idle[i] : i \in 1..Len(idle) - m} \subseteq Idle
    BY <2>1 DEF Idle
  <2>4. Idle' = Items(idle')
    BY DEF Idle, Items
  <2>5. Idle' = Items(SubSeq(idle, (Len(idle) - m) + 1, Len(idle)))
    BY <2>2, <2>4
  <2> QED
    BY <1>u, <2>1, <2>2, <2>3, <2>5, Trimmed
<1>f. UNCHANGED <<at, has>>
  BY DEF Trim, NoPoolFault, bookVars, clientVars
<1>c. Count' /\ spawning' \in Nat
  <2>1. Spawners' = Spawners
    BY <1>f DEF Spawners
  <2>2. spawning' = spawning
    BY DEF Trim, NoPoolFault, bookVars, clientVars
  <2> QED
    BY <2>1, <2>2, FS_CardinalityType DEF Count
<1>h. \A d \in Daemons : InHands(d)' <=> InHands(d)
  BY <1>f, <1>u DEF InHands, Holding
<1>1. PoolTypeOK'
  BY <1>u, <1>i, <1>f, <1>c DEF PoolTypeOK, GoroutineAt, Holding, Processes, Wires, Requests,
     Answers, Quiet, Trim, NoPoolFault, bookVars, clientVars
<1>2. OneUser'
  BY <1>u, <1>i, <1>f, UsersAgain DEF Held
<1>3. Registry'
  <2>1. /\ all' = all \ {idle[i] : i \in 1..Len(idle) - m} /\ UNCHANGED poolClosed
        /\ ~poolClosed
    BY DEF Trim, NoPoolFault, bookVars, clientVars
  <2>2. \A d \in Daemons : InHands(d) => d \notin Idle
    BY <1>u DEF InHands
  <2> QED
    BY <1>i, <1>h, <2>1, <2>2 DEF Registry
<1>4. Known'
  BY <1>u, <1>i, <1>f, <1>h DEF Known, PoolTypeOK, Trim, NoPoolFault, bookVars, clientVars
<1>5. AnswersAreAwaited'
  BY <1>u, <1>i, <1>f DEF AnswersAreAwaited, PoolTypeOK, Quiet, Trim, NoPoolFault, bookVars,
     clientVars
<1>6. Abreast'
  BY <1>u, <1>i, <1>f DEF Abreast, PoolTypeOK, AnswersAreAwaited, Quiet, Trim, NoPoolFault,
     bookVars, clientVars
<1>7. Capacity'
  <2>1. Starters' = Starters
    BY <1>f DEF Starters
  <2>2. all' \subseteq all /\ UNCHANGED poolClosed
    BY DEF Trim, NoPoolFault, bookVars, clientVars
  <2> QED
    BY <2>1, <2>2, CapacityKept DEF PoolTypeOK
<1> QED
  BY <1>c, <1>1, <1>2, <1>3, <1>4, <1>5, <1>6, <1>7

LEMMA StepClosePool ==
  ASSUME IInv, ClosePool
  PROVE  IInv'
<1> USE WorkerPoolAssumption DEF IInv
<1>u. /\ idle \in Seq(Daemons) /\ NoRepeats(idle) /\ Idle = Items(idle) /\ Idle \subseteq Daemons
      /\ \A h \in Goroutines : has[h] \notin Idle
      /\ \A h, k \in Goroutines : has[h] = has[k] /\ has[h] # NoDaemon => h = k
  BY Users
<1>i. idle' \in Seq(Daemons) /\ NoRepeats(idle') /\ Idle' = Idle
  <2>1. idle' = idle
    BY DEF ClosePool, NoPoolFault, bookVars, clientVars
  <2> QED
    BY <1>u, <2>1 DEF Idle
<1>f. UNCHANGED <<at, has>>
  BY DEF ClosePool, NoPoolFault, bookVars, clientVars
<1>c. Count' /\ spawning' \in Nat
  <2>1. Spawners' = Spawners
    BY <1>f DEF Spawners
  <2>2. spawning' = spawning
    BY DEF ClosePool, NoPoolFault, bookVars, clientVars
  <2> QED
    BY <2>1, <2>2, FS_CardinalityType DEF Count
<1>h. \A d \in Daemons : InHands(d)' <=> InHands(d)
  BY <1>f, <1>u DEF InHands, Holding
<1>1. PoolTypeOK'
  BY <1>u, <1>i, <1>f, <1>c DEF PoolTypeOK, GoroutineAt, Holding, Processes, Wires, Requests,
     Answers, Quiet, ClosePool, NoPoolFault, bookVars, clientVars
<1>2. OneUser'
  BY <1>u, <1>i, <1>f, UsersAgain DEF Held
<1>3. Registry'
  BY <1>u, <1>i, <1>f, <1>h DEF Registry, ClosePool, NoPoolFault, bookVars, clientVars
<1>4. Known'
  BY <1>u, <1>i, <1>f, <1>h DEF Known, PoolTypeOK, ClosePool, NoPoolFault, bookVars, clientVars
<1>5. AnswersAreAwaited'
  BY <1>u, <1>i, <1>f DEF AnswersAreAwaited, PoolTypeOK, Quiet, ClosePool, NoPoolFault,
     bookVars, clientVars
<1>6. Abreast'
  BY <1>u, <1>i, <1>f DEF Abreast, PoolTypeOK, AnswersAreAwaited, Quiet, ClosePool, NoPoolFault,
     bookVars, clientVars
<1>7. Capacity'
  <2>1. Starters' = Starters
    BY <1>f DEF Starters
  <2>2. all' = {} /\ poolClosed'
    BY DEF ClosePool, NoPoolFault, bookVars, clientVars
  <2> QED
    BY <2>1, <2>2, CapacityKept DEF PoolTypeOK
<1> QED
  BY <1>c, <1>1, <1>2, <1>3, <1>4, <1>5, <1>6, <1>7

LEMMA StepCloseOne ==
  ASSUME IInv, NEW d \in Daemons, CloseOne(d)
  PROVE  IInv'
<1> USE WorkerPoolAssumption DEF IInv
<1>u. /\ idle \in Seq(Daemons) /\ NoRepeats(idle) /\ Idle = Items(idle) /\ Idle \subseteq Daemons
      /\ \A h \in Goroutines : has[h] \notin Idle
      /\ \A h, k \in Goroutines : has[h] = has[k] /\ has[h] # NoDaemon => h = k
  BY Users
<1>i. idle' \in Seq(Daemons) /\ NoRepeats(idle') /\ Idle' = Idle
  <2>1. idle' = idle
    BY DEF CloseOne, NoPoolFault, bookVars, clientVars, Kill, InCall
  <2> QED
    BY <1>u, <2>1 DEF Idle
<1>f. UNCHANGED <<at, has>>
  BY DEF CloseOne, NoPoolFault, bookVars, clientVars, Kill, InCall
<1>c. Count' /\ spawning' \in Nat
  <2>1. Spawners' = Spawners
    BY <1>f DEF Spawners
  <2>2. spawning' = spawning
    BY DEF CloseOne, NoPoolFault, bookVars, clientVars, Kill, InCall
  <2> QED
    BY <2>1, <2>2, FS_CardinalityType DEF Count
<1>h. \A e \in Daemons : InHands(e)' <=> InHands(e)
  BY <1>f, <1>u DEF InHands, Holding
<1>1. PoolTypeOK'
  BY <1>u, <1>i, <1>f, <1>c DEF PoolTypeOK, GoroutineAt, Holding, Processes, Wires, Requests,
     Answers, Quiet, CloseOne, NoPoolFault, bookVars, clientVars, Kill, InCall
<1>2. OneUser'
  BY <1>u, <1>i, <1>f, UsersAgain DEF Held
<1>3. Registry'
  <2>1. UNCHANGED <<all, poolClosed>>
    BY DEF CloseOne, NoPoolFault, bookVars, clientVars, Kill, InCall
  <2> QED
    BY <1>u, <1>i, <1>f, <1>h, <2>1 DEF Registry
<1>4. Known'
  <2>1. /\ \A e \in Daemons : process'[e] # "gone" => e # d /\ process[e] # "gone"
        /\ process'[d] = "gone" /\ UNCHANGED <<all, abandoned>>
        /\ closing' = closing \ {d}
    BY DEF CloseOne, NoPoolFault, bookVars, clientVars, Kill, InCall, PoolTypeOK
  <2>2. \A h \in Goroutines : at[h] = "retiring" => has[h] \in Daemons
    BY DEF PoolTypeOK, Holding
  <2> QED
    BY <1>f, <2>1, <2>2 DEF Known
<1>5. AnswersAreAwaited'
  BY <1>u, <1>i, <1>f DEF AnswersAreAwaited, PoolTypeOK, Quiet, CloseOne, NoPoolFault, bookVars,
     clientVars, Kill, InCall
<1>6. Abreast'
  BY <1>u, <1>i, <1>f DEF Abreast, PoolTypeOK, AnswersAreAwaited, Quiet, CloseOne, NoPoolFault,
     bookVars, clientVars, Kill, InCall
<1>7. Capacity'
  <2>1. Starters' = Starters
    BY <1>f DEF Starters
  <2>2. UNCHANGED <<all, poolClosed>>
    BY DEF CloseOne, NoPoolFault, bookVars, clientVars, Kill, InCall
  <2> QED
    BY <2>1, <2>2 DEF Capacity
<1> QED
  BY <1>c, <1>1, <1>2, <1>3, <1>4, <1>5, <1>6, <1>7

LEMMA StepExpire ==
  ASSUME IInv, NEW g \in Goroutines, Expire(g)
  PROVE  IInv'
<1> USE WorkerPoolAssumption DEF IInv
<1>u. /\ idle \in Seq(Daemons) /\ NoRepeats(idle) /\ Idle = Items(idle) /\ Idle \subseteq Daemons
      /\ \A h \in Goroutines : has[h] \notin Idle
      /\ \A h, k \in Goroutines : has[h] = has[k] /\ has[h] # NoDaemon => h = k
  BY Users
<1>i. idle' \in Seq(Daemons) /\ NoRepeats(idle') /\ Idle' = Idle
  <2>1. idle' = idle
    BY DEF Expire, NoPoolFault, bookVars, clientVars, PoolFault
  <2> QED
    BY <1>u, <2>1 DEF Idle
<1>f. UNCHANGED <<at, has>>
  BY DEF Expire, NoPoolFault, bookVars, clientVars, PoolFault
<1>c. Count' /\ spawning' \in Nat
  <2>1. Spawners' = Spawners
    BY <1>f DEF Spawners
  <2>2. spawning' = spawning
    BY DEF Expire, NoPoolFault, bookVars, clientVars, PoolFault
  <2> QED
    BY <2>1, <2>2, FS_CardinalityType DEF Count
<1>h. \A d \in Daemons : InHands(d)' <=> InHands(d)
  BY <1>f, <1>u DEF InHands, Holding
<1>1. PoolTypeOK'
  BY <1>u, <1>i, <1>f, <1>c DEF PoolTypeOK, GoroutineAt, Holding, Processes, Wires, Requests,
     Answers, Quiet, Expire, NoPoolFault, bookVars, clientVars, PoolFault
<1>2. OneUser'
  BY <1>u, <1>i, <1>f, UsersAgain DEF Held
<1>3. Registry'
  <2>1. UNCHANGED <<all, poolClosed>>
    BY DEF Expire, NoPoolFault, bookVars, clientVars, PoolFault
  <2> QED
    BY <1>u, <1>i, <1>f, <1>h, <2>1 DEF Registry
<1>4. Known'
  BY <1>u, <1>i, <1>f, <1>h DEF Known, PoolTypeOK, Expire, NoPoolFault, bookVars, clientVars,
     PoolFault
<1>5. AnswersAreAwaited'
  BY <1>u, <1>i, <1>f DEF AnswersAreAwaited, PoolTypeOK, Quiet, Expire, NoPoolFault, bookVars,
     clientVars, PoolFault
<1>6. Abreast'
  BY <1>u, <1>i, <1>f DEF Abreast, PoolTypeOK, AnswersAreAwaited, Quiet, Expire, NoPoolFault,
     bookVars, clientVars, PoolFault
<1>7. Capacity'
  <2>1. Starters' = Starters
    BY <1>f DEF Starters
  <2>2. UNCHANGED <<all, poolClosed>>
    BY DEF Expire, NoPoolFault, bookVars, clientVars, PoolFault
  <2> QED
    BY <2>1, <2>2 DEF Capacity
<1> QED
  BY <1>c, <1>1, <1>2, <1>3, <1>4, <1>5, <1>6, <1>7

LEMMA StepCrashProcess ==
  ASSUME IInv, NEW d \in Daemons, CrashProcess(d)
  PROVE  IInv'
<1> USE WorkerPoolAssumption DEF IInv
<1>u. /\ idle \in Seq(Daemons) /\ NoRepeats(idle) /\ Idle = Items(idle) /\ Idle \subseteq Daemons
      /\ \A h \in Goroutines : has[h] \notin Idle
      /\ \A h, k \in Goroutines : has[h] = has[k] /\ has[h] # NoDaemon => h = k
  BY Users
<1>i. idle' \in Seq(Daemons) /\ NoRepeats(idle') /\ Idle' = Idle
  <2>1. idle' = idle
    BY DEF CrashProcess, NoPoolFault, bookVars, clientVars, PoolFault
  <2> QED
    BY <1>u, <2>1 DEF Idle
<1>f. UNCHANGED <<at, has>>
  BY DEF CrashProcess, NoPoolFault, bookVars, clientVars, PoolFault
<1>c. Count' /\ spawning' \in Nat
  <2>1. Spawners' = Spawners
    BY <1>f DEF Spawners
  <2>2. spawning' = spawning
    BY DEF CrashProcess, NoPoolFault, bookVars, clientVars, PoolFault
  <2> QED
    BY <2>1, <2>2, FS_CardinalityType DEF Count
<1>h. \A e \in Daemons : InHands(e)' <=> InHands(e)
  BY <1>f, <1>u DEF InHands, Holding
<1>1. PoolTypeOK'
  BY <1>u, <1>i, <1>f, <1>c DEF PoolTypeOK, GoroutineAt, Holding, Processes, Wires, Requests,
     Answers, Quiet, CrashProcess, NoPoolFault, bookVars, clientVars, PoolFault
<1>2. OneUser'
  BY <1>u, <1>i, <1>f, UsersAgain DEF Held
<1>3. Registry'
  <2>1. UNCHANGED <<all, poolClosed>>
    BY DEF CrashProcess, NoPoolFault, bookVars, clientVars, PoolFault
  <2> QED
    BY <1>u, <1>i, <1>f, <1>h, <2>1 DEF Registry
<1>4. Known'
  BY <1>u, <1>i, <1>f, <1>h DEF Known, PoolTypeOK, CrashProcess, NoPoolFault, bookVars,
     clientVars, PoolFault
<1>5. AnswersAreAwaited'
  BY <1>u, <1>i, <1>f DEF AnswersAreAwaited, PoolTypeOK, Quiet, CrashProcess, NoPoolFault,
     bookVars, clientVars, PoolFault
<1>6. Abreast'
  BY <1>u, <1>i, <1>f DEF Abreast, PoolTypeOK, AnswersAreAwaited, Quiet, CrashProcess,
     NoPoolFault, bookVars, clientVars, PoolFault
<1>7. Capacity'
  <2>1. Starters' = Starters
    BY <1>f DEF Starters
  <2>2. UNCHANGED <<all, poolClosed>>
    BY DEF CrashProcess, NoPoolFault, bookVars, clientVars, PoolFault
  <2> QED
    BY <2>1, <2>2 DEF Capacity
<1> QED
  BY <1>c, <1>1, <1>2, <1>3, <1>4, <1>5, <1>6, <1>7

LEMMA InitIInv == PoolInit => IInv
<1> SUFFICES ASSUME PoolInit PROVE IInv
  OBVIOUS
<1> USE WorkerPoolAssumption DEF PoolInit
<1>1. /\ idle \in Seq(Daemons) /\ Idle = {} /\ NoRepeats(idle)
      /\ \A g \in Goroutines : at[g] \in {"away", "looking"} /\ has[g] = NoDaemon
  BY DEF Idle, NoRepeats
<1>2. Spawners = {} /\ Starters = {}
  BY <1>1 DEF Spawners, Starters
<1>3. IsFiniteSet({}) /\ Cardinality({}) = 0
  BY FS_EmptySet
<1>4. PoolTypeOK
  <2>1. "gone" \in Processes /\ Quiet \in Wires /\ {"away", "looking"} \subseteq GoroutineAt
    BY DEF Processes, Wires, GoroutineAt
  <2>2. \A g \in Goroutines : at[g] \notin Holding
    BY <1>1 DEF Holding
  <2>3. /\ process \in [Daemons -> Processes] /\ wire \in [Daemons -> Wires]
        /\ at \in [Goroutines -> GoroutineAt] /\ has \in [Goroutines -> Daemons \cup {NoDaemon}]
    BY <2>1
  <2>4. taskCount \in [Daemons -> Nat] /\ served \in [Daemons -> Nat]
    OBVIOUS
  <2>7. shut \in [Daemons -> BOOLEAN]
    OBVIOUS
  <2>5. /\ all \subseteq Daemons /\ closing \subseteq Daemons
        /\ expired \subseteq Goroutines /\ abandoned \subseteq Daemons
    OBVIOUS
  <2>8. poolClosed \in BOOLEAN
    OBVIOUS
  <2>9. spawning \in Nat /\ poolFaults \in 0..MaxPoolFaults
    OBVIOUS
  <2>6. \A g \in Goroutines : at[g] \in Holding <=> has[g] # NoDaemon
    BY <1>1, <2>2
  <2> QED
    BY <1>1, <2>3, <2>4, <2>5, <2>6, <2>7, <2>8, <2>9 DEF PoolTypeOK
<1>5. OneUser
  BY <1>1 DEF OneUser, NoRepeats
<1>6. Count
  BY <1>2, <1>3 DEF Count
<1>7. Registry
  BY <1>1 DEF Registry, InHands
<1>8. Capacity
  BY <1>2, <1>3 DEF Capacity
<1>9. Known /\ AnswersAreAwaited /\ Abreast
  BY <1>1 DEF Known, AnswersAreAwaited, Abreast
<1> QED
  BY <1>4, <1>5, <1>6, <1>7, <1>8, <1>9 DEF IInv

LEMMA NextIInv == IInv /\ [PoolNext]_poolVars => IInv'
<1> SUFFICES ASSUME IInv, [PoolNext]_poolVars PROVE IInv'
  OBVIOUS
<1>1. ASSUME UNCHANGED poolVars PROVE IInv'
  <2> USE <1>1 DEF IInv, poolVars, bookVars, clientVars
  <2>1. Idle' = Idle /\ Held' = Held /\ Spawners' = Spawners /\ Starters' = Starters
    BY DEF Idle, Held, Spawners, Starters
  <2>2. \A d \in Daemons : InHands(d)' <=> InHands(d)
    BY DEF InHands
  <2>3. PoolTypeOK'
    BY DEF PoolTypeOK
  <2>4. OneUser'
    BY <2>1 DEF OneUser
  <2>5. Count' /\ Capacity'
    BY <2>1 DEF Count, Capacity
  <2>6. Registry'
    BY <2>1, <2>2 DEF Registry
  <2>7. Known' /\ AnswersAreAwaited' /\ Abreast'
    BY DEF Known, AnswersAreAwaited, Abreast
  <2> QED
    BY <2>3, <2>4, <2>5, <2>6, <2>7
<1>2. ASSUME NEW g \in Goroutines, Acquire(g) PROVE IInv'
  BY <1>2, StepStartCall, StepFailClosed, StepTakeIdle, StepReserve, StepWarmerFull, StepWait,
     StepWaitTake, StepWaitClosed, StepWaitExpired, StepCheckHealthy, StepCheckDead, StepForget DEF Acquire
<1>3. ASSUME NEW g \in Goroutines, Spawn(g) PROVE IInv'
  BY <1>3, StepSpawnExpired, StepSpawnFailed, StepSpawnClosed, StepSpawnRegister, StepUnreserve
     DEF Spawn
<1>4. ASSUME NEW g \in Goroutines, Call(g) PROVE IInv'
  BY <1>4, StepSend, StepSendFails, StepRefuse, StepReceive, StepReceiveBad, StepCallExpired
  DEF Call
<1>5. ASSUME NEW d \in Daemons, Serve(d) PROVE IInv'
  BY <1>5, StepServeExtract, StepServeCleanup DEF Serve
<1> QED
  BY <1>1, <1>2, <1>3, <1>4, <1>5, StepPutBack, StepExpire, StepProcessReady, StepProcessFails,
     StepServeFails, StepCloseOne, StepCrashProcess, StepTrim, StepClosePool DEF PoolNext

LEMMA Invariance == PoolSpec => []IInv
BY InitIInv, NextIInv, PTL DEF PoolSpec

\* The counts and the places of the pool; the number of reservations never goes below zero,
\* whatever ends while a process starts (daemon_pool.go:88-222).
THEOREM TypeCorrect == PoolSpec => []PoolTypeOK
<1>1. IInv => PoolTypeOK
  BY DEF IInv
<1> QED
  BY <1>1, Invariance, PTL

\* A daemon is in the channel or in one pair of hands: its pipes have one user
\* (daemon_pool.go:88-222).
THEOREM OneUserPerDaemon == PoolSpec => []OneUser
<1>1. IInv => OneUser
  BY DEF IInv
<1> QED
  BY <1>1, Invariance, PTL

\* The registry and the count of reservations say what is there, within the capacity, and no
\* process is lost except by a caller whose context ends (daemon_pool.go:88-291).
THEOREM BooksAgree == PoolSpec => []BooksMatch
<1>1. IInv => BooksMatch
  <2> SUFFICES ASSUME IInv PROVE BooksMatch
    OBVIOUS
  <2>1. spawning = Cardinality({g \in Goroutines : at[g] \in {"spawning", "registered"}})
    BY DEF IInv, Count, Spawners
  <2>2. \A g \in Goroutines : at[g] \in Holding => has[g] \in Daemons
    BY DEF IInv, PoolTypeOK
  <2>3. Idle \subseteq Daemons /\ all \subseteq Daemons
    BY Users DEF IInv, PoolTypeOK
  <2>4. ASSUME ~poolClosed
        PROVE  all = Idle \cup
                   {has[g] : g \in {h \in Goroutines : at[h] \in Holding \ {"spawning"}}}
    BY <2>2, <2>3, <2>4 DEF IInv, Registry, InHands
  <2>5. ~poolClosed => Cardinality(all) + Cardinality({g \in Goroutines : at[g] = "spawning"}) <= maxDaemons
    BY DEF IInv, Capacity, Starters
  <2>6. /\ poolClosed => all = {}
        /\ \A d \in Daemons :
              process[d] # "gone" => d \in all \cup closing \cup Held \cup abandoned
    BY DEF IInv, Registry, Known, Held
  <2> QED
    BY <2>1, <2>4, <2>5, <2>6 DEF BooksMatch
<1> QED
  BY <1>1, Invariance, PTL

\* Nobody finds another's answer in the pipes, also after calls that were given up
\* (daemon.go:372-391).
THEOREM AnswersHaveAWaiter == PoolSpec => []AnswersAreAwaited
<1>1. IInv => AnswersAreAwaited
  BY DEF IInv
<1> QED
  BY <1>1, Invariance, PTL

\* A Python loop that has ended itself is never taken for healthy: the two counts of requests
\* cannot drift apart (daemon.go:403, 468; worker_cpu_daemon.py:112).
THEOREM RetirementIsNoticed == PoolSpec => []RetirementIsSeen
<1>1. IInv => RetirementIsSeen
  <2> SUFFICES ASSUME IInv, NEW d \in Daemons, served[d] >= maxRecycle, wire[d] = Quiet
               PROVE  ~Healthy(d)
    BY DEF RetirementIsSeen
  <2>1. served[d] <= taskCount[d]
    BY DEF IInv, Abreast, Quiet
  <2>2. served[d] \in Nat /\ taskCount[d] \in Nat
    BY DEF IInv, PoolTypeOK
  <2> QED
    BY <2>1, <2>2, WorkerPoolAssumption DEF Healthy
<1> QED
  BY <1>1, Invariance, PTL
=============================================================================
