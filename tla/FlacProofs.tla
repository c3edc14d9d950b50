----------------------------- MODULE FlacProofs -----------------------------
(***************************************************************************)
(* What is written into a FLAC file and what is read out of it: the        *)
(* writers of tags, for any processes, tags and number of faults, and the  *)
(* slices and hashes of any file with any cue sheets.                      *)
(*                                                                         *)
(* Where an open file can be removed (Posix) the lock of the tags does not *)
(* exclude; the theorems about lost updates assume Windows.                *)
(***************************************************************************)
EXTENDS FlacTagger, FlacDecode, Induction

\* A copy that is about to replace the file is whole, and an attempt is left to who is at
\* the start of one.
Attempts ==
    \A p \in Writers :
        /\ tagAt[p] \in {"replacing", "moving"} => temp[p].whole
        /\ tagAt[p] \notin {"saving", "replacing", "moving", "unlocking"} => attempt[p] < RetryCount

\* The roles: the migration never takes the lock, the others never rewrite in place.
Roles ==
    \A p \in Writers :
        /\ p \in Migrators => tagAt[p] \in {"away", "migrating", "rewriting", "done"}
        /\ p \notin Migrators => tagAt[p] \notin {"migrating", "rewriting"}
        /\ tagAt[p] = "away" => result[p] = "unknown"

TagInv == TaggerTypeOK /\ Attempts /\ Roles /\ BrokenInPlaceOnly

\* There is always a name for a new lock file: fewer are open than there are processes.
LEMMA NewLockFile ==
  ASSUME lockFile \in [Writers -> LockFiles \cup {0}]
  PROVE  \E f \in LockFiles : \A q \in Writers : lockFile[q] # f
<1> DEFINE Open == {lockFile[q] : q \in Writers}
<1>1. IsFiniteSet(Open) /\ Cardinality(Open) <= Cardinality(Writers)
  <2>1. lockFile \in Surjection(Writers, Open)
    BY DEF Surjection
  <2> QED
    BY <2>1, FlacTaggerAssumption, FS_Surjection
<1>2. Cardinality(Writers) \in Nat /\ Cardinality(Open) \in Nat
  BY <1>1, FlacTaggerAssumption, FS_CardinalityType
<1>3. Cardinality(LockFiles) = Cardinality(Writers) + 1
  BY <1>2, FS_Interval DEF LockFiles
<1>4. ~(LockFiles \subseteq Open)
  <2>1. LockFiles \subseteq Open => Cardinality(LockFiles) <= Cardinality(Open)
    BY <1>1, FS_Subset
  <2> QED
    BY <1>1, <1>2, <1>3, <2>1
<1> QED
  BY <1>4

\* What is asked for, what is missing and what is written are tags again.
LEMMA TagTypes ==
  ASSUME flac \in Contents, NEW p \in Writers
  PROVE  /\ NoTags \in Tags /\ Nothing \in Contents
         /\ \A K \in SUBSET TagKeys : Of(p, K) \in Tags
         /\ \A t \in Tags : Missing(t) \in Tags
         /\ \A t, added \in Tags : Overlaid(t, added) \in Tags
<1>1. NoTags \in Tags
  BY DEF NoTags, Tags
<1>2. \A K \in SUBSET TagKeys : Of(p, K) \in Tags
  BY DEF Of, Tags
<1>3. \A t \in Tags : Missing(t) \in Tags
  BY DEF Missing, Tags
<1>4. \A t, added \in Tags : Overlaid(t, added) \in Tags
  BY DEF Overlaid, Tags
<1> QED
  BY <1>1, <1>2, <1>3, <1>4 DEF Nothing, Contents

LEMMA InitTagInv == TaggerInit => TagInv
<1> SUFFICES ASSUME TaggerInit PROVE TagInv
  OBVIOUS
<1>1. TaggerTypeOK
  <2>1. flac \in Contents
    BY DEF TaggerInit, Contents, Tags
  <2>2. NoTags \in Tags /\ Nothing \in Contents
    BY DEF NoTags, Nothing, Contents, Tags
  <2>3. 0 \in 0..RetryCount /\ 0 \in 0..MaxTagFaults
    BY FlacTaggerAssumption
  <2> QED
    BY <2>1, <2>2, <2>3 DEF TaggerInit, TaggerTypeOK, TagAt
<1>2. Attempts
  BY FlacTaggerAssumption DEF TaggerInit, Attempts
<1>3. Roles
  BY DEF TaggerInit, Roles
<1>4. BrokenInPlaceOnly
  BY DEF TaggerInit, BrokenInPlaceOnly
<1> QED
  BY <1>1, <1>2, <1>3, <1>4 DEF TagInv

LEMMA StepTag ==
  ASSUME TagInv, NEW p \in Writers, Tag(p)
  PROVE  TagInv'
<1> USE FlacTaggerAssumption DEF TagInv, Tag, Moves, Reports, Called, lockVars, historyVars
<1>0. \A q \in Writers \ {p} : tagAt'[q] = tagAt[q]
  BY DEF TaggerTypeOK
<1>1. TaggerTypeOK'
  <2>1. PICK K \in TagSets, forced \in BOOLEAN : Called(p, Of(p, K), forced)
    BY DEF Tag
  <2>2. Of(p, K) \in Tags
    BY TagTypes DEF TaggerTypeOK
  <2>3. wants' \in [Writers -> Tags] /\ force' \in [Writers -> BOOLEAN]
    BY <2>1, <2>2 DEF Called, TaggerTypeOK
  <2> QED
    BY <2>3 DEF TaggerTypeOK, TagAt
<1>2. Attempts'
  BY <1>0 DEF TaggerTypeOK, Attempts
<1>3. Roles'
  BY <1>0 DEF TaggerTypeOK, Roles, Lockers
<1>4. BrokenInPlaceOnly'
  BY <1>0 DEF TaggerTypeOK, Attempts, BrokenInPlaceOnly, InPlace, Contents
<1> QED
  BY <1>1, <1>2, <1>3, <1>4

LEMMA StepRepair ==
  ASSUME TagInv, NEW p \in Writers, Repair(p)
  PROVE  TagInv'
<1> USE FlacTaggerAssumption DEF TagInv, Repair, Moves, Reports, Called, lockVars, historyVars
<1>0. \A q \in Writers \ {p} : tagAt'[q] = tagAt[q]
  BY DEF TaggerTypeOK
<1>1. TaggerTypeOK'
  <2>1. PICK K \in TagSets, forced \in BOOLEAN :
           Called(p, IF forced THEN Of(p, K) ELSE Missing(Of(p, K)), FALSE)
    BY DEF Repair
  <2>2. Of(p, K) \in Tags /\ Missing(Of(p, K)) \in Tags
    BY TagTypes DEF TaggerTypeOK
  <2>3. wants' \in [Writers -> Tags] /\ force' \in [Writers -> BOOLEAN]
    BY <2>1, <2>2 DEF Called, TaggerTypeOK
  <2>4. tagAt' \in [Writers -> TagAt] /\ result' \in [Writers -> {"unknown", "ok", "failed"}]
    BY DEF TaggerTypeOK, TagAt
  <2> QED
    BY <2>3, <2>4 DEF TaggerTypeOK
<1>2. Attempts'
  BY <1>0 DEF TaggerTypeOK, Attempts
<1>3. Roles'
  BY <1>0 DEF TaggerTypeOK, Roles, Lockers
<1>4. BrokenInPlaceOnly'
  BY <1>0 DEF TaggerTypeOK, Attempts, BrokenInPlaceOnly, InPlace, Contents
<1> QED
  BY <1>1, <1>2, <1>3, <1>4

LEMMA StepCheck ==
  ASSUME TagInv, NEW p \in Writers, Check(p)
  PROVE  TagInv'
<1> USE FlacTaggerAssumption DEF TagInv, Check, Moves, Reports, Called, lockVars, historyVars
<1>0. \A q \in Writers \ {p} : tagAt'[q] = tagAt[q]
  BY DEF TaggerTypeOK
<1>1. TaggerTypeOK'
  <2>1. PICK K \in TagSets : Called(p, Missing(Of(p, K)), FALSE)
    BY DEF Check
  <2>2. Of(p, K) \in Tags /\ Missing(Of(p, K)) \in Tags
    BY TagTypes DEF TaggerTypeOK
  <2>3. wants' \in [Writers -> Tags] /\ force' \in [Writers -> BOOLEAN]
    BY <2>1, <2>2 DEF Called, TaggerTypeOK
  <2> QED
    BY <2>3 DEF TaggerTypeOK, TagAt
<1>2. Attempts'
  BY <1>0 DEF TaggerTypeOK, Attempts
<1>3. Roles'
  BY <1>0 DEF TaggerTypeOK, Roles, Lockers
<1>4. BrokenInPlaceOnly'
  BY <1>0 DEF TaggerTypeOK, Attempts, BrokenInPlaceOnly, InPlace, Contents
<1> QED
  BY <1>1, <1>2, <1>3, <1>4

LEMMA StepOpenLock ==
  ASSUME TagInv, NEW p \in Writers, OpenLock(p)
  PROVE  TagInv'
<1> USE FlacTaggerAssumption DEF TagInv, OpenLock, Moves, Reports, LockStep, argumentVars,
        historyVars
<1>0. \A q \in Writers \ {p} : tagAt'[q] = tagAt[q]
  BY DEF TaggerTypeOK
<1>1. TaggerTypeOK'
  BY NewLockFile, <1>0 DEF TaggerTypeOK, Attempts, TagAt, Contents, Tags, NoTags, Nothing,
     Lockers, Writers, Roles
<1>2. Attempts'
  BY <1>0 DEF TaggerTypeOK, Attempts
<1>3. Roles'
  BY <1>0 DEF TaggerTypeOK, Roles, Lockers
<1>4. BrokenInPlaceOnly'
  BY <1>0 DEF TaggerTypeOK, Attempts, BrokenInPlaceOnly, InPlace, Contents
<1> QED
  BY <1>1, <1>2, <1>3, <1>4

LEMMA StepLock ==
  ASSUME TagInv, NEW p \in Writers, Lock(p)
  PROVE  TagInv'
<1> USE FlacTaggerAssumption DEF TagInv, Lock, Moves, Reports, LockStep, argumentVars,
        historyVars, Grantable
<1>0. \A q \in Writers \ {p} : tagAt'[q] = tagAt[q]
  BY DEF TaggerTypeOK
<1>1. TaggerTypeOK'
  BY <1>0 DEF TaggerTypeOK, Attempts, TagAt, Contents, Tags, NoTags, Nothing, Lockers, Writers,
     Roles
<1>2. Attempts'
  BY <1>0 DEF TaggerTypeOK, Attempts
<1>3. Roles'
  BY <1>0 DEF TaggerTypeOK, Roles, Lockers
<1>4. BrokenInPlaceOnly'
  BY <1>0 DEF TaggerTypeOK, Attempts, BrokenInPlaceOnly, InPlace, Contents
<1> QED
  BY <1>1, <1>2, <1>3, <1>4

LEMMA StepLockHeld ==
  ASSUME TagInv, NEW p \in Writers, LockHeld(p)
  PROVE  TagInv'
<1> USE FlacTaggerAssumption DEF TagInv, LockHeld, Moves, Reports, LockStep, argumentVars,
        historyVars
<1>0. \A q \in Writers \ {p} : tagAt'[q] = tagAt[q]
  BY DEF TaggerTypeOK
<1>1. TaggerTypeOK'
  <2>1. tagAt' \in [Writers -> TagAt] /\ result' \in [Writers -> {"unknown", "ok", "failed"}]
    BY DEF TaggerTypeOK, TagAt
  <2>2. lockFile' \in [Writers -> LockFiles \cup {0}]
    BY DEF TaggerTypeOK
  <2> QED
    BY <2>1, <2>2 DEF TaggerTypeOK
<1>2. Attempts'
  BY <1>0 DEF TaggerTypeOK, Attempts
<1>3. Roles'
  BY <1>0 DEF TaggerTypeOK, Roles, Lockers
<1>4. BrokenInPlaceOnly'
  BY <1>0 DEF TaggerTypeOK, Attempts, BrokenInPlaceOnly, InPlace, Contents
<1> QED
  BY <1>1, <1>2, <1>3, <1>4

LEMMA StepUnlock ==
  ASSUME TagInv, NEW p \in Writers, Unlock(p)
  PROVE  TagInv'
<1> USE FlacTaggerAssumption DEF TagInv, Unlock, Moves, Reports, historyVars
<1>0. \A q \in Writers \ {p} : tagAt'[q] = tagAt[q]
  BY DEF TaggerTypeOK
<1>1. TaggerTypeOK'
  BY <1>0 DEF TaggerTypeOK, Attempts, TagAt, Contents, Tags, NoTags, Nothing, Lockers, Writers,
     Roles
<1>2. Attempts'
  BY <1>0 DEF TaggerTypeOK, Attempts
<1>3. Roles'
  BY <1>0 DEF TaggerTypeOK, Roles, Lockers
<1>4. BrokenInPlaceOnly'
  BY <1>0 DEF TaggerTypeOK, Attempts, BrokenInPlaceOnly, InPlace, Contents
<1> QED
  BY <1>1, <1>2, <1>3, <1>4

LEMMA StepRemoveLock ==
  ASSUME TagInv, NEW p \in Writers, RemoveLock(p)
  PROVE  TagInv'
<1> USE FlacTaggerAssumption DEF TagInv, RemoveLock, Moves, Reports, LockStep, argumentVars,
        historyVars
<1>0. \A q \in Writers \ {p} : tagAt'[q] = tagAt[q]
  BY DEF TaggerTypeOK
<1>1. TaggerTypeOK'
  BY <1>0 DEF TaggerTypeOK, Attempts, TagAt, Contents, Tags, NoTags, Nothing, Lockers, Writers,
     Roles
<1>2. Attempts'
  BY <1>0 DEF TaggerTypeOK, Attempts
<1>3. Roles'
  BY <1>0 DEF TaggerTypeOK, Roles, Lockers
<1>4. BrokenInPlaceOnly'
  BY <1>0 DEF TaggerTypeOK, Attempts, BrokenInPlaceOnly, InPlace, Contents
<1> QED
  BY <1>1, <1>2, <1>3, <1>4

LEMMA StepDecide ==
  ASSUME TagInv, NEW p \in Writers, Decide(p)
  PROVE  TagInv'
<1> USE FlacTaggerAssumption DEF TagInv, Decide, Moves, Reports, WriteStep, lockVars,
        argumentVars, historyVars
<1>0. \A q \in Writers \ {p} : tagAt'[q] = tagAt[q]
  BY DEF TaggerTypeOK
<1>1. TaggerTypeOK'
  <2>1. writes' \in [Writers -> Tags]
    <3>1. wants[p] \in Tags /\ Missing(wants[p]) \in Tags
      BY TagTypes DEF TaggerTypeOK
    <3> QED
      BY <3>1 DEF TaggerTypeOK
  <2>2. tagAt' \in [Writers -> TagAt] /\ result' \in [Writers -> {"unknown", "ok", "failed"}]
    BY DEF TaggerTypeOK, TagAt
  <2>3. overtaken' \in [Writers -> SUBSET Writers]
    BY DEF TaggerTypeOK
  <2> QED
    BY <2>1, <2>2, <2>3 DEF TaggerTypeOK
<1>2. Attempts'
  BY <1>0 DEF TaggerTypeOK, Attempts
<1>3. Roles'
  BY <1>0 DEF TaggerTypeOK, Roles, Lockers
<1>4. BrokenInPlaceOnly'
  BY <1>0 DEF TaggerTypeOK, Attempts, BrokenInPlaceOnly, InPlace, Contents
<1> QED
  BY <1>1, <1>2, <1>3, <1>4

LEMMA StepDiskFull ==
  ASSUME TagInv, NEW p \in Writers, DiskFull(p)
  PROVE  TagInv'
<1> USE FlacTaggerAssumption DEF TagInv, DiskFull, Moves, Reports, WriteStep, lockVars,
        argumentVars, historyVars, TagFault
<1>0. \A q \in Writers \ {p} : tagAt'[q] = tagAt[q]
  BY DEF TaggerTypeOK
<1>1. TaggerTypeOK'
  BY <1>0 DEF TaggerTypeOK, Attempts, TagAt, Contents, Tags, NoTags, Nothing, Lockers, Writers,
     Roles
<1>2. Attempts'
  BY <1>0 DEF TaggerTypeOK, Attempts
<1>3. Roles'
  BY <1>0 DEF TaggerTypeOK, Roles, Lockers
<1>4. BrokenInPlaceOnly'
  BY <1>0 DEF TaggerTypeOK, Attempts, BrokenInPlaceOnly, InPlace, Contents
<1> QED
  BY <1>1, <1>2, <1>3, <1>4

LEMMA StepCopyToTemp ==
  ASSUME TagInv, NEW p \in Writers, CopyToTemp(p)
  PROVE  TagInv'
<1> USE FlacTaggerAssumption DEF TagInv, CopyToTemp, Moves, Reports, WriteStep, lockVars,
        argumentVars, historyVars
<1>0. \A q \in Writers \ {p} : tagAt'[q] = tagAt[q]
  BY DEF TaggerTypeOK
<1>1. TaggerTypeOK'
  <2>1. attempt' \in [Writers -> 0..RetryCount]
    <3>1. attempt[p] \in 0..RetryCount /\ attempt[p] < RetryCount
      BY DEF TaggerTypeOK, Attempts
    <3>2. attempt[p] + 1 \in 0..RetryCount
      BY <3>1
    <3> QED
      BY <3>2 DEF TaggerTypeOK
  <2>2. temp' \in [Writers -> Contents] /\ tagAt' \in [Writers -> TagAt]
    BY DEF TaggerTypeOK, TagAt
  <2> QED
    BY <2>1, <2>2 DEF TaggerTypeOK
<1>2. Attempts'
  BY <1>0 DEF TaggerTypeOK, Attempts
<1>3. Roles'
  BY <1>0 DEF TaggerTypeOK, Roles, Lockers
<1>4. BrokenInPlaceOnly'
  BY <1>0 DEF TaggerTypeOK, Attempts, BrokenInPlaceOnly, InPlace, Contents
<1> QED
  BY <1>1, <1>2, <1>3, <1>4

LEMMA StepSaveTemp ==
  ASSUME TagInv, NEW p \in Writers, SaveTemp(p)
  PROVE  TagInv'
<1> USE FlacTaggerAssumption DEF TagInv, SaveTemp, Moves, Reports, WriteStep, lockVars,
        argumentVars, historyVars
<1>0. \A q \in Writers \ {p} : tagAt'[q] = tagAt[q]
  BY DEF TaggerTypeOK
<1>1. TaggerTypeOK'
  <2>1. temp' \in [Writers -> Contents]
    <3>1. temp[p] \in Contents /\ temp[p].tags \in Tags /\ writes[p] \in Tags
      BY DEF TaggerTypeOK, Contents
    <3>2. Overlaid(temp[p].tags, writes[p]) \in Tags
      BY <3>1, TagTypes DEF TaggerTypeOK
    <3>3. [temp[p] EXCEPT !.tags = Overlaid(temp[p].tags, writes[p])] \in Contents
      BY <3>1, <3>2 DEF Contents
    <3> QED
      BY <3>3 DEF TaggerTypeOK
  <2>2. tagAt' \in [Writers -> TagAt]
    BY DEF TaggerTypeOK, TagAt
  <2> QED
    BY <2>1, <2>2 DEF TaggerTypeOK
<1>2. Attempts'
  BY <1>0 DEF TaggerTypeOK, Attempts
<1>3. Roles'
  BY <1>0 DEF TaggerTypeOK, Roles, Lockers
<1>4. BrokenInPlaceOnly'
  BY <1>0 DEF TaggerTypeOK, Attempts, BrokenInPlaceOnly, InPlace, Contents
<1> QED
  BY <1>1, <1>2, <1>3, <1>4

LEMMA StepReplace ==
  ASSUME TagInv, NEW p \in Writers, Replace(p)
  PROVE  TagInv'
<1> USE FlacTaggerAssumption DEF TagInv, Replace, Moves, Reports, WriteStep, lockVars,
        argumentVars, historyVars, Overtake
<1>0. \A q \in Writers \ {p} : tagAt'[q] = tagAt[q]
  BY DEF TaggerTypeOK
<1>1. TaggerTypeOK'
  BY <1>0 DEF TaggerTypeOK, Attempts, TagAt, Contents, Tags, NoTags, Nothing, Lockers, Writers,
     Roles
<1>2. Attempts'
  BY <1>0 DEF TaggerTypeOK, Attempts
<1>3. Roles'
  BY <1>0 DEF TaggerTypeOK, Roles, Lockers
<1>4. BrokenInPlaceOnly'
  BY <1>0 DEF TaggerTypeOK, Attempts, BrokenInPlaceOnly, InPlace, Contents
<1> QED
  BY <1>1, <1>2, <1>3, <1>4

LEMMA StepMoveBegins ==
  ASSUME TagInv, NEW p \in Writers, MoveBegins(p)
  PROVE  TagInv'
<1> USE FlacTaggerAssumption DEF TagInv, MoveBegins, Moves, Reports, WriteStep, lockVars,
        argumentVars, historyVars, TagFault
<1>0. \A q \in Writers \ {p} : tagAt'[q] = tagAt[q]
  BY DEF TaggerTypeOK
<1>1. TaggerTypeOK'
  <2>1. flac' \in Contents /\ mishap' \in BOOLEAN
    BY DEF TaggerTypeOK, Contents
  <2>2. tagAt' \in [Writers -> TagAt]
    BY DEF TaggerTypeOK, TagAt
  <2>3. tagFaults' \in 0..MaxTagFaults
    BY DEF TaggerTypeOK
  <2> QED
    BY <2>1, <2>2, <2>3 DEF TaggerTypeOK
<1>2. Attempts'
  BY <1>0 DEF TaggerTypeOK, Attempts
<1>3. Roles'
  BY <1>0 DEF TaggerTypeOK, Roles, Lockers
<1>4. BrokenInPlaceOnly'
  BY <1>0 DEF TaggerTypeOK, Attempts, BrokenInPlaceOnly, InPlace, Contents
<1> QED
  BY <1>1, <1>2, <1>3, <1>4

LEMMA StepMoveEnds ==
  ASSUME TagInv, NEW p \in Writers, MoveEnds(p)
  PROVE  TagInv'
<1> USE FlacTaggerAssumption DEF TagInv, MoveEnds, Moves, Reports, WriteStep, lockVars,
        argumentVars, historyVars, Overtake
<1>0. \A q \in Writers \ {p} : tagAt'[q] = tagAt[q]
  BY DEF TaggerTypeOK
<1>1. TaggerTypeOK'
  BY <1>0 DEF TaggerTypeOK, Attempts, TagAt, Contents, Tags, NoTags, Nothing, Lockers, Writers,
     Roles
<1>2. Attempts'
  BY <1>0 DEF TaggerTypeOK, Attempts
<1>3. Roles'
  BY <1>0 DEF TaggerTypeOK, Roles, Lockers
<1>4. BrokenInPlaceOnly'
  BY <1>0 DEF TaggerTypeOK, Attempts, BrokenInPlaceOnly, InPlace, Contents
<1> QED
  BY <1>1, <1>2, <1>3, <1>4

LEMMA StepAttemptFails ==
  ASSUME TagInv, NEW p \in Writers, AttemptFails(p)
  PROVE  TagInv'
<1> USE FlacTaggerAssumption DEF TagInv, AttemptFails, Moves, Reports, WriteStep, lockVars,
        argumentVars, historyVars, TagFault
<1>0. \A q \in Writers \ {p} : tagAt'[q] = tagAt[q]
  BY DEF TaggerTypeOK
<1>1. TaggerTypeOK'
  <2>1. temp' \in [Writers -> Contents]
    BY TagTypes DEF TaggerTypeOK
  <2>2. tagAt' \in [Writers -> TagAt] /\ result' \in [Writers -> {"unknown", "ok", "failed"}]
    BY DEF TaggerTypeOK, TagAt
  <2>3. tagFaults' \in 0..MaxTagFaults
    BY DEF TaggerTypeOK
  <2>4. mishap' \in BOOLEAN
    BY DEF TaggerTypeOK
  <2> QED
    BY <2>1, <2>2, <2>3, <2>4 DEF TaggerTypeOK
<1>2. Attempts'
  BY <1>0 DEF TaggerTypeOK, Attempts
<1>3. Roles'
  BY <1>0 DEF TaggerTypeOK, Roles, Lockers
<1>4. BrokenInPlaceOnly'
  BY <1>0 DEF TaggerTypeOK, Attempts, BrokenInPlaceOnly, InPlace, Contents
<1> QED
  BY <1>1, <1>2, <1>3, <1>4

LEMMA StepHnrRead ==
  ASSUME TagInv, NEW p \in Writers, HnrRead(p)
  PROVE  TagInv'
<1> USE FlacTaggerAssumption DEF TagInv, HnrRead, Moves, Reports, HnrStep, lockVars, argumentVars
<1>0. \A q \in Writers \ {p} : tagAt'[q] = tagAt[q]
  BY DEF TaggerTypeOK
<1>1. TaggerTypeOK'
  BY <1>0 DEF TaggerTypeOK, Attempts, TagAt, Contents, Tags, NoTags, Nothing, Lockers, Writers,
     Roles
<1>2. Attempts'
  BY <1>0 DEF TaggerTypeOK, Attempts
<1>3. Roles'
  BY <1>0 DEF TaggerTypeOK, Roles, Lockers
<1>4. BrokenInPlaceOnly'
  BY <1>0 DEF TaggerTypeOK, Attempts, BrokenInPlaceOnly, InPlace, Contents
<1> QED
  BY <1>1, <1>2, <1>3, <1>4

LEMMA StepHnrSaveBegins ==
  ASSUME TagInv, NEW p \in Writers, HnrSaveBegins(p)
  PROVE  TagInv'
<1> USE FlacTaggerAssumption DEF TagInv, HnrSaveBegins, Moves, Reports, HnrStep, lockVars,
        argumentVars
<1>0. \A q \in Writers \ {p} : tagAt'[q] = tagAt[q]
  BY DEF TaggerTypeOK
<1>1. TaggerTypeOK'
  BY <1>0 DEF TaggerTypeOK, Attempts, TagAt, Contents, Tags, NoTags, Nothing, Lockers, Writers,
     Roles
<1>2. Attempts'
  BY <1>0 DEF TaggerTypeOK, Attempts
<1>3. Roles'
  BY <1>0 DEF TaggerTypeOK, Roles, Lockers
<1>4. BrokenInPlaceOnly'
  BY <1>0 DEF TaggerTypeOK, Attempts, BrokenInPlaceOnly, InPlace, Contents
<1> QED
  BY <1>1, <1>2, <1>3, <1>4

LEMMA StepHnrSaveEnds ==
  ASSUME TagInv, NEW p \in Writers, HnrSaveEnds(p)
  PROVE  TagInv'
<1> USE FlacTaggerAssumption DEF TagInv, HnrSaveEnds, Moves, Reports, HnrStep, lockVars,
        argumentVars, Overtake
<1>0. \A q \in Writers \ {p} : tagAt'[q] = tagAt[q]
  BY DEF TaggerTypeOK
<1>1. TaggerTypeOK'
  BY <1>0 DEF TaggerTypeOK, Attempts, TagAt, Contents, Tags, NoTags, Nothing, Lockers, Writers,
     Roles
<1>2. Attempts'
  BY <1>0 DEF TaggerTypeOK, Attempts
<1>3. Roles'
  BY <1>0 DEF TaggerTypeOK, Roles, Lockers
<1>4. BrokenInPlaceOnly'
  BY <1>0 DEF TaggerTypeOK, Attempts, BrokenInPlaceOnly, InPlace, Contents
<1> QED
  BY <1>1, <1>2, <1>3, <1>4

LEMMA StepDie ==
  ASSUME TagInv, NEW p \in Writers, Die(p)
  PROVE  TagInv'
<1> USE FlacTaggerAssumption DEF TagInv, Die, Moves, Reports, TagFault, InPlace
<1>0. \A q \in Writers \ {p} : tagAt'[q] = tagAt[q]
  BY DEF TaggerTypeOK
<1>1. TaggerTypeOK'
  BY <1>0 DEF TaggerTypeOK, Attempts, TagAt, Contents, Tags, NoTags, Nothing, Lockers, Writers,
     Roles
<1>2. Attempts'
  BY <1>0 DEF TaggerTypeOK, Attempts
<1>3. Roles'
  BY <1>0 DEF TaggerTypeOK, Roles, Lockers
<1>4. BrokenInPlaceOnly'
  BY <1>0 DEF TaggerTypeOK, Attempts, BrokenInPlaceOnly, InPlace, Contents
<1> QED
  BY <1>1, <1>2, <1>3, <1>4

\* Every step of a writer keeps the invariant.
LEMMA NextTagInv == TagInv /\ [TaggerNext]_taggerVars => TagInv'
<1> SUFFICES ASSUME TagInv, [TaggerNext]_taggerVars PROVE TagInv'
  OBVIOUS
<1>1. ASSUME UNCHANGED taggerVars PROVE TagInv'
  <2> USE <1>1 DEF TagInv, taggerVars, lockVars, argumentVars, historyVars
  <2>1. TaggerTypeOK'
    BY DEF TaggerTypeOK
  <2>2. Attempts'
    BY DEF Attempts
  <2>3. Roles'
    BY DEF Roles
  <2>4. BrokenInPlaceOnly'
    BY DEF BrokenInPlaceOnly
  <2> QED
    BY <2>1, <2>2, <2>3, <2>4
<1>2. ASSUME NEW p \in Writers, Tag(p) PROVE TagInv'
  BY <1>2, StepTag
<1>3. ASSUME NEW p \in Writers, Repair(p) PROVE TagInv'
  BY <1>3, StepRepair
<1>4. ASSUME NEW p \in Writers, Check(p) PROVE TagInv'
  BY <1>4, StepCheck
<1>5. ASSUME NEW p \in Writers, OpenLock(p) PROVE TagInv'
  BY <1>5, StepOpenLock
<1>6. ASSUME NEW p \in Writers, Lock(p) PROVE TagInv'
  BY <1>6, StepLock
<1>7. ASSUME NEW p \in Writers, LockHeld(p) PROVE TagInv'
  BY <1>7, StepLockHeld
<1>8. ASSUME NEW p \in Writers, Unlock(p) PROVE TagInv'
  BY <1>8, StepUnlock
<1>9. ASSUME NEW p \in Writers, RemoveLock(p) PROVE TagInv'
  BY <1>9, StepRemoveLock
<1>10. ASSUME NEW p \in Writers, Decide(p) PROVE TagInv'
  BY <1>10, StepDecide
<1>11. ASSUME NEW p \in Writers, DiskFull(p) PROVE TagInv'
  BY <1>11, StepDiskFull
<1>12. ASSUME NEW p \in Writers, CopyToTemp(p) PROVE TagInv'
  BY <1>12, StepCopyToTemp
<1>13. ASSUME NEW p \in Writers, SaveTemp(p) PROVE TagInv'
  BY <1>13, StepSaveTemp
<1>14. ASSUME NEW p \in Writers, Replace(p) PROVE TagInv'
  BY <1>14, StepReplace
<1>15. ASSUME NEW p \in Writers, MoveBegins(p) PROVE TagInv'
  BY <1>15, StepMoveBegins
<1>16. ASSUME NEW p \in Writers, MoveEnds(p) PROVE TagInv'
  BY <1>16, StepMoveEnds
<1>17. ASSUME NEW p \in Writers, AttemptFails(p) PROVE TagInv'
  BY <1>17, StepAttemptFails
<1>18. ASSUME NEW p \in Writers, HnrRead(p) PROVE TagInv'
  BY <1>18, StepHnrRead
<1>19. ASSUME NEW p \in Writers, HnrSaveBegins(p) PROVE TagInv'
  BY <1>19, StepHnrSaveBegins
<1>20. ASSUME NEW p \in Writers, HnrSaveEnds(p) PROVE TagInv'
  BY <1>20, StepHnrSaveEnds
<1>21. ASSUME NEW p \in Writers, Die(p) PROVE TagInv'
  BY <1>21, StepDie
<1> QED
  BY <1>1, <1>2, <1>3, <1>4, <1>5, <1>6, <1>7, <1>8, <1>9, <1>10, <1>11, <1>12, <1>13, <1>14,
     <1>15, <1>16, <1>17, <1>18, <1>19, <1>20, <1>21 DEF TaggerNext

LEMMA TagInvariance == TaggerSpec => []TagInv
BY InitTagInv, NextTagInv, PTL DEF TaggerSpec

\* Types of the writers; no more attempts than RetryCount (flac_tagger.py:461).
THEOREM TaggerTypes == TaggerSpec => []TaggerTypeOK
<1>1. TagInv => TaggerTypeOK
  BY DEF TagInv
<1> QED
  BY <1>1, TagInvariance, PTL

\* The file is broken only while it is written in place, or after that went wrong, for any
\* writers, locked or not, on either system (flac_tagger.py:470-486).
THEOREM CrashSafe == TaggerSpec => []BrokenInPlaceOnly
<1>1. TagInv => BrokenInPlaceOnly
  BY DEF TagInv
<1> QED
  BY <1>1, TagInvariance, PTL

(***************************************************************************)
(* Exclusion, where an open lock file cannot be removed.                   *)
(***************************************************************************)
Inside == {"deciding", "copying", "saving", "replacing", "moving", "unlocking"}

\* Every lock file that is open is the one of that name, so that one lock is granted, and
\* whoever is between the lock and the unlock has it.
Exclusive ==
    /\ \A p \in Writers : lockFile[p] # 0 => lockFile[p] = lockName
    /\ \A p \in Writers : tagAt[p] = "locking" => lockFile[p] # 0
    /\ \A p \in locked : lockFile[p] # 0 /\ tagAt[p] \in Inside
    /\ \A p, q \in locked : p = q
    /\ \A p \in Writers : tagAt[p] \in Inside => p \in locked

ExclusiveInv == TagInv /\ Exclusive /\ NoLostUpdate

LEMMA InitExclusive == TaggerInit => ExclusiveInv
<1> SUFFICES ASSUME TaggerInit PROVE ExclusiveInv
  OBVIOUS
<1>1. Exclusive
  BY DEF TaggerInit, Exclusive, Inside
<1>2. NoLostUpdate
  BY DEF TaggerInit, NoLostUpdate, Deciding, Lockers, Writers
<1> QED
  BY <1>1, <1>2, InitTagInv DEF ExclusiveInv

LEMMA ExclTag ==
  ASSUME ~Posix, ExclusiveInv, NEW p \in Writers, Tag(p)
  PROVE  Exclusive' /\ NoLostUpdate'
<1> USE FlacTaggerAssumption DEF ExclusiveInv, TagInv, Tag, Moves, Reports, Called, lockVars,
        historyVars
<1>0. \A q \in Writers \ {p} : tagAt'[q] = tagAt[q]
  BY DEF TaggerTypeOK
<1>1. Exclusive'
  BY <1>0 DEF Exclusive, Inside, TaggerTypeOK, Lockers, Writers, Roles
<1>2. NoLostUpdate'
  BY <1>0 DEF NoLostUpdate, Deciding, Exclusive, Inside, TaggerTypeOK, Lockers, Writers, Roles
<1> QED
  BY <1>1, <1>2

LEMMA ExclRepair ==
  ASSUME ~Posix, ExclusiveInv, NEW p \in Writers, Repair(p)
  PROVE  Exclusive' /\ NoLostUpdate'
<1> USE FlacTaggerAssumption DEF ExclusiveInv, TagInv, Repair, Moves, Reports, Called, lockVars,
        historyVars
<1>0. \A q \in Writers \ {p} : tagAt'[q] = tagAt[q]
  BY DEF TaggerTypeOK
<1>1. Exclusive'
  BY <1>0 DEF Exclusive, Inside, TaggerTypeOK, Lockers, Writers, Roles
<1>2. NoLostUpdate'
  BY <1>0 DEF NoLostUpdate, Deciding, Exclusive, Inside, TaggerTypeOK, Lockers, Writers, Roles
<1> QED
  BY <1>1, <1>2

LEMMA ExclCheck ==
  ASSUME ~Posix, ExclusiveInv, NEW p \in Writers, Check(p)
  PROVE  Exclusive' /\ NoLostUpdate'
<1> USE FlacTaggerAssumption DEF ExclusiveInv, TagInv, Check, Moves, Reports, Called, lockVars,
        historyVars
<1>0. \A q \in Writers \ {p} : tagAt'[q] = tagAt[q]
  BY DEF TaggerTypeOK
<1>1. Exclusive'
  BY <1>0 DEF Exclusive, Inside, TaggerTypeOK, Lockers, Writers, Roles
<1>2. NoLostUpdate'
  BY <1>0 DEF NoLostUpdate, Deciding, Exclusive, Inside, TaggerTypeOK, Lockers, Writers, Roles
<1> QED
  BY <1>1, <1>2

LEMMA ExclOpenLock ==
  ASSUME ~Posix, ExclusiveInv, NEW p \in Writers, OpenLock(p)
  PROVE  Exclusive' /\ NoLostUpdate'
<1> USE FlacTaggerAssumption DEF ExclusiveInv, TagInv, OpenLock, Moves, Reports, LockStep,
        argumentVars, historyVars
<1>0. \A q \in Writers \ {p} : tagAt'[q] = tagAt[q]
  BY DEF TaggerTypeOK
<1>1. Exclusive'
  <2>1. lockName' # 0
    BY NewLockFile DEF TaggerTypeOK, LockFiles
  <2>2. \A q \in Writers : lockFile[q] # 0 => lockFile[q] = lockName'
    BY DEF Exclusive, TaggerTypeOK
  <2>3. \A q \in Writers : lockFile'[q] = IF q = p THEN lockName' ELSE lockFile[q]
    BY DEF TaggerTypeOK
  <2> QED
    BY <1>0, <2>1, <2>2, <2>3 DEF Exclusive, Inside, TaggerTypeOK, Lockers, Writers
<1>2. NoLostUpdate'
  BY <1>0 DEF NoLostUpdate, Deciding, Exclusive, Inside, TaggerTypeOK, Lockers, Writers, Roles
<1> QED
  BY <1>1, <1>2

LEMMA ExclLock ==
  ASSUME ~Posix, ExclusiveInv, NEW p \in Writers, Lock(p)
  PROVE  Exclusive' /\ NoLostUpdate'
<1> USE FlacTaggerAssumption DEF ExclusiveInv, TagInv, Lock, Moves, Reports, LockStep,
        argumentVars, historyVars, Grantable
<1>0. \A q \in Writers \ {p} : tagAt'[q] = tagAt[q]
  BY DEF TaggerTypeOK
<1>1. Exclusive'
  BY <1>0 DEF Exclusive, Inside, TaggerTypeOK, Lockers, Writers, Roles, Grantable
<1>2. NoLostUpdate'
  BY <1>0 DEF NoLostUpdate, Deciding, Exclusive, Inside, TaggerTypeOK, Lockers, Writers, Roles
<1> QED
  BY <1>1, <1>2

LEMMA ExclLockHeld ==
  ASSUME ~Posix, ExclusiveInv, NEW p \in Writers, LockHeld(p)
  PROVE  Exclusive' /\ NoLostUpdate'
<1> USE FlacTaggerAssumption DEF ExclusiveInv, TagInv, LockHeld, Moves, Reports, LockStep,
        argumentVars, historyVars
<1>0. \A q \in Writers \ {p} : tagAt'[q] = tagAt[q]
  BY DEF TaggerTypeOK
<1>1. Exclusive'
  BY <1>0 DEF Exclusive, Inside, TaggerTypeOK, Lockers, Writers, Roles, Grantable
<1>2. NoLostUpdate'
  BY <1>0 DEF NoLostUpdate, Deciding, Exclusive, Inside, TaggerTypeOK, Lockers, Writers, Roles
<1> QED
  BY <1>1, <1>2

LEMMA ExclUnlock ==
  ASSUME ~Posix, ExclusiveInv, NEW p \in Writers, Unlock(p)
  PROVE  Exclusive' /\ NoLostUpdate'
<1> USE FlacTaggerAssumption DEF ExclusiveInv, TagInv, Unlock, Moves, Reports, historyVars
<1>0. \A q \in Writers \ {p} : tagAt'[q] = tagAt[q]
  BY DEF TaggerTypeOK
<1>1. Exclusive'
  BY <1>0 DEF Exclusive, Inside, TaggerTypeOK, Lockers, Writers, Roles
<1>2. NoLostUpdate'
  BY <1>0 DEF NoLostUpdate, Deciding, Exclusive, Inside, TaggerTypeOK, Lockers, Writers, Roles
<1> QED
  BY <1>1, <1>2

LEMMA ExclRemoveLock ==
  ASSUME ~Posix, ExclusiveInv, NEW p \in Writers, RemoveLock(p)
  PROVE  Exclusive' /\ NoLostUpdate'
<1> USE FlacTaggerAssumption DEF ExclusiveInv, TagInv, RemoveLock, Moves, Reports, LockStep,
        argumentVars, historyVars
<1>0. \A q \in Writers \ {p} : tagAt'[q] = tagAt[q]
  BY DEF TaggerTypeOK
<1>1. Exclusive'
  BY <1>0 DEF Exclusive, Inside, TaggerTypeOK, Lockers, Writers, Roles
<1>2. NoLostUpdate'
  BY <1>0 DEF NoLostUpdate, Deciding, Exclusive, Inside, TaggerTypeOK, Lockers, Writers, Roles
<1> QED
  BY <1>1, <1>2

LEMMA ExclDecide ==
  ASSUME ~Posix, ExclusiveInv, NEW p \in Writers, Decide(p)
  PROVE  Exclusive' /\ NoLostUpdate'
<1> USE FlacTaggerAssumption DEF ExclusiveInv, TagInv, Decide, Moves, Reports, WriteStep,
        lockVars, argumentVars, historyVars
<1>0. \A q \in Writers \ {p} : tagAt'[q] = tagAt[q]
  BY DEF TaggerTypeOK
<1>1. Exclusive'
  BY <1>0 DEF Exclusive, Inside, TaggerTypeOK, Lockers, Writers, Roles
<1>2. NoLostUpdate'
  BY <1>0 DEF NoLostUpdate, Deciding, Exclusive, Inside, TaggerTypeOK, Lockers, Writers, Roles
<1> QED
  BY <1>1, <1>2

LEMMA ExclDiskFull ==
  ASSUME ~Posix, ExclusiveInv, NEW p \in Writers, DiskFull(p)
  PROVE  Exclusive' /\ NoLostUpdate'
<1> USE FlacTaggerAssumption DEF ExclusiveInv, TagInv, DiskFull, Moves, Reports, WriteStep,
        lockVars, argumentVars, historyVars, TagFault
<1>0. \A q \in Writers \ {p} : tagAt'[q] = tagAt[q]
  BY DEF TaggerTypeOK
<1>1. Exclusive'
  BY <1>0 DEF Exclusive, Inside, TaggerTypeOK, Lockers, Writers, Roles
<1>2. NoLostUpdate'
  BY <1>0 DEF NoLostUpdate, Deciding, Exclusive, Inside, TaggerTypeOK, Lockers, Writers, Roles
<1> QED
  BY <1>1, <1>2

LEMMA ExclCopyToTemp ==
  ASSUME ~Posix, ExclusiveInv, NEW p \in Writers, CopyToTemp(p)
  PROVE  Exclusive' /\ NoLostUpdate'
<1> USE FlacTaggerAssumption DEF ExclusiveInv, TagInv, CopyToTemp, Moves, Reports, WriteStep,
        lockVars, argumentVars, historyVars
<1>0. \A q \in Writers \ {p} : tagAt'[q] = tagAt[q]
  BY DEF TaggerTypeOK
<1>1. Exclusive'
  BY <1>0 DEF Exclusive, Inside, TaggerTypeOK, Lockers, Writers, Roles
<1>2. NoLostUpdate'
  BY <1>0 DEF NoLostUpdate, Deciding, Exclusive, Inside, TaggerTypeOK, Lockers, Writers, Roles
<1> QED
  BY <1>1, <1>2

LEMMA ExclSaveTemp ==
  ASSUME ~Posix, ExclusiveInv, NEW p \in Writers, SaveTemp(p)
  PROVE  Exclusive' /\ NoLostUpdate'
<1> USE FlacTaggerAssumption DEF ExclusiveInv, TagInv, SaveTemp, Moves, Reports, WriteStep,
        lockVars, argumentVars, historyVars
<1>0. \A q \in Writers \ {p} : tagAt'[q] = tagAt[q]
  BY DEF TaggerTypeOK
<1>1. Exclusive'
  BY <1>0 DEF Exclusive, Inside, TaggerTypeOK, Lockers, Writers, Roles
<1>2. NoLostUpdate'
  BY <1>0 DEF NoLostUpdate, Deciding, Exclusive, Inside, TaggerTypeOK, Lockers, Writers, Roles
<1> QED
  BY <1>1, <1>2

LEMMA ExclReplace ==
  ASSUME ~Posix, ExclusiveInv, NEW p \in Writers, Replace(p)
  PROVE  Exclusive' /\ NoLostUpdate'
<1> USE FlacTaggerAssumption DEF ExclusiveInv, TagInv, Replace, Moves, Reports, WriteStep,
        lockVars, argumentVars, historyVars, Overtake
<1>0. \A q \in Writers \ {p} : tagAt'[q] = tagAt[q]
  BY DEF TaggerTypeOK
<1>1. Exclusive'
  BY <1>0 DEF Exclusive, Inside, TaggerTypeOK, Lockers, Writers, Roles
<1>2. NoLostUpdate'
  BY <1>0 DEF NoLostUpdate, Deciding, Exclusive, Inside, TaggerTypeOK, Lockers, Writers, Roles
<1> QED
  BY <1>1, <1>2

LEMMA ExclMoveBegins ==
  ASSUME ~Posix, ExclusiveInv, NEW p \in Writers, MoveBegins(p)
  PROVE  Exclusive' /\ NoLostUpdate'
<1> USE FlacTaggerAssumption DEF ExclusiveInv, TagInv, MoveBegins, Moves, Reports, WriteStep,
        lockVars, argumentVars, historyVars, TagFault
<1>0. \A q \in Writers \ {p} : tagAt'[q] = tagAt[q]
  BY DEF TaggerTypeOK
<1>1. Exclusive'
  BY <1>0 DEF Exclusive, Inside, TaggerTypeOK, Lockers, Writers, Roles
<1>2. NoLostUpdate'
  BY <1>0 DEF NoLostUpdate, Deciding, Exclusive, Inside, TaggerTypeOK, Lockers, Writers, Roles
<1> QED
  BY <1>1, <1>2

LEMMA ExclMoveEnds ==
  ASSUME ~Posix, ExclusiveInv, NEW p \in Writers, MoveEnds(p)
  PROVE  Exclusive' /\ NoLostUpdate'
<1> USE FlacTaggerAssumption DEF ExclusiveInv, TagInv, MoveEnds, Moves, Reports, WriteStep,
        lockVars, argumentVars, historyVars, Overtake
<1>0. \A q \in Writers \ {p} : tagAt'[q] = tagAt[q]
  BY DEF TaggerTypeOK
<1>1. Exclusive'
  BY <1>0 DEF Exclusive, Inside, TaggerTypeOK, Lockers, Writers, Roles
<1>2. NoLostUpdate'
  BY <1>0 DEF NoLostUpdate, Deciding, Exclusive, Inside, TaggerTypeOK, Lockers, Writers, Roles
<1> QED
  BY <1>1, <1>2

LEMMA ExclAttemptFails ==
  ASSUME ~Posix, ExclusiveInv, NEW p \in Writers, AttemptFails(p)
  PROVE  Exclusive' /\ NoLostUpdate'
<1> USE FlacTaggerAssumption DEF ExclusiveInv, TagInv, AttemptFails, Moves, Reports, WriteStep,
        lockVars, argumentVars, historyVars, TagFault
<1>0. \A q \in Writers \ {p} : tagAt'[q] = tagAt[q]
  BY DEF TaggerTypeOK
<1>1. Exclusive'
  BY <1>0 DEF Exclusive, Inside, TaggerTypeOK, Lockers, Writers, Roles
<1>2. NoLostUpdate'
  BY <1>0 DEF NoLostUpdate, Deciding, Exclusive, Inside, TaggerTypeOK, Lockers, Writers, Roles
<1> QED
  BY <1>1, <1>2

LEMMA ExclHnrRead ==
  ASSUME ~Posix, ExclusiveInv, NEW p \in Writers, HnrRead(p)
  PROVE  Exclusive' /\ NoLostUpdate'
<1> USE FlacTaggerAssumption DEF ExclusiveInv, TagInv, HnrRead, Moves, Reports, HnrStep,
        lockVars, argumentVars
<1>0. \A q \in Writers \ {p} : tagAt'[q] = tagAt[q]
  BY DEF TaggerTypeOK
<1>1. Exclusive'
  BY <1>0 DEF Exclusive, Inside, TaggerTypeOK, Lockers, Writers, Roles
<1>2. NoLostUpdate'
  BY <1>0 DEF NoLostUpdate, Deciding, Exclusive, Inside, TaggerTypeOK, Lockers, Writers, Roles
<1> QED
  BY <1>1, <1>2

LEMMA ExclHnrSaveBegins ==
  ASSUME ~Posix, ExclusiveInv, NEW p \in Writers, HnrSaveBegins(p)
  PROVE  Exclusive' /\ NoLostUpdate'
<1> USE FlacTaggerAssumption DEF ExclusiveInv, TagInv, HnrSaveBegins, Moves, Reports, HnrStep,
        lockVars, argumentVars
<1>0. \A q \in Writers \ {p} : tagAt'[q] = tagAt[q]
  BY DEF TaggerTypeOK
<1>1. Exclusive'
  BY <1>0 DEF Exclusive, Inside, TaggerTypeOK, Lockers, Writers, Roles
<1>2. NoLostUpdate'
  BY <1>0 DEF NoLostUpdate, Deciding, Exclusive, Inside, TaggerTypeOK, Lockers, Writers, Roles
<1> QED
  BY <1>1, <1>2

LEMMA ExclHnrSaveEnds ==
  ASSUME ~Posix, ExclusiveInv, NEW p \in Writers, HnrSaveEnds(p)
  PROVE  Exclusive' /\ NoLostUpdate'
<1> USE FlacTaggerAssumption DEF ExclusiveInv, TagInv, HnrSaveEnds, Moves, Reports, HnrStep,
        lockVars, argumentVars, Overtake
<1>0. \A q \in Writers \ {p} : tagAt'[q] = tagAt[q]
  BY DEF TaggerTypeOK
<1>1. Exclusive'
  BY <1>0 DEF Exclusive, Inside, TaggerTypeOK, Lockers, Writers, Roles
<1>2. NoLostUpdate'
  BY <1>0 DEF NoLostUpdate, Deciding, Exclusive, Inside, TaggerTypeOK, Lockers, Writers, Roles
<1> QED
  BY <1>1, <1>2

LEMMA ExclDie ==
  ASSUME ~Posix, ExclusiveInv, NEW p \in Writers, Die(p)
  PROVE  Exclusive' /\ NoLostUpdate'
<1> USE FlacTaggerAssumption DEF ExclusiveInv, TagInv, Die, Moves, Reports, TagFault, InPlace
<1>0. \A q \in Writers \ {p} : tagAt'[q] = tagAt[q]
  BY DEF TaggerTypeOK
<1>1. Exclusive'
  BY <1>0 DEF Exclusive, Inside, TaggerTypeOK, Lockers, Writers, Roles
<1>2. NoLostUpdate'
  BY <1>0 DEF NoLostUpdate, Deciding, Exclusive, Inside, TaggerTypeOK, Lockers, Writers, Roles
<1> QED
  BY <1>1, <1>2

LEMMA NextExclusive == ~Posix /\ ExclusiveInv /\ [TaggerNext]_taggerVars => ExclusiveInv'
<1> SUFFICES ASSUME ~Posix, ExclusiveInv, [TaggerNext]_taggerVars PROVE ExclusiveInv'
  OBVIOUS
<1>0. TagInv'
  BY NextTagInv DEF ExclusiveInv
<1>1. ASSUME UNCHANGED taggerVars PROVE Exclusive' /\ NoLostUpdate'
  BY <1>1 DEF ExclusiveInv, Exclusive, NoLostUpdate, taggerVars, lockVars, argumentVars, historyVars
<1>2. ASSUME NEW p \in Writers, Tag(p) PROVE Exclusive' /\ NoLostUpdate'
  BY <1>2, ExclTag
<1>3. ASSUME NEW p \in Writers, Repair(p) PROVE Exclusive' /\ NoLostUpdate'
  BY <1>3, ExclRepair
<1>4. ASSUME NEW p \in Writers, Check(p) PROVE Exclusive' /\ NoLostUpdate'
  BY <1>4, ExclCheck
<1>5. ASSUME NEW p \in Writers, OpenLock(p) PROVE Exclusive' /\ NoLostUpdate'
  BY <1>5, ExclOpenLock
<1>6. ASSUME NEW p \in Writers, Lock(p) PROVE Exclusive' /\ NoLostUpdate'
  BY <1>6, ExclLock
<1>7. ASSUME NEW p \in Writers, LockHeld(p) PROVE Exclusive' /\ NoLostUpdate'
  BY <1>7, ExclLockHeld
<1>8. ASSUME NEW p \in Writers, Unlock(p) PROVE Exclusive' /\ NoLostUpdate'
  BY <1>8, ExclUnlock
<1>9. ASSUME NEW p \in Writers, RemoveLock(p) PROVE Exclusive' /\ NoLostUpdate'
  BY <1>9, ExclRemoveLock
<1>10. ASSUME NEW p \in Writers, Decide(p) PROVE Exclusive' /\ NoLostUpdate'
  BY <1>10, ExclDecide
<1>11. ASSUME NEW p \in Writers, DiskFull(p) PROVE Exclusive' /\ NoLostUpdate'
  BY <1>11, ExclDiskFull
<1>12. ASSUME NEW p \in Writers, CopyToTemp(p) PROVE Exclusive' /\ NoLostUpdate'
  BY <1>12, ExclCopyToTemp
<1>13. ASSUME NEW p \in Writers, SaveTemp(p) PROVE Exclusive' /\ NoLostUpdate'
  BY <1>13, ExclSaveTemp
<1>14. ASSUME NEW p \in Writers, Replace(p) PROVE Exclusive' /\ NoLostUpdate'
  BY <1>14, ExclReplace
<1>15. ASSUME NEW p \in Writers, MoveBegins(p) PROVE Exclusive' /\ NoLostUpdate'
  BY <1>15, ExclMoveBegins
<1>16. ASSUME NEW p \in Writers, MoveEnds(p) PROVE Exclusive' /\ NoLostUpdate'
  BY <1>16, ExclMoveEnds
<1>17. ASSUME NEW p \in Writers, AttemptFails(p) PROVE Exclusive' /\ NoLostUpdate'
  BY <1>17, ExclAttemptFails
<1>18. ASSUME NEW p \in Writers, HnrRead(p) PROVE Exclusive' /\ NoLostUpdate'
  BY <1>18, ExclHnrRead
<1>19. ASSUME NEW p \in Writers, HnrSaveBegins(p) PROVE Exclusive' /\ NoLostUpdate'
  BY <1>19, ExclHnrSaveBegins
<1>20. ASSUME NEW p \in Writers, HnrSaveEnds(p) PROVE Exclusive' /\ NoLostUpdate'
  BY <1>20, ExclHnrSaveEnds
<1>21. ASSUME NEW p \in Writers, Die(p) PROVE Exclusive' /\ NoLostUpdate'
  BY <1>21, ExclDie
<1> QED
  BY <1>0, <1>1, <1>2, <1>3, <1>4, <1>5, <1>6, <1>7, <1>8, <1>9, <1>10, <1>11, <1>12, <1>13,
     <1>14, <1>15, <1>16, <1>17, <1>18, <1>19, <1>20, <1>21 DEF TaggerNext, ExclusiveInv

LEMMA WindowsInvariance ==
  ASSUME ~Posix
  PROVE  TaggerSpec => []ExclusiveInv
BY InitExclusive, NextExclusive, PTL DEF TaggerSpec

\* On Windows no update of a process that takes the lock is lost to another that does, for
\* any number of processes (flac_tagger.py:335-395).
THEOREM NothingIsLost ==
  ASSUME ~Posix
  PROVE  TaggerSpec => []NoLostUpdate
<1>1. ExclusiveInv => NoLostUpdate
  BY DEF ExclusiveInv
<1> QED
  BY <1>1, WindowsInvariance, PTL

(***************************************************************************)
(* Success.  What was reported written stays written, also in the copy of  *)
(* whoever writes next, and in what an undisturbed migration has read.     *)
(***************************************************************************)
Reported(tags) ==
    \A q \in Lockers : result[q] = "ok" => KeysOf(wants[q]) \subseteq KeysOf(tags)
TagsKept ==
    /\ Reported(flac.tags)
    /\ \A p \in Lockers :
          /\ tagAt[p] \in {"saving", "replacing", "moving"} => Reported(temp[p].tags)
          /\ tagAt[p] \in Deciding =>
                KeysOf(wants[p]) \subseteq KeysOf(writes[p]) \cup KeysOf(flac.tags)
          /\ tagAt[p] = "saving" =>
                KeysOf(wants[p]) \subseteq KeysOf(writes[p]) \cup KeysOf(temp[p].tags)
          /\ tagAt[p] \in {"replacing", "moving"} =>
                KeysOf(wants[p]) \subseteq KeysOf(temp[p].tags)
    /\ \A p \in Migrators :
          tagAt[p] \in {"migrating", "rewriting"} /\ overtaken[p] = {} =>
              KeysOf(flac.tags) \subseteq KeysOf(temp[p].tags)
KeptUnlessBroken == ~clobbered /\ ~mishap => TagsKept

LEMMA Keys ==
  ASSUME TaggerTypeOK
  PROVE  /\ KeysOf(NoTags) = {}
         /\ \A t \in Tags : KeysOf(t) \subseteq KeysOf(Missing(t)) \cup KeysOf(flac.tags)
         /\ \A t, a \in Tags : KeysOf(Overlaid(t, a)) = KeysOf(t) \cup KeysOf(a)
BY FlacTaggerAssumption DEF KeysOf, NoTags, Missing, Overlaid, Tags, TaggerTypeOK, Contents

\* The tag of the migration is added to those that it has read.
LEMMA HnrKeys ==
  ASSUME TaggerTypeOK, NEW p \in Writers
  PROVE  KeysOf(flac.tags) \subseteq KeysOf([flac EXCEPT !.tags[HnrKey] = p].tags)
BY FlacTaggerAssumption DEF KeysOf, Tags, TaggerTypeOK, Contents

LEMMA InitKept == TaggerInit => KeptUnlessBroken
BY DEF TaggerInit, KeptUnlessBroken, TagsKept, Reported, Deciding, Lockers, Writers

\* A step that writes nothing and begins no write.
LEMMA KeptQuietly ==
  ASSUME TagsKept, UNCHANGED <<flac, temp, writes>>,
         \A q \in Writers : result'[q] = "ok" => result[q] = "ok" /\ wants'[q] = wants[q],
         \A q \in Writers :
             tagAt'[q] \in Deciding \cup {"migrating", "rewriting"} =>
                 tagAt'[q] = tagAt[q] /\ wants'[q] = wants[q] /\ overtaken'[q] = overtaken[q]
  PROVE  TagsKept'
<1>1. ASSUME NEW tags, Reported(tags), NEW q \in Lockers, result'[q] = "ok"
      PROVE  KeysOf(wants'[q]) \subseteq KeysOf(tags)
  BY <1>1 DEF Reported, Lockers, Writers
<1>2. Reported(flac.tags)'
  BY <1>1 DEF TagsKept, Reported
<1>3. ASSUME NEW q \in Lockers, tagAt'[q] \in {"saving", "replacing", "moving"}
      PROVE  Reported(temp[q].tags)'
  BY <1>1, <1>3 DEF TagsKept, Reported, Deciding, Lockers, Writers
<1>4. ASSUME NEW q \in Lockers
      PROVE  /\ tagAt'[q] \in Deciding =>
                   KeysOf(wants'[q]) \subseteq KeysOf(writes'[q]) \cup KeysOf(flac'.tags)
             /\ tagAt'[q] = "saving" =>
                   KeysOf(wants'[q]) \subseteq KeysOf(writes'[q]) \cup KeysOf(temp'[q].tags)
             /\ tagAt'[q] \in {"replacing", "moving"} =>
                   KeysOf(wants'[q]) \subseteq KeysOf(temp'[q].tags)
  BY DEF TagsKept, Deciding, Lockers, Writers
<1>5. ASSUME NEW q \in Migrators, tagAt'[q] \in {"migrating", "rewriting"}, overtaken'[q] = {}
      PROVE  KeysOf(flac'.tags) \subseteq KeysOf(temp'[q].tags)
  BY <1>5 DEF TagsKept, Writers
<1> QED
  BY <1>2, <1>3, <1>4, <1>5 DEF TagsKept, KeysOf

LEMMA KeepsTag ==
  ASSUME ~Posix, ExclusiveInv, KeptUnlessBroken, NEW p \in Writers, Tag(p)
  PROVE  KeptUnlessBroken'
<1> USE DEF ExclusiveInv, TagInv, Tag, Moves, Called, lockVars, historyVars
<1>1. SUFFICES ASSUME ~clobbered', ~mishap' PROVE TagsKept'
  BY DEF KeptUnlessBroken
<1>2. TagsKept
  BY <1>1 DEF KeptUnlessBroken
<1>3. \A q \in Writers \ {p} : tagAt'[q] = tagAt[q] /\ wants'[q] = wants[q]
  BY DEF TaggerTypeOK
<1>4. tagAt'[p] = "opening" /\ result[p] # "ok" /\ UNCHANGED <<result, overtaken>>
  BY DEF TaggerTypeOK, Roles
<1>5. UNCHANGED <<flac, temp, writes>>
  OBVIOUS
<1> QED
  BY <1>2, <1>3, <1>4, <1>5, KeptQuietly DEF Deciding

LEMMA KeepsRepair ==
  ASSUME ~Posix, ExclusiveInv, KeptUnlessBroken, NEW p \in Writers, Repair(p)
  PROVE  KeptUnlessBroken'
<1> USE FlacTaggerAssumption DEF ExclusiveInv, TagInv, Repair, Moves, Reports, Called, lockVars,
        historyVars
<1>1. SUFFICES ASSUME ~clobbered', ~mishap' PROVE TagsKept'
  BY DEF KeptUnlessBroken
<1>2. TagsKept
  BY <1>1 DEF KeptUnlessBroken, TaggerTypeOK
<1>3. \A q \in Writers \ {p} : tagAt'[q] = tagAt[q]
  BY DEF TaggerTypeOK
<1>4. \A q \in Lockers \ {p} : tagAt[p] \in Inside => tagAt[q] \notin Deciding
  BY DEF Exclusive, Inside, Deciding, Lockers, Writers
<1>a. /\ UNCHANGED <<flac, temp, writes>>
      /\ \A q \in Writers : tagAt'[q] \in Deciding => q # p /\ tagAt'[q] = tagAt[q]
      /\ \A q \in Writers \ {p} : wants'[q] = wants[q] /\ result'[q] = result[q]
  BY <1>3 DEF TaggerTypeOK, Deciding
<1>b. result'[p] = "ok" => KeysOf(wants'[p]) = {}
  <2>1. result[p] = "unknown"
    BY DEF Roles
  <2>2. PICK found : Called(p, found, FALSE) /\ (UNCHANGED result \/ KeysOf(found) = {})
    BY DEF Repair
  <2>3. wants'[p] = found
    BY <2>2 DEF Called, TaggerTypeOK
  <2> QED
    BY <2>1, <2>2, <2>3
<1>5. Reported(flac.tags)'
  BY <1>2, <1>a, <1>b DEF TagsKept, Reported, Lockers, Writers
<1>6. \A q \in Lockers : tagAt'[q] \in {"saving", "replacing", "moving"} => Reported(temp[q].tags)'
  <2> SUFFICES ASSUME NEW q \in Lockers, tagAt'[q] \in {"saving", "replacing", "moving"},
                      NEW r \in Lockers, result'[r] = "ok"
               PROVE  KeysOf(wants'[r]) \subseteq KeysOf(temp'[q].tags)
    BY DEF Reported
  <2>1. tagAt[q] = tagAt'[q]
    BY <1>a DEF Deciding, Lockers, Writers
  <2>2. Reported(temp[q].tags)
    BY <1>2, <2>1 DEF TagsKept
  <2> QED
    BY <1>a, <1>b, <2>2 DEF Reported, Lockers, Writers
<1>7. \A q \in Lockers :
         tagAt'[q] \in Deciding =>
             KeysOf(wants'[q]) \subseteq KeysOf(writes'[q]) \cup KeysOf(flac'.tags)
  BY <1>1, <1>2, <1>3, <1>4, Keys DEF TagsKept, Reported, Deciding, Inside, TaggerTypeOK,
     Lockers, Writers, Roles, Contents
<1>8. \A q \in Lockers :
         tagAt'[q] = "saving" =>
             KeysOf(wants'[q]) \subseteq KeysOf(writes'[q]) \cup KeysOf(temp'[q].tags)
  BY <1>2, <1>a DEF TagsKept, Deciding, Lockers, Writers
<1>9. \A q \in Lockers :
         tagAt'[q] \in {"replacing", "moving"} => KeysOf(wants'[q]) \subseteq KeysOf(temp'[q].tags)
  BY <1>2, <1>a DEF TagsKept, Deciding, Lockers, Writers
<1>10. \A q \in Migrators :
          tagAt'[q] \in {"migrating", "rewriting"} /\ overtaken'[q] = {} =>
              KeysOf(flac'.tags) \subseteq KeysOf(temp'[q].tags)
  BY <1>1, <1>2, <1>3, <1>4, Keys DEF TagsKept, Reported, Deciding, Inside, TaggerTypeOK,
     Lockers, Writers, Roles, Contents
<1> QED
  BY <1>5, <1>6, <1>7, <1>8, <1>9, <1>10 DEF TagsKept, KeysOf

LEMMA KeepsCheck ==
  ASSUME ~Posix, ExclusiveInv, KeptUnlessBroken, NEW p \in Writers, Check(p)
  PROVE  KeptUnlessBroken'
<1> USE FlacTaggerAssumption DEF ExclusiveInv, TagInv, Check, Moves, Reports, Called, lockVars,
        historyVars
<1>1. SUFFICES ASSUME ~clobbered', ~mishap' PROVE TagsKept'
  BY DEF KeptUnlessBroken
<1>2. TagsKept
  BY <1>1 DEF KeptUnlessBroken, TaggerTypeOK
<1>3. \A q \in Writers \ {p} : tagAt'[q] = tagAt[q]
  BY DEF TaggerTypeOK
<1>4. \A q \in Lockers \ {p} : tagAt[p] \in Inside => tagAt[q] \notin Deciding
  BY DEF Exclusive, Inside, Deciding, Lockers, Writers
<1> QED
  BY <1>1, <1>2, <1>3, <1>4, Keys DEF TagsKept, Reported, Deciding, Inside, TaggerTypeOK,
     Lockers, Writers, Roles, Contents

LEMMA KeepsOpenLock ==
  ASSUME ~Posix, ExclusiveInv, KeptUnlessBroken, NEW p \in Writers, OpenLock(p)
  PROVE  KeptUnlessBroken'
<1> USE FlacTaggerAssumption DEF ExclusiveInv, TagInv, OpenLock, Moves, Reports, LockStep,
        argumentVars, historyVars
<1>1. SUFFICES ASSUME ~clobbered', ~mishap' PROVE TagsKept'
  BY DEF KeptUnlessBroken
<1>2. TagsKept
  BY <1>1 DEF KeptUnlessBroken, TaggerTypeOK
<1>3. \A q \in Writers \ {p} : tagAt'[q] = tagAt[q]
  BY DEF TaggerTypeOK
<1>4. \A q \in Lockers \ {p} : tagAt[p] \in Inside => tagAt[q] \notin Deciding
  BY DEF Exclusive, Inside, Deciding, Lockers, Writers
<1> QED
  BY <1>1, <1>2, <1>3, <1>4, Keys DEF TagsKept, Reported, Deciding, Inside, TaggerTypeOK,
     Lockers, Writers, Roles, Contents

LEMMA KeepsLock ==
  ASSUME ~Posix, ExclusiveInv, KeptUnlessBroken, NEW p \in Writers, Lock(p)
  PROVE  KeptUnlessBroken'
<1> USE FlacTaggerAssumption DEF ExclusiveInv, TagInv, Lock, Moves, Reports, LockStep,
        argumentVars, historyVars, Grantable
<1>1. SUFFICES ASSUME ~clobbered', ~mishap' PROVE TagsKept'
  BY DEF KeptUnlessBroken
<1>2. TagsKept
  BY <1>1 DEF KeptUnlessBroken, TaggerTypeOK
<1>3. \A q \in Writers \ {p} : tagAt'[q] = tagAt[q]
  BY DEF TaggerTypeOK
<1>4. \A q \in Lockers \ {p} : tagAt[p] \in Inside => tagAt[q] \notin Deciding
  BY DEF Exclusive, Inside, Deciding, Lockers, Writers
<1> QED
  BY <1>1, <1>2, <1>3, <1>4, Keys DEF TagsKept, Reported, Deciding, Inside, TaggerTypeOK,
     Lockers, Writers, Roles, Contents

LEMMA KeepsLockHeld ==
  ASSUME ~Posix, ExclusiveInv, KeptUnlessBroken, NEW p \in Writers, LockHeld(p)
  PROVE  KeptUnlessBroken'
<1> USE DEF ExclusiveInv, TagInv, LockHeld, Moves, Reports, LockStep, argumentVars, historyVars
<1>1. SUFFICES ASSUME ~clobbered', ~mishap' PROVE TagsKept'
  BY DEF KeptUnlessBroken
<1>2. TagsKept
  BY <1>1 DEF KeptUnlessBroken
<1>3. /\ \A q \in Writers \ {p} : tagAt'[q] = tagAt[q] /\ result'[q] = result[q]
      /\ tagAt'[p] \in {"opening", "done"} /\ (result'[p] = "ok" => result[p] = "ok")
  BY DEF TaggerTypeOK
<1>4. UNCHANGED <<flac, temp, writes, wants, overtaken>>
  OBVIOUS
<1> QED
  BY <1>2, <1>3, <1>4, KeptQuietly DEF Deciding

LEMMA KeepsUnlock ==
  ASSUME ~Posix, ExclusiveInv, KeptUnlessBroken, NEW p \in Writers, Unlock(p)
  PROVE  KeptUnlessBroken'
<1> USE FlacTaggerAssumption DEF ExclusiveInv, TagInv, Unlock, Moves, Reports, historyVars
<1>1. SUFFICES ASSUME ~clobbered', ~mishap' PROVE TagsKept'
  BY DEF KeptUnlessBroken
<1>2. TagsKept
  BY <1>1 DEF KeptUnlessBroken, TaggerTypeOK
<1>3. \A q \in Writers \ {p} : tagAt'[q] = tagAt[q]
  BY DEF TaggerTypeOK
<1>4. \A q \in Lockers \ {p} : tagAt[p] \in Inside => tagAt[q] \notin Deciding
  BY DEF Exclusive, Inside, Deciding, Lockers, Writers
<1> QED
  BY <1>1, <1>2, <1>3, <1>4, Keys DEF TagsKept, Reported, Deciding, Inside, TaggerTypeOK,
     Lockers, Writers, Roles, Contents

LEMMA KeepsRemoveLock ==
  ASSUME ~Posix, ExclusiveInv, KeptUnlessBroken, NEW p \in Writers, RemoveLock(p)
  PROVE  KeptUnlessBroken'
<1> USE FlacTaggerAssumption DEF ExclusiveInv, TagInv, RemoveLock, Moves, Reports, LockStep,
        argumentVars, historyVars
<1>1. SUFFICES ASSUME ~clobbered', ~mishap' PROVE TagsKept'
  BY DEF KeptUnlessBroken
<1>2. TagsKept
  BY <1>1 DEF KeptUnlessBroken, TaggerTypeOK
<1>3. \A q \in Writers \ {p} : tagAt'[q] = tagAt[q]
  BY DEF TaggerTypeOK
<1>4. \A q \in Lockers \ {p} : tagAt[p] \in Inside => tagAt[q] \notin Deciding
  BY DEF Exclusive, Inside, Deciding, Lockers, Writers
<1> QED
  BY <1>1, <1>2, <1>3, <1>4, Keys DEF TagsKept, Reported, Deciding, Inside, TaggerTypeOK,
     Lockers, Writers, Roles, Contents

LEMMA KeepsDecide ==
  ASSUME ~Posix, ExclusiveInv, KeptUnlessBroken, NEW p \in Writers, Decide(p)
  PROVE  KeptUnlessBroken'
<1> USE FlacTaggerAssumption DEF ExclusiveInv, TagInv, Decide, Moves, Reports, WriteStep,
        lockVars, argumentVars, historyVars
<1>1. SUFFICES ASSUME ~clobbered', ~mishap' PROVE TagsKept'
  BY DEF KeptUnlessBroken
<1>2. TagsKept
  BY <1>1 DEF KeptUnlessBroken, TaggerTypeOK
<1>3. \A q \in Writers \ {p} : tagAt'[q] = tagAt[q]
  BY DEF TaggerTypeOK
<1>4. \A q \in Lockers \ {p} : tagAt[p] \in Inside => tagAt[q] \notin Deciding
  BY DEF Exclusive, Inside, Deciding, Lockers, Writers
<1>5. Reported(flac.tags)'
  BY <1>1, <1>2, <1>3, <1>4, Keys DEF TagsKept, Reported, Deciding, Inside, TaggerTypeOK,
     Lockers, Writers, Roles, Contents
<1>6. \A q \in Lockers : tagAt'[q] \in {"saving", "replacing", "moving"} => Reported(temp[q].tags)'
  BY <1>1, <1>2, <1>3, <1>4, Keys DEF TagsKept, Reported, Deciding, Inside, TaggerTypeOK,
     Lockers, Writers, Roles, Contents
<1>7. \A q \in Lockers :
         tagAt'[q] \in Deciding =>
             KeysOf(wants'[q]) \subseteq KeysOf(writes'[q]) \cup KeysOf(flac'.tags)
  BY <1>1, <1>2, <1>3, <1>4, Keys DEF TagsKept, Reported, Deciding, Inside, TaggerTypeOK,
     Lockers, Writers, Roles, Contents
<1>8. \A q \in Lockers :
         tagAt'[q] = "saving" =>
             KeysOf(wants'[q]) \subseteq KeysOf(writes'[q]) \cup KeysOf(temp'[q].tags)
  BY <1>1, <1>2, <1>3, <1>4, Keys DEF TagsKept, Reported, Deciding, Inside, TaggerTypeOK,
     Lockers, Writers, Roles, Contents
<1>9. \A q \in Lockers :
         tagAt'[q] \in {"replacing", "moving"} => KeysOf(wants'[q]) \subseteq KeysOf(temp'[q].tags)
  BY <1>1, <1>2, <1>3, <1>4, Keys DEF TagsKept, Reported, Deciding, Inside, TaggerTypeOK,
     Lockers, Writers, Roles, Contents
<1>10. \A q \in Migrators :
          tagAt'[q] \in {"migrating", "rewriting"} /\ overtaken'[q] = {} =>
              KeysOf(flac'.tags) \subseteq KeysOf(temp'[q].tags)
  BY <1>1, <1>2, <1>3, <1>4, Keys DEF TagsKept, Reported, Deciding, Inside, TaggerTypeOK,
     Lockers, Writers, Roles, Contents
<1> QED
  BY <1>5, <1>6, <1>7, <1>8, <1>9, <1>10 DEF TagsKept, KeysOf

LEMMA KeepsDiskFull ==
  ASSUME ~Posix, ExclusiveInv, KeptUnlessBroken, NEW p \in Writers, DiskFull(p)
  PROVE  KeptUnlessBroken'
<1> USE FlacTaggerAssumption DEF ExclusiveInv, TagInv, DiskFull, Moves, Reports, WriteStep,
        lockVars, argumentVars, historyVars, TagFault
<1>1. SUFFICES ASSUME ~clobbered', ~mishap' PROVE TagsKept'
  BY DEF KeptUnlessBroken
<1>2. TagsKept
  BY <1>1 DEF KeptUnlessBroken, TaggerTypeOK
<1>3. \A q \in Writers \ {p} : tagAt'[q] = tagAt[q]
  BY DEF TaggerTypeOK
<1>4. \A q \in Lockers \ {p} : tagAt[p] \in Inside => tagAt[q] \notin Deciding
  BY DEF Exclusive, Inside, Deciding, Lockers, Writers
<1> QED
  BY <1>1, <1>2, <1>3, <1>4, Keys DEF TagsKept, Reported, Deciding, Inside, TaggerTypeOK,
     Lockers, Writers, Roles, Contents

LEMMA KeepsCopyToTemp ==
  ASSUME ~Posix, ExclusiveInv, KeptUnlessBroken, NEW p \in Writers, CopyToTemp(p)
  PROVE  KeptUnlessBroken'
<1> USE FlacTaggerAssumption DEF ExclusiveInv, TagInv, CopyToTemp, Moves, Reports, WriteStep,
        lockVars, argumentVars, historyVars
<1>1. SUFFICES ASSUME ~clobbered', ~mishap' PROVE TagsKept'
  BY DEF KeptUnlessBroken
<1>2. TagsKept
  BY <1>1 DEF KeptUnlessBroken, TaggerTypeOK
<1>3. \A q \in Writers \ {p} : tagAt'[q] = tagAt[q]
  BY DEF TaggerTypeOK
<1>4. \A q \in Lockers \ {p} : tagAt[p] \in Inside => tagAt[q] \notin Deciding
  BY DEF Exclusive, Inside, Deciding, Lockers, Writers
<1> QED
  BY <1>1, <1>2, <1>3, <1>4, Keys DEF TagsKept, Reported, Deciding, Inside, TaggerTypeOK,
     Lockers, Writers, Roles, Contents

LEMMA KeepsSaveTemp ==
  ASSUME ~Posix, ExclusiveInv, KeptUnlessBroken, NEW p \in Writers, SaveTemp(p)
  PROVE  KeptUnlessBroken'
<1> USE FlacTaggerAssumption DEF ExclusiveInv, TagInv, SaveTemp, Moves, Reports, WriteStep,
        lockVars, argumentVars, historyVars
<1>1. SUFFICES ASSUME ~clobbered', ~mishap' PROVE TagsKept'
  BY DEF KeptUnlessBroken
<1>2. TagsKept
  BY <1>1 DEF KeptUnlessBroken, TaggerTypeOK
<1>3. \A q \in Writers \ {p} : tagAt'[q] = tagAt[q]
  BY DEF TaggerTypeOK
<1>4. \A q \in Lockers \ {p} : tagAt[p] \in Inside => tagAt[q] \notin Deciding
  BY DEF Exclusive, Inside, Deciding, Lockers, Writers
<1>a. UNCHANGED <<flac, wants, writes, result>>
  OBVIOUS
<1>b. /\ temp'[p].tags = Overlaid(temp[p].tags, writes[p])
      /\ temp[p].tags \in Tags /\ writes[p] \in Tags
      /\ \A q \in Writers \ {p} : temp'[q] = temp[q]
  BY DEF TaggerTypeOK, Contents
<1>c. KeysOf(temp'[p].tags) = KeysOf(temp[p].tags) \cup KeysOf(writes[p])
  BY <1>b, Keys
<1>5. Reported(flac.tags)'
  BY <1>2, <1>a DEF TagsKept, Reported
<1>6. \A q \in Lockers : tagAt'[q] \in {"saving", "replacing", "moving"} => Reported(temp[q].tags)'
  <2> SUFFICES ASSUME NEW q \in Lockers, tagAt'[q] \in {"saving", "replacing", "moving"},
                      NEW r \in Lockers, result'[r] = "ok"
               PROVE  KeysOf(wants'[r]) \subseteq KeysOf(temp'[q].tags)
    BY DEF Reported
  <2>1. tagAt[q] \in {"saving", "replacing", "moving"}
    BY <1>3 DEF Lockers, Writers
  <2>2. Reported(temp[q].tags)
    BY <1>2, <2>1 DEF TagsKept
  <2>3. KeysOf(temp[q].tags) \subseteq KeysOf(temp'[q].tags)
    BY <1>b, <1>c DEF Lockers, Writers
  <2> QED
    BY <1>a, <2>2, <2>3 DEF Reported
<1>7. \A q \in Lockers :
         tagAt'[q] \in Deciding =>
             KeysOf(wants'[q]) \subseteq KeysOf(writes'[q]) \cup KeysOf(flac'.tags)
  BY <1>1, <1>2, <1>3, <1>4, Keys DEF TagsKept, Reported, Deciding, Inside, TaggerTypeOK,
     Lockers, Writers, Roles, Contents
<1>8. \A q \in Lockers :
         tagAt'[q] = "saving" =>
             KeysOf(wants'[q]) \subseteq KeysOf(writes'[q]) \cup KeysOf(temp'[q].tags)
  BY <1>1, <1>2, <1>3, <1>4, Keys DEF TagsKept, Reported, Deciding, Inside, TaggerTypeOK,
     Lockers, Writers, Roles, Contents
<1>9. \A q \in Lockers :
         tagAt'[q] \in {"replacing", "moving"} => KeysOf(wants'[q]) \subseteq KeysOf(temp'[q].tags)
  <2>1. p \in Lockers => KeysOf(wants[p]) \subseteq KeysOf(writes[p]) \cup KeysOf(temp[p].tags)
    BY <1>2 DEF TagsKept
  <2> QED
    BY <1>2, <1>3, <1>a, <1>b, <1>c, <2>1 DEF TagsKept, Lockers, Writers
<1>10. \A q \in Migrators :
          tagAt'[q] \in {"migrating", "rewriting"} /\ overtaken'[q] = {} =>
              KeysOf(flac'.tags) \subseteq KeysOf(temp'[q].tags)
  BY <1>1, <1>2, <1>3, <1>4, Keys DEF TagsKept, Reported, Deciding, Inside, TaggerTypeOK,
     Lockers, Writers, Roles, Contents
<1> QED
  BY <1>5, <1>6, <1>7, <1>8, <1>9, <1>10 DEF TagsKept, KeysOf

LEMMA KeepsReplace ==
  ASSUME ~Posix, ExclusiveInv, KeptUnlessBroken, NEW p \in Writers, Replace(p)
  PROVE  KeptUnlessBroken'
<1> USE FlacTaggerAssumption DEF ExclusiveInv, TagInv, Replace, Moves, Reports, WriteStep,
        lockVars, argumentVars, historyVars, Overtake
<1>1. SUFFICES ASSUME ~clobbered', ~mishap' PROVE TagsKept'
  BY DEF KeptUnlessBroken
<1>2. TagsKept
  BY <1>1 DEF KeptUnlessBroken, TaggerTypeOK
<1>3. \A q \in Writers \ {p} : tagAt'[q] = tagAt[q]
  BY DEF TaggerTypeOK
<1>4. \A q \in Lockers \ {p} : tagAt[p] \in Inside => tagAt[q] \notin Deciding
  BY DEF Exclusive, Inside, Deciding, Lockers, Writers
<1> QED
  BY <1>1, <1>2, <1>3, <1>4, Keys DEF TagsKept, Reported, Deciding, Inside, TaggerTypeOK,
     Lockers, Writers, Roles, Contents

LEMMA KeepsMoveBegins ==
  ASSUME ~Posix, ExclusiveInv, KeptUnlessBroken, NEW p \in Writers, MoveBegins(p)
  PROVE  KeptUnlessBroken'
<1> USE FlacTaggerAssumption DEF ExclusiveInv, TagInv, MoveBegins, Moves, Reports, WriteStep,
        lockVars, argumentVars, historyVars, TagFault
<1>1. SUFFICES ASSUME ~clobbered', ~mishap' PROVE TagsKept'
  BY DEF KeptUnlessBroken
<1>2. TagsKept
  BY <1>1 DEF KeptUnlessBroken, TaggerTypeOK
<1>3. \A q \in Writers \ {p} : tagAt'[q] = tagAt[q]
  BY DEF TaggerTypeOK
<1>4. \A q \in Lockers \ {p} : tagAt[p] \in Inside => tagAt[q] \notin Deciding
  BY DEF Exclusive, Inside, Deciding, Lockers, Writers
<1> QED
  BY <1>1, <1>2, <1>3, <1>4, Keys DEF TagsKept, Reported, Deciding, Inside, TaggerTypeOK,
     Lockers, Writers, Roles, Contents

LEMMA KeepsMoveEnds ==
  ASSUME ~Posix, ExclusiveInv, KeptUnlessBroken, NEW p \in Writers, MoveEnds(p)
  PROVE  KeptUnlessBroken'
<1> USE FlacTaggerAssumption DEF ExclusiveInv, TagInv, MoveEnds, Moves, Reports, WriteStep,
        lockVars, argumentVars, historyVars, Overtake
<1>1. SUFFICES ASSUME ~clobbered', ~mishap' PROVE TagsKept'
  BY DEF KeptUnlessBroken
<1>2. TagsKept
  BY <1>1 DEF KeptUnlessBroken, TaggerTypeOK
<1>3. \A q \in Writers \ {p} : tagAt'[q] = tagAt[q]
  BY DEF TaggerTypeOK
<1>4. \A q \in Lockers \ {p} : tagAt[p] \in Inside => tagAt[q] \notin Deciding
  BY DEF Exclusive, Inside, Deciding, Lockers, Writers
<1> QED
  BY <1>1, <1>2, <1>3, <1>4, Keys DEF TagsKept, Reported, Deciding, Inside, TaggerTypeOK,
     Lockers, Writers, Roles, Contents

LEMMA KeepsAttemptFails ==
  ASSUME ~Posix, ExclusiveInv, KeptUnlessBroken, NEW p \in Writers, AttemptFails(p)
  PROVE  KeptUnlessBroken'
<1> USE FlacTaggerAssumption DEF ExclusiveInv, TagInv, AttemptFails, Moves, Reports, WriteStep,
        lockVars, argumentVars, historyVars, TagFault
<1>1. SUFFICES ASSUME ~clobbered', ~mishap' PROVE TagsKept'
  BY DEF KeptUnlessBroken
<1>2. TagsKept
  BY <1>1 DEF KeptUnlessBroken, TaggerTypeOK
<1>3. \A q \in Writers \ {p} : tagAt'[q] = tagAt[q]
  BY DEF TaggerTypeOK
<1>4. \A q \in Lockers \ {p} : tagAt[p] \in Inside => tagAt[q] \notin Deciding
  BY DEF Exclusive, Inside, Deciding, Lockers, Writers
<1>5. Reported(flac.tags)'
  BY <1>1, <1>2, <1>3, <1>4, Keys DEF TagsKept, Reported, Deciding, Inside, TaggerTypeOK,
     Lockers, Writers, Roles, Contents
<1>6. \A q \in Lockers : tagAt'[q] \in {"saving", "replacing", "moving"} => Reported(temp[q].tags)'
  BY <1>1, <1>2, <1>3, <1>4, Keys DEF TagsKept, Reported, Deciding, Inside, TaggerTypeOK,
     Lockers, Writers, Roles, Contents
<1>7. \A q \in Lockers :
         tagAt'[q] \in Deciding =>
             KeysOf(wants'[q]) \subseteq KeysOf(writes'[q]) \cup KeysOf(flac'.tags)
  BY <1>1, <1>2, <1>3, <1>4, Keys DEF TagsKept, Reported, Deciding, Inside, TaggerTypeOK,
     Lockers, Writers, Roles, Contents
<1>8. \A q \in Lockers :
         tagAt'[q] = "saving" =>
             KeysOf(wants'[q]) \subseteq KeysOf(writes'[q]) \cup KeysOf(temp'[q].tags)
  BY <1>1, <1>2, <1>3, <1>4, Keys DEF TagsKept, Reported, Deciding, Inside, TaggerTypeOK,
     Lockers, Writers, Roles, Contents
<1>9. \A q \in Lockers :
         tagAt'[q] \in {"replacing", "moving"} => KeysOf(wants'[q]) \subseteq KeysOf(temp'[q].tags)
  BY <1>1, <1>2, <1>3, <1>4, Keys DEF TagsKept, Reported, Deciding, Inside, TaggerTypeOK,
     Lockers, Writers, Roles, Contents
<1>10. \A q \in Migrators :
          tagAt'[q] \in {"migrating", "rewriting"} /\ overtaken'[q] = {} =>
              KeysOf(flac'.tags) \subseteq KeysOf(temp'[q].tags)
  BY <1>1, <1>2, <1>3, <1>4, Keys DEF TagsKept, Reported, Deciding, Inside, TaggerTypeOK,
     Lockers, Writers, Roles, Contents
<1> QED
  BY <1>5, <1>6, <1>7, <1>8, <1>9, <1>10 DEF TagsKept, KeysOf

LEMMA KeepsHnrRead ==
  ASSUME ~Posix, ExclusiveInv, KeptUnlessBroken, NEW p \in Writers, HnrRead(p)
  PROVE  KeptUnlessBroken'
<1> USE FlacTaggerAssumption DEF ExclusiveInv, TagInv, HnrRead, Moves, Reports, HnrStep,
        lockVars, argumentVars
<1>1. SUFFICES ASSUME ~clobbered', ~mishap' PROVE TagsKept'
  BY DEF KeptUnlessBroken
<1>2. TagsKept
  BY <1>1 DEF KeptUnlessBroken, TaggerTypeOK
<1>3. \A q \in Writers \ {p} : tagAt'[q] = tagAt[q]
  BY DEF TaggerTypeOK
<1>4. \A q \in Lockers \ {p} : tagAt[p] \in Inside => tagAt[q] \notin Deciding
  BY DEF Exclusive, Inside, Deciding, Lockers, Writers
<1>a. UNCHANGED flac /\ \A q \in Writers \ {p} : temp'[q] = temp[q] /\ overtaken'[q] = overtaken[q]
  BY DEF TaggerTypeOK
<1>b. temp'[p] = [flac EXCEPT !.tags[HnrKey] = p]
  BY DEF TaggerTypeOK
<1>c. KeysOf(flac.tags) \subseteq KeysOf(temp'[p].tags)
  BY <1>b, HnrKeys
<1>5. Reported(flac.tags)'
  BY <1>1, <1>2, <1>3, <1>4, Keys DEF TagsKept, Reported, Deciding, Inside, TaggerTypeOK,
     Lockers, Writers, Roles, Contents
<1>6. \A q \in Lockers : tagAt'[q] \in {"saving", "replacing", "moving"} => Reported(temp[q].tags)'
  BY <1>1, <1>2, <1>3, <1>4, Keys DEF TagsKept, Reported, Deciding, Inside, TaggerTypeOK,
     Lockers, Writers, Roles, Contents
<1>7. \A q \in Lockers :
         tagAt'[q] \in Deciding =>
             KeysOf(wants'[q]) \subseteq KeysOf(writes'[q]) \cup KeysOf(flac'.tags)
  BY <1>1, <1>2, <1>3, <1>4, Keys DEF TagsKept, Reported, Deciding, Inside, TaggerTypeOK,
     Lockers, Writers, Roles, Contents
<1>8. \A q \in Lockers :
         tagAt'[q] = "saving" =>
             KeysOf(wants'[q]) \subseteq KeysOf(writes'[q]) \cup KeysOf(temp'[q].tags)
  BY <1>1, <1>2, <1>3, <1>4, Keys DEF TagsKept, Reported, Deciding, Inside, TaggerTypeOK,
     Lockers, Writers, Roles, Contents
<1>9. \A q \in Lockers :
         tagAt'[q] \in {"replacing", "moving"} => KeysOf(wants'[q]) \subseteq KeysOf(temp'[q].tags)
  BY <1>1, <1>2, <1>3, <1>4, Keys DEF TagsKept, Reported, Deciding, Inside, TaggerTypeOK,
     Lockers, Writers, Roles, Contents
<1>10. \A q \in Migrators :
          tagAt'[q] \in {"migrating", "rewriting"} /\ overtaken'[q] = {} =>
              KeysOf(flac'.tags) \subseteq KeysOf(temp'[q].tags)
  BY <1>2, <1>3, <1>a, <1>c DEF TagsKept, Lockers, Writers
<1> QED
  BY <1>5, <1>6, <1>7, <1>8, <1>9, <1>10 DEF TagsKept, KeysOf

LEMMA KeepsHnrSaveBegins ==
  ASSUME ~Posix, ExclusiveInv, KeptUnlessBroken, NEW p \in Writers, HnrSaveBegins(p)
  PROVE  KeptUnlessBroken'
<1> USE FlacTaggerAssumption DEF ExclusiveInv, TagInv, HnrSaveBegins, Moves, Reports, HnrStep,
        lockVars, argumentVars
<1>1. SUFFICES ASSUME ~clobbered', ~mishap' PROVE TagsKept'
  BY DEF KeptUnlessBroken
<1>2. TagsKept
  BY <1>1 DEF KeptUnlessBroken, TaggerTypeOK
<1>3. \A q \in Writers \ {p} : tagAt'[q] = tagAt[q]
  BY DEF TaggerTypeOK
<1>4. \A q \in Lockers \ {p} : tagAt[p] \in Inside => tagAt[q] \notin Deciding
  BY DEF Exclusive, Inside, Deciding, Lockers, Writers
<1> QED
  BY <1>1, <1>2, <1>3, <1>4, Keys DEF TagsKept, Reported, Deciding, Inside, TaggerTypeOK,
     Lockers, Writers, Roles, Contents

LEMMA KeepsHnrSaveEnds ==
  ASSUME ~Posix, ExclusiveInv, KeptUnlessBroken, NEW p \in Writers, HnrSaveEnds(p)
  PROVE  KeptUnlessBroken'
<1> USE FlacTaggerAssumption DEF ExclusiveInv, TagInv, HnrSaveEnds, Moves, Reports, HnrStep,
        lockVars, argumentVars, Overtake
<1>1. SUFFICES ASSUME ~clobbered', ~mishap' PROVE TagsKept'
  BY DEF KeptUnlessBroken
<1>2. TagsKept
  BY <1>1 DEF KeptUnlessBroken, TaggerTypeOK
<1>3. \A q \in Writers \ {p} : tagAt'[q] = tagAt[q]
  BY DEF TaggerTypeOK
<1>4. \A q \in Lockers \ {p} : tagAt[p] \in Inside => tagAt[q] \notin Deciding
  BY DEF Exclusive, Inside, Deciding, Lockers, Writers
<1>a. p \in Migrators /\ overtaken[p] = {}
  BY <1>1 DEF Roles, TaggerTypeOK
<1>b. KeysOf(flac.tags) \subseteq KeysOf(flac'.tags)
  BY <1>2, <1>a DEF TagsKept
<1>c. \A q \in Lockers : wants'[q] = wants[q] /\ result'[q] = result[q]
  BY <1>a DEF TaggerTypeOK, Lockers, Writers
<1>5. Reported(flac.tags)'
  BY <1>2, <1>b, <1>c DEF TagsKept, Reported
<1>6. \A q \in Lockers : tagAt'[q] \in {"saving", "replacing", "moving"} => Reported(temp[q].tags)'
  <2> SUFFICES ASSUME NEW q \in Lockers, tagAt'[q] \in {"saving", "replacing", "moving"},
                      NEW r \in Lockers, result'[r] = "ok"
               PROVE  KeysOf(wants'[r]) \subseteq KeysOf(temp'[q].tags)
    BY DEF Reported
  <2>0. q # p
    BY <1>a, FlacTaggerAssumption
  <2>1. tagAt[q] = tagAt'[q] /\ temp'[q] = temp[q]
    BY <2>0, <1>3 DEF Lockers, Writers, TaggerTypeOK
  <2>2. Reported(temp[q].tags)
    BY <1>2, <2>1 DEF TagsKept
  <2> QED
    BY <1>c, <2>1, <2>2 DEF Reported
<1>7. \A q \in Lockers :
         tagAt'[q] \in Deciding =>
             KeysOf(wants'[q]) \subseteq KeysOf(writes'[q]) \cup KeysOf(flac'.tags)
  BY <1>1, <1>2, <1>3, <1>4, Keys DEF TagsKept, Reported, Deciding, Inside, TaggerTypeOK,
     Lockers, Writers, Roles, Contents
<1>8. \A q \in Lockers :
         tagAt'[q] = "saving" =>
             KeysOf(wants'[q]) \subseteq KeysOf(writes'[q]) \cup KeysOf(temp'[q].tags)
  BY <1>1, <1>2, <1>3, <1>4, Keys DEF TagsKept, Reported, Deciding, Inside, TaggerTypeOK,
     Lockers, Writers, Roles, Contents
<1>9. \A q \in Lockers :
         tagAt'[q] \in {"replacing", "moving"} => KeysOf(wants'[q]) \subseteq KeysOf(temp'[q].tags)
  BY <1>1, <1>2, <1>3, <1>4, Keys DEF TagsKept, Reported, Deciding, Inside, TaggerTypeOK,
     Lockers, Writers, Roles, Contents
<1>10. \A q \in Migrators :
          tagAt'[q] \in {"migrating", "rewriting"} /\ overtaken'[q] = {} =>
              KeysOf(flac'.tags) \subseteq KeysOf(temp'[q].tags)
  BY <1>1, <1>2, <1>3, <1>4, Keys DEF TagsKept, Reported, Deciding, Inside, TaggerTypeOK,
     Lockers, Writers, Roles, Contents
<1> QED
  BY <1>5, <1>6, <1>7, <1>8, <1>9, <1>10 DEF TagsKept, KeysOf

LEMMA KeepsDie ==
  ASSUME ~Posix, ExclusiveInv, KeptUnlessBroken, NEW p \in Writers, Die(p)
  PROVE  KeptUnlessBroken'
<1> USE FlacTaggerAssumption DEF ExclusiveInv, TagInv, Die, Moves, Reports, TagFault, InPlace
<1>1. SUFFICES ASSUME ~clobbered', ~mishap' PROVE TagsKept'
  BY DEF KeptUnlessBroken
<1>2. TagsKept
  BY <1>1 DEF KeptUnlessBroken, TaggerTypeOK
<1>3. \A q \in Writers \ {p} : tagAt'[q] = tagAt[q]
  BY DEF TaggerTypeOK
<1>4. \A q \in Lockers \ {p} : tagAt[p] \in Inside => tagAt[q] \notin Deciding
  BY DEF Exclusive, Inside, Deciding, Lockers, Writers
<1> QED
  BY <1>1, <1>2, <1>3, <1>4, Keys DEF TagsKept, Reported, Deciding, Inside, TaggerTypeOK,
     Lockers, Writers, Roles, Contents

LEMMA NextKept ==
  ~Posix /\ ExclusiveInv /\ KeptUnlessBroken /\ [TaggerNext]_taggerVars => KeptUnlessBroken'
<1> SUFFICES ASSUME ~Posix, ExclusiveInv, KeptUnlessBroken, [TaggerNext]_taggerVars
             PROVE  KeptUnlessBroken'
  OBVIOUS
<1>1. ASSUME UNCHANGED taggerVars PROVE KeptUnlessBroken'
  BY <1>1 DEF KeptUnlessBroken, TagsKept, Reported, taggerVars, lockVars, argumentVars, historyVars
<1>2. ASSUME NEW p \in Writers, Tag(p) PROVE KeptUnlessBroken'
  BY <1>2, KeepsTag
<1>3. ASSUME NEW p \in Writers, Repair(p) PROVE KeptUnlessBroken'
  BY <1>3, KeepsRepair
<1>4. ASSUME NEW p \in Writers, Check(p) PROVE KeptUnlessBroken'
  BY <1>4, KeepsCheck
<1>5. ASSUME NEW p \in Writers, OpenLock(p) PROVE KeptUnlessBroken'
  BY <1>5, KeepsOpenLock
<1>6. ASSUME NEW p \in Writers, Lock(p) PROVE KeptUnlessBroken'
  BY <1>6, KeepsLock
<1>7. ASSUME NEW p \in Writers, LockHeld(p) PROVE KeptUnlessBroken'
  BY <1>7, KeepsLockHeld
<1>8. ASSUME NEW p \in Writers, Unlock(p) PROVE KeptUnlessBroken'
  BY <1>8, KeepsUnlock
<1>9. ASSUME NEW p \in Writers, RemoveLock(p) PROVE KeptUnlessBroken'
  BY <1>9, KeepsRemoveLock
<1>10. ASSUME NEW p \in Writers, Decide(p) PROVE KeptUnlessBroken'
  BY <1>10, KeepsDecide
<1>11. ASSUME NEW p \in Writers, DiskFull(p) PROVE KeptUnlessBroken'
  BY <1>11, KeepsDiskFull
<1>12. ASSUME NEW p \in Writers, CopyToTemp(p) PROVE KeptUnlessBroken'
  BY <1>12, KeepsCopyToTemp
<1>13. ASSUME NEW p \in Writers, SaveTemp(p) PROVE KeptUnlessBroken'
  BY <1>13, KeepsSaveTemp
<1>14. ASSUME NEW p \in Writers, Replace(p) PROVE KeptUnlessBroken'
  BY <1>14, KeepsReplace
<1>15. ASSUME NEW p \in Writers, MoveBegins(p) PROVE KeptUnlessBroken'
  BY <1>15, KeepsMoveBegins
<1>16. ASSUME NEW p \in Writers, MoveEnds(p) PROVE KeptUnlessBroken'
  BY <1>16, KeepsMoveEnds
<1>17. ASSUME NEW p \in Writers, AttemptFails(p) PROVE KeptUnlessBroken'
  BY <1>17, KeepsAttemptFails
<1>18. ASSUME NEW p \in Writers, HnrRead(p) PROVE KeptUnlessBroken'
  BY <1>18, KeepsHnrRead
<1>19. ASSUME NEW p \in Writers, HnrSaveBegins(p) PROVE KeptUnlessBroken'
  BY <1>19, KeepsHnrSaveBegins
<1>20. ASSUME NEW p \in Writers, HnrSaveEnds(p) PROVE KeptUnlessBroken'
  BY <1>20, KeepsHnrSaveEnds
<1>21. ASSUME NEW p \in Writers, Die(p) PROVE KeptUnlessBroken'
  BY <1>21, KeepsDie
<1> QED
  BY <1>1, <1>2, <1>3, <1>4, <1>5, <1>6, <1>7, <1>8, <1>9, <1>10, <1>11, <1>12, <1>13, <1>14,
     <1>15, <1>16, <1>17, <1>18, <1>19, <1>20, <1>21 DEF TaggerNext

\* On Windows a success is a fact: the tags that were asked for are in the file, after any
\* number of writers, failed attempts and crashes, unless the migration of HNR saved over
\* them or a write in place went wrong (flac_tagger.py:461-504).
THEOREM SuccessHolds ==
  ASSUME ~Posix
  PROVE  TaggerSpec => []SuccessIsWritten
<1>1. TaggerSpec => []KeptUnlessBroken
  BY InitKept, NextKept, WindowsInvariance, PTL DEF TaggerSpec
<1>2. KeptUnlessBroken => SuccessIsWritten
  BY DEF KeptUnlessBroken, TagsKept, Reported, SuccessIsWritten
<1> QED
  BY <1>1, <1>2, PTL

(***************************************************************************)
(* The enumeration of a finite set in a strict total order.                *)
(***************************************************************************)
Orders(before, S) ==
    /\ \A x \in S : <<x, x>> \notin before
    /\ \A x, y \in S : x # y => <<x, y>> \in before \/ <<y, x>> \in before
    /\ \A x, y, z \in S : <<x, y>> \in before /\ <<y, z>> \in before => <<x, z>> \in before

LEMMA LastMember ==
  ASSUME NEW S, IsFiniteSet(S), NEW before, Orders(before, S)
  PROVE  \A s \in SUBSET S : s # {} => \E m \in s : \A x \in s \ {m} : <<x, m>> \in before
<1> DEFINE T == {s \in SUBSET S : s # {} => \E m \in s : \A x \in s \ {m} : <<x, m>> \in before}
<1>1. ASSUME NEW s \in SUBSET S, \A x \in s : s \ {x} \in T PROVE s \in T
  <2> SUFFICES ASSUME s # {} PROVE \E m \in s : \A x \in s \ {m} : <<x, m>> \in before
    OBVIOUS
  <2>1. PICK y \in s : TRUE
    OBVIOUS
  <2>2. CASE s \ {y} = {}
    BY <2>1, <2>2
  <2>3. CASE s \ {y} # {}
    <3>1. PICK m \in s \ {y} : \A x \in (s \ {y}) \ {m} : <<x, m>> \in before
      BY <1>1, <2>1, <2>3
    <3>2. CASE <<y, m>> \in before
      <4>1. \A x \in s \ {m} : <<x, m>> \in before
        BY <3>1, <3>2
      <4> QED
        BY <4>1
    <3>3. CASE <<m, y>> \in before
      <4>1. \A x \in s \ {y} : <<x, y>> \in before
        BY <2>1, <3>1, <3>3 DEF Orders
      <4> QED
        BY <4>1
    <3> QED
      BY <2>1, <3>1, <3>2, <3>3 DEF Orders
  <2> QED
    BY <2>2, <2>3
<1>2. SUBSET S \subseteq T
  <2> HIDE DEF T
  <2> QED
    BY <1>1, SubsetInduction
<1> QED
  BY <1>2

Sorts(order, s, before) ==
    /\ order \in [1..Cardinality(s) -> s]
    /\ \A i, j \in 1..Cardinality(s) : i < j => <<order[i], order[j]>> \in before

LEMMA SomeOrder ==
  ASSUME NEW S, IsFiniteSet(S), NEW before, Orders(before, S)
  PROVE  \E order : Sorts(order, S, before)
<1> DEFINE T == {s \in SUBSET S : \E order : Sorts(order, s, before)}
<1>1. ASSUME NEW s \in SUBSET S, \A x \in s : s \ {x} \in T PROVE s \in T
  <2>0. IsFiniteSet(s) /\ Cardinality(s) \in Nat
    BY FS_Subset, FS_CardinalityType
  <2>1. CASE s = {}
    <3>1. Cardinality(s) = 0
      BY <2>1, FS_EmptySet
    <3>2. Sorts([i \in 1..0 |-> i], s, before)
      BY <3>1 DEF Sorts
    <3> QED
      BY <3>2
  <2>2. CASE s # {}
    <3>1. PICK m \in s : \A x \in s \ {m} : <<x, m>> \in before
      BY <2>2, LastMember
    <3>2. PICK order : Sorts(order, s \ {m}, before)
      BY <1>1, <3>1
    <3> DEFINE n == Cardinality(s)
               longer == [i \in 1..n |-> IF i = n THEN m ELSE order[i]]
    <3>3. Cardinality(s \ {m}) = n - 1 /\ n \in Nat
      BY <2>0, <3>1, FS_RemoveElement
    <3> HIDE DEF n
    <3>4. \A i \in 1..n : i # n => i \in 1..Cardinality(s \ {m}) /\ order[i] \in s \ {m}
      <4>1. order \in [1..Cardinality(s \ {m}) -> s \ {m}]
        BY <3>2 DEF Sorts
      <4>2. \A i \in 1..n : i # n => i \in 1..Cardinality(s \ {m})
        BY <3>3
      <4> QED
        BY <4>1, <4>2
    <3>5. longer \in [1..n -> s]
      BY <3>1, <3>4
    <3>6. ASSUME NEW i \in 1..n, NEW j \in 1..n, i < j
          PROVE  <<longer[i], longer[j]>> \in before
      <4>1. i # n /\ i \in 1..Cardinality(s \ {m}) /\ order[i] \in s \ {m}
        BY <3>3, <3>4, <3>6
      <4>2. CASE j = n
        BY <3>1, <4>1, <4>2
      <4>3. CASE j # n
        <5>1. j \in 1..Cardinality(s \ {m})
          BY <3>4, <4>3
        <5> QED
          BY <3>2, <3>3, <3>6, <4>1, <4>3, <5>1 DEF Sorts
      <4> QED
        BY <4>2, <4>3
    <3>7. Sorts(longer, s, before)
      BY <3>5, <3>6 DEF Sorts, n
    <3> QED
      BY <3>7
  <2> QED
    BY <2>1, <2>2
<1>2. SUBSET S \subseteq T
  <2> HIDE DEF T
  <2> QED
    BY <1>1, SubsetInduction
<1> QED
  BY <1>2

\* InOrder lists every member once, in order.
LEMMA InOrderSorts ==
  ASSUME NEW S, IsFiniteSet(S), NEW before, Orders(before, S)
  PROVE  /\ Sorts(InOrder(S, before), S, before)
         /\ \A x \in S : \E i \in 1..Cardinality(S) : InOrder(S, before)[i] = x
<1> DEFINE order == InOrder(S, before)
           n == Cardinality(S)
<1>1. Sorts(order, S, before)
  <2>1. \E o \in [1..n -> S] : \A i, j \in 1..n : i < j => <<o[i], o[j]>> \in before
    BY SomeOrder DEF Sorts
  <2> QED
    BY <2>1 DEF InOrder, Sorts
<1>2. n \in Nat /\ IsFiniteSet(1..n) /\ Cardinality(1..n) = n
  BY FS_CardinalityType, FS_Interval
<1> HIDE DEF order
<1>3. \A i, j \in 1..n : order[i] = order[j] => i = j
  <2> SUFFICES ASSUME NEW i \in 1..n, NEW j \in 1..n, order[i] = order[j], i # j PROVE FALSE
    OBVIOUS
  <2>1. <<order[i], order[j]>> \in before \/ <<order[j], order[i]>> \in before
    BY <1>1, <1>2 DEF Sorts
  <2>2. order[i] \in S
    BY <1>1 DEF Sorts
  <2> QED
    BY <2>1, <2>2 DEF Orders
<1>4. order \in Injection(1..n, S)
  BY <1>1, <1>3 DEF Sorts, Injection, IsInjective
<1>5. order \in Surjection(1..n, S)
  BY <1>2, <1>4, FS_Injection
<1>6. \A x \in S : \E i \in 1..n : order[i] = x
  BY <1>5 DEF Surjection
<1> QED
  BY <1>1, <1>6 DEF order

LEMMA Smaller == \A S \in SUBSET Int : Orders({p \in S \X S : p[1] < p[2]}, S)
BY DEF Orders

LEMMA MaxIsMember ==
  ASSUME NEW S \in SUBSET Int, IsFiniteSet(S), S # {}
  PROVE  Max(S) \in S
<1> DEFINE before == {p \in S \X S : p[1] < p[2]}
<1>1. Orders(before, S)
  BY Smaller
<1>2. \A x, m \in S : <<x, m>> \in before => x < m
  OBVIOUS
<1> HIDE DEF before
<1>3. \A s \in SUBSET S : s # {} => \E m \in s : \A x \in s \ {m} : <<x, m>> \in before
  BY <1>1, LastMember
<1>4. PICK m \in S : \A x \in S \ {m} : <<x, m>> \in before
  BY <1>3
<1>5. ASSUME NEW x \in S PROVE m >= x
  <2>1. x \in Int /\ m \in Int
    OBVIOUS
  <2>2. x = m \/ x < m
    BY <1>2, <1>4
  <2> QED
    BY <2>1, <2>2
<1> QED
  BY <1>5 DEF Max

(***************************************************************************)
(* What is read from a cue sheet.                                          *)
(***************************************************************************)
Tracks == [track : Nat, start : Nat]
Reading == [tracks : Seq(Tracks), now : [track : Nat, start : Nat \cup {-1}] \cup {NoTrack}]
Blank == [tracks |-> <<>>, now |-> NoTrack]

LEMMA KeptTyped == \A s \in Reading : Kept(s) \in Seq(Tracks)
<1> SUFFICES ASSUME NEW s \in Reading PROVE Kept(s) \in Seq(Tracks)
  OBVIOUS
<1>1. CASE s.now = NoTrack \/ s.now.start = -1
  BY <1>1 DEF Kept, Reading
<1>2. CASE ~(s.now = NoTrack \/ s.now.start = -1)
  <2>1. s.now \in Tracks /\ s.tracks \in Seq(Tracks)
    BY <1>2 DEF Reading, Tracks
  <2> QED
    BY <1>2, <2>1 DEF Kept
<1> QED
  BY <1>1, <1>2

LEMMA ReadTyped == \A s \in Reading, l \in Lines : ReadLine(s, l) \in Reading
<1> SUFFICES ASSUME NEW s \in Reading, NEW l \in Lines PROVE ReadLine(s, l) \in Reading
  OBVIOUS
<1>1. l.n \in Nat
  BY DEF Lines
<1>2. CASE l.line = "TRACK"
  <2>1. [track |-> l.n, start |-> -1] \in [track : Nat, start : Nat \cup {-1}]
    BY <1>1
  <2> QED
    BY <1>2, <2>1, KeptTyped DEF ReadLine, Reading
<1>3. CASE l.line # "TRACK" /\ s.now # NoTrack
  <2>1. s.now \in [track : Nat, start : Nat \cup {-1}]
    BY <1>3 DEF Reading
  <2>2. [s.now EXCEPT !.start = l.n] \in [track : Nat, start : Nat \cup {-1}]
    BY <1>1, <2>1
  <2> QED
    BY <1>3, <2>2 DEF ReadLine, Reading
<1> QED
  BY <1>2, <1>3 DEF ReadLine

Reads(sheet, g) ==
    g = [s \in SUBSET DOMAIN sheet |->
            IF s = {} THEN Blank ELSE ReadLine(g[s \ {Max(s)}], sheet[Max(s)])]

LEMMA FoldOfSheet ==
  \A sheet : TracksOf(sheet) = Kept((CHOOSE g : Reads(sheet, g))[DOMAIN sheet])
BY DEF TracksOf, FoldLeft, MapThenFoldSet, Reads, Blank

LEMMA ReadsTyped ==
  ASSUME NEW sheet \in Seq(Lines), NEW g, Reads(sheet, g),
         DOMAIN sheet \in SUBSET Int, IsFiniteSet(DOMAIN sheet)
  PROVE  g[DOMAIN sheet] \in Reading
<1>1. g[{}] \in Reading
  BY DEF Reads, Blank, Reading
<1>2. ASSUME NEW s \in (SUBSET DOMAIN sheet) \ {{}}
      PROVE  \E x \in s : g[s \ {x}] \in Reading => g[s] \in Reading
  <2>1. IsFiniteSet(s) /\ s \in SUBSET Int
    BY FS_Subset
  <2>2. Max(s) \in s
    BY <2>1, MaxIsMember
  <2>3. sheet[Max(s)] \in Lines
    BY <2>2
  <2>4. g[s] = ReadLine(g[s \ {Max(s)}], sheet[Max(s)])
    BY DEF Reads
  <2>5. g[s \ {Max(s)}] \in Reading => g[s] \in Reading
    BY <2>3, <2>4, ReadTyped
  <2> QED
    BY <2>2, <2>5
<1> HIDE DEF Reading
<1> QED
  BY <1>1, <1>2, FoldStays

LEMMA TracksTyped ==
  ASSUME NEW sheet \in Seq(Lines)
  PROVE  TracksOf(sheet) \in Seq(Tracks)
<1> DEFINE S == DOMAIN sheet
           pick == [s \in SUBSET S |-> Max(s)]
           step == [s \in SUBSET S |-> [v \in Reading |-> ReadLine(v, sheet[Max(s)])]]
<1>1. S \in SUBSET Int /\ IsFiniteSet(S)
  <2>1. S = 1..Len(sheet) /\ Len(sheet) \in Nat
    OBVIOUS
  <2> QED
    BY <2>1, FS_Interval
<1>2. \A s \in (SUBSET S) \ {{}} : Max(s) \in s
  BY <1>1, MaxIsMember, FS_Subset
<1>3. \A i \in S : sheet[i] \in Lines
  OBVIOUS
<1>4. Blank \in Reading
  BY DEF Blank, Reading
<1> HIDE DEF S
<1>5. PICK g \in [SUBSET S -> Reading] : Folding(g, S, Blank, pick, step)
  <2>1. \A s \in (SUBSET S) \ {{}} : pick[s] \in s /\ step[s] \in [Reading -> Reading]
    BY <1>2, <1>3, ReadTyped
  <2> HIDE DEF pick, step
  <2> QED
    BY <1>1, <1>4, <2>1, FoldExists
<1>6. Reads(sheet, g)
  <2>1. ASSUME NEW s \in SUBSET S, s # {}
        PROVE  step[s][g[s \ {pick[s]}]] = ReadLine(g[s \ {Max(s)}], sheet[Max(s)])
    BY <1>5, <2>1
  <2> HIDE DEF step, pick
  <2> QED
    BY <1>5, <2>1 DEF Folding, Reads, S
<1> DEFINE h == CHOOSE f : Reads(sheet, f)
<1>7. Reads(sheet, h)
  BY <1>6
<1> HIDE DEF h
<1>8. h[DOMAIN sheet] \in Reading
  BY <1>1, <1>7, ReadsTyped DEF S, Reads
<1> QED
  BY <1>8, KeptTyped, FoldOfSheet DEF h

(***************************************************************************)
(* The cut.                                                                *)
(***************************************************************************)
LEMMA ByTrackSorts ==
  ASSUME NEW tracks \in Seq(Tracks)
  PROVE  /\ ByTrack(tracks) \in Seq(Tracks)
         /\ Len(ByTrack(tracks)) = Len(tracks)
         /\ \A i, j \in 1..Len(tracks) :
               i < j => ByTrack(tracks)[i].track <= ByTrack(tracks)[j].track
<1> DEFINE n == Len(tracks)
           S == DOMAIN tracks
           before == {p \in S \X S :
                         \/ tracks[p[1]].track < tracks[p[2]].track
                         \/ tracks[p[1]].track = tracks[p[2]].track /\ p[1] < p[2]}
           order == InOrder(S, before)
<1>1. S = 1..n /\ n \in Nat /\ IsFiniteSet(S) /\ Cardinality(S) = n
  <2>1. S = 1..n /\ n \in Nat
    OBVIOUS
  <2> HIDE DEF S, n
  <2> QED
    BY <2>1, FS_Interval
<1>2. \A i \in S : tracks[i] \in Tracks /\ tracks[i].track \in Nat /\ i \in Int
  <2>1. ASSUME NEW i \in S PROVE tracks[i] \in Tracks /\ i \in Int
    OBVIOUS
  <2> QED
    BY <2>1 DEF Tracks
<1>3. \A i, j \in S : <<i, j>> \in before <=>
          \/ tracks[i].track < tracks[j].track
          \/ tracks[i].track = tracks[j].track /\ i < j
  OBVIOUS
<1>4. ByTrack(tracks) = [i \in S |-> tracks[order[i]]]
  BY DEF ByTrack
<1> HIDE DEF before
<1>5. Orders(before, S)
  <2> HIDE DEF S
  <2> QED
    BY <1>2, <1>3 DEF Orders
<1>6. Sorts(order, S, before)
  BY <1>1, <1>5, InOrderSorts
<1> HIDE DEF order, n, S
<1>7. /\ order \in [1..n -> S]
      /\ \A i, j \in 1..n : i < j => <<order[i], order[j]>> \in before
  BY <1>1, <1>6 DEF Sorts
<1>8. ByTrack(tracks) \in [1..n -> Tracks]
  BY <1>1, <1>2, <1>4, <1>7
<1>9. ByTrack(tracks) \in Seq(Tracks) /\ Len(ByTrack(tracks)) = n
  BY <1>1, <1>8
<1>10. ASSUME NEW i \in 1..n, NEW j \in 1..n, i < j
       PROVE  ByTrack(tracks)[i].track <= ByTrack(tracks)[j].track
  <2>1. order[i] \in S /\ order[j] \in S /\ <<order[i], order[j]>> \in before
    BY <1>7, <1>10
  <2>2. \A x, y \in S : <<x, y>> \in before => tracks[x].track <= tracks[y].track
    <3>1. ASSUME NEW x \in S, NEW y \in S, <<x, y>> \in before
          PROVE  tracks[x].track <= tracks[y].track
      <4>1. tracks[x].track \in Nat /\ tracks[y].track \in Nat
        BY <1>2
      <4>2. tracks[x].track < tracks[y].track \/ tracks[x].track = tracks[y].track
        BY <1>3, <3>1
      <4> QED
        BY <4>1, <4>2
    <3> QED
      BY <3>1
  <2>3. ByTrack(tracks)[i] = tracks[order[i]] /\ ByTrack(tracks)[j] = tracks[order[j]]
    BY <1>1, <1>4
  <2> QED
    BY <2>1, <2>2, <2>3
<1> QED
  BY <1>9, <1>10 DEF n

\* What Proper keeps, in which order.
Fits(all, i) == all[i].start < TotalSamples /\ all[i].start < all[i].end
LEMMA ProperKeeps ==
  ASSUME NEW all \in Seq(Slices)
  PROVE  /\ Proper(all) \in Seq(Slices)
         /\ \A i \in DOMAIN all :
               Fits(all, i) => \E k \in DOMAIN Proper(all) : Proper(all)[k] = all[i]
         /\ \E place :
               \A k \in DOMAIN Proper(all) :
                  /\ place[k] \in DOMAIN all /\ Fits(all, place[k])
                  /\ Proper(all)[k] = all[place[k]]
                  /\ \A j \in DOMAIN Proper(all) : j < k => place[j] < place[k]
<1> DEFINE kept == {i \in DOMAIN all : Fits(all, i)}
           n == Cardinality(kept)
           before == {p \in kept \X kept : p[1] < p[2]}
           order == InOrder(kept, before)
<1>1. kept \in SUBSET Int /\ IsFiniteSet(kept) /\ n \in Nat
  <2>1. DOMAIN all = 1..Len(all) /\ Len(all) \in Nat
    OBVIOUS
  <2>2. IsFiniteSet(DOMAIN all) /\ kept \subseteq DOMAIN all
    BY <2>1, FS_Interval
  <2> HIDE DEF kept
  <2>3. IsFiniteSet(kept)
    BY <2>2, FS_Subset
  <2>4. n \in Nat
    BY <2>3, FS_CardinalityType
  <2> QED
    BY <2>1, <2>2, <2>3, <2>4
<1>2. Proper(all) = [k \in 1..n |-> all[order[k]]]
  BY DEF Proper, Fits
<1>3. \A i \in kept : i \in DOMAIN all /\ Fits(all, i) /\ all[i] \in Slices
  OBVIOUS
<1>4. \A i \in DOMAIN all : Fits(all, i) => i \in kept
  OBVIOUS
<1>5. \A i, j \in kept : <<i, j>> \in before => i < j
  OBVIOUS
<1>6. Orders(before, kept)
  <2> HIDE DEF kept
  <2> QED
    BY <1>1, Smaller
<1> HIDE DEF kept, before
<1>7. /\ Sorts(order, kept, before)
      /\ \A i \in kept : \E k \in 1..n : order[k] = i
  BY <1>1, <1>6, InOrderSorts
<1> HIDE DEF order, n
<1>8. /\ order \in [1..n -> kept]
      /\ \A j, k \in 1..n : j < k => <<order[j], order[k]>> \in before
  BY <1>7 DEF Sorts, n
<1>9. DOMAIN Proper(all) = 1..n /\ \A k \in 1..n : Proper(all)[k] = all[order[k]]
  BY <1>2
<1>10. Proper(all) \in Seq(Slices)
  <2>1. Proper(all) \in [1..n -> Slices]
    BY <1>2, <1>3, <1>8
  <2> QED
    BY <1>1, <2>1
<1>11. \A i \in DOMAIN all : Fits(all, i) => \E k \in DOMAIN Proper(all) : Proper(all)[k] = all[i]
  BY <1>4, <1>7, <1>9
<1>12. ASSUME NEW k \in DOMAIN Proper(all)
       PROVE  /\ order[k] \in DOMAIN all /\ Fits(all, order[k])
              /\ Proper(all)[k] = all[order[k]]
              /\ \A j \in DOMAIN Proper(all) : j < k => order[j] < order[k]
  <2>1. order[k] \in kept
    BY <1>8, <1>9
  <2>2. ASSUME NEW j \in DOMAIN Proper(all), j < k PROVE order[j] < order[k]
    <3>1. order[j] \in kept /\ <<order[j], order[k]>> \in before
      BY <1>8, <1>9, <2>2
    <3> QED
      BY <1>5, <2>1, <3>1
  <2> QED
    BY <1>3, <1>9, <2>1, <2>2
<1> QED
  BY <1>10, <1>11, <1>12

\* The slice that track i of t begins, and those of all tracks.
SliceAt(t, i) ==
    [track |-> t[i].track, start |-> t[i].start,
     end |-> IF EndOf(t, i) < TotalSamples THEN EndOf(t, i) ELSE TotalSamples]
AllSlices(t) == [i \in DOMAIN t |-> SliceAt(t, i)]

LEMMA CutOfAll == \A tracks : Cut(tracks) = Proper(AllSlices(ByTrack(tracks)))
BY DEF Cut, AllSlices, SliceAt

LEMMA AllSlicesTyped ==
  ASSUME NEW t \in Seq(Tracks)
  PROVE  /\ AllSlices(t) \in Seq(Slices)
         /\ DOMAIN AllSlices(t) = 1..Len(t)
         /\ \A i \in 1..Len(t) :
               /\ AllSlices(t)[i] = SliceAt(t, i)
               /\ t[i].track \in Nat /\ t[i].start \in Nat
               /\ SliceAt(t, i).end \in Nat /\ SliceAt(t, i).end <= TotalSamples
               /\ i < Len(t) => t[i + 1].start \in Nat /\ SliceAt(t, i).end <= t[i + 1].start
<1> DEFINE n == Len(t)
<1>1. n \in Nat /\ DOMAIN t = 1..n
  OBVIOUS
<1>2. ASSUME NEW i \in 1..n PROVE t[i].track \in Nat /\ t[i].start \in Nat
  <2>1. t[i] \in Tracks
    OBVIOUS
  <2> QED
    BY <2>1 DEF Tracks
<1>3. TotalSamples \in Nat
  BY FlacDecodeAssumption
<1> HIDE DEF n
<1>4. ASSUME NEW i \in 1..n
      PROVE  /\ SliceAt(t, i) \in Slices
             /\ SliceAt(t, i).end \in Nat /\ SliceAt(t, i).end <= TotalSamples
             /\ i < n => t[i + 1].start \in Nat /\ SliceAt(t, i).end <= t[i + 1].start
  <2>1. i < n => t[i + 1].start \in Nat
    BY <1>1, <1>2
  <2>2. EndOf(t, i) = IF i < n THEN t[i + 1].start ELSE TotalSamples
    BY DEF EndOf, n
  <2>3. EndOf(t, i) \in Nat
    BY <1>3, <2>1, <2>2
  <2> DEFINE e == IF EndOf(t, i) < TotalSamples THEN EndOf(t, i) ELSE TotalSamples
  <2>4. e \in Nat /\ e <= TotalSamples /\ e <= EndOf(t, i)
    BY <1>3, <2>3
  <2>5. SliceAt(t, i) = [track |-> t[i].track, start |-> t[i].start, end |-> e]
    BY DEF SliceAt
  <2> HIDE DEF e
  <2>6. SliceAt(t, i) \in Slices /\ SliceAt(t, i).end = e
    BY <1>2, <2>4, <2>5 DEF Slices
  <2> QED
    BY <2>1, <2>2, <2>4, <2>6
<1>5. AllSlices(t) = [i \in 1..n |-> SliceAt(t, i)]
  BY <1>1 DEF AllSlices
<1>6. AllSlices(t) \in [1..n -> Slices]
  BY <1>4, <1>5
<1>7. AllSlices(t) \in Seq(Slices)
  BY <1>1, <1>6
<1> QED
  BY <1>2, <1>4, <1>5, <1>7 DEF n

\* The cut of a sheet, whatever it says.
LEMMA CutKeeps ==
  ASSUME NEW tracks \in Seq(Tracks)
  PROVE  /\ Cut(tracks) \in Seq(Slices)
         /\ \A i \in 1..Len(ByTrack(tracks)) :
               Fits(AllSlices(ByTrack(tracks)), i) =>
                  \E k \in DOMAIN Cut(tracks) : Cut(tracks)[k] = SliceAt(ByTrack(tracks), i)
         /\ \A k \in DOMAIN Cut(tracks) :
               /\ Cut(tracks)[k].start < Cut(tracks)[k].end
               /\ Cut(tracks)[k].end <= TotalSamples
               /\ \E i \in 1..Len(ByTrack(tracks)) : Cut(tracks)[k] = SliceAt(ByTrack(tracks), i)
         /\ \A j, k \in DOMAIN Cut(tracks) : j < k => Cut(tracks)[j].track <= Cut(tracks)[k].track
<1> DEFINE t == ByTrack(tracks)
           all == AllSlices(t)
           cut == Cut(tracks)
<1>1. /\ t \in Seq(Tracks)
      /\ \A i, j \in 1..Len(t) : i < j => t[i].track <= t[j].track
  BY ByTrackSorts
<1>2. cut = Proper(all)
  BY CutOfAll
<1> HIDE DEF t
<1>3. /\ all \in Seq(Slices) /\ DOMAIN all = 1..Len(t)
      /\ \A i \in 1..Len(t) :
            /\ all[i] = SliceAt(t, i) /\ SliceAt(t, i).end <= TotalSamples
            /\ SliceAt(t, i).track = t[i].track
  BY <1>1, AllSlicesTyped DEF SliceAt
<1> HIDE DEF all, cut
<1>4. /\ cut \in Seq(Slices)
      /\ \A i \in DOMAIN all : Fits(all, i) => \E k \in DOMAIN cut : cut[k] = all[i]
  BY <1>2, <1>3, ProperKeeps
<1>5. PICK place : \A k \in DOMAIN Proper(all) :
                     /\ place[k] \in DOMAIN all /\ Fits(all, place[k])
                     /\ Proper(all)[k] = all[place[k]]
                     /\ \A j \in DOMAIN Proper(all) : j < k => place[j] < place[k]
  BY <1>3, ProperKeeps
<1>6. ASSUME NEW k \in DOMAIN cut
      PROVE  /\ cut[k].start < cut[k].end /\ cut[k].end <= TotalSamples
             /\ \E i \in 1..Len(t) : cut[k] = SliceAt(t, i)
  BY <1>2, <1>3, <1>5 DEF Fits
<1>7. ASSUME NEW j \in DOMAIN cut, NEW k \in DOMAIN cut, j < k
      PROVE  cut[j].track <= cut[k].track
  <2>1. /\ place[j] \in 1..Len(t) /\ place[k] \in 1..Len(t) /\ place[j] < place[k]
        /\ cut[j] = SliceAt(t, place[j]) /\ cut[k] = SliceAt(t, place[k])
    BY <1>2, <1>3, <1>5, <1>7
  <2>2. t[place[j]].track <= t[place[k]].track
    BY <1>1, <2>1
  <2> QED
    BY <1>3, <2>1, <2>2
<1> QED
  BY <1>3, <1>4, <1>6, <1>7 DEF t, all, cut

\* Where the tracks ascend, the slice of a sample is that of the last track before it.
LEMMA SampleInOneSlice ==
  ASSUME NEW tracks \in Seq(Tracks), Ascending(ByTrack(tracks)),
         NEW x \in 0..(TotalSamples - 1), NEW k \in DOMAIN ByTrack(tracks),
         ByTrack(tracks)[k].start <= x,
         k < Len(ByTrack(tracks)) => x < ByTrack(tracks)[k + 1].start
  PROVE  /\ Cut(tracks) # <<>>
         /\ {s \in Range(Cut(tracks)) : s.start <= x /\ x < s.end} = {SliceAt(ByTrack(tracks), k)}
<1> DEFINE t == ByTrack(tracks)
           cut == Cut(tracks)
           here == SliceAt(t, k)
<1>1. t \in Seq(Tracks) /\ k \in 1..Len(t) /\ Len(t) \in Nat /\ DOMAIN t = 1..Len(t)
  <2>1. t \in Seq(Tracks)
    BY ByTrackSorts
  <2> HIDE DEF t
  <2>2. DOMAIN t = 1..Len(t) /\ Len(t) \in Nat
    BY <2>1
  <2> QED
    BY <2>1, <2>2 DEF t
<1>2. \A i, j \in 1..Len(t) : i < j => t[i].start < t[j].start
  BY <1>1 DEF Ascending
<1>3. t[k].start <= x /\ (k < Len(t) => x < t[k + 1].start)
  OBVIOUS
<1>4. /\ \A i \in 1..Len(t) :
            Fits(AllSlices(t), i) => \E m \in DOMAIN cut : cut[m] = SliceAt(t, i)
      /\ \A m \in DOMAIN cut : \E i \in 1..Len(t) : cut[m] = SliceAt(t, i)
      /\ cut \in Seq(Slices)
  BY CutKeeps
<1>5. TotalSamples \in Nat /\ x \in Nat /\ x < TotalSamples
  BY FlacDecodeAssumption
<1> HIDE DEF t, cut
<1>6. \A i \in 1..Len(t) :
         /\ AllSlices(t)[i] = SliceAt(t, i) /\ SliceAt(t, i).start = t[i].start
         /\ t[i].start \in Nat /\ SliceAt(t, i).end \in Nat
         /\ i < Len(t) => t[i + 1].start \in Nat /\ SliceAt(t, i).end <= t[i + 1].start
  BY <1>1, AllSlicesTyped DEF SliceAt
<1>7. here.start <= x /\ x < here.end
  <2>1. EndOf(t, k) = IF k < Len(t) THEN t[k + 1].start ELSE TotalSamples
    BY DEF EndOf
  <2>2. x < EndOf(t, k)
    BY <1>3, <1>5, <2>1
  <2>3. here.end = IF EndOf(t, k) < TotalSamples THEN EndOf(t, k) ELSE TotalSamples
    BY DEF SliceAt
  <2> QED
    BY <1>1, <1>3, <1>5, <1>6, <2>2, <2>3
<1>8. Fits(AllSlices(t), k)
  BY <1>1, <1>3, <1>5, <1>6, <1>7 DEF Fits
<1>9. PICK m \in DOMAIN cut : cut[m] = here
  BY <1>1, <1>4, <1>8
<1>10. ASSUME NEW s \in Range(cut), s.start <= x, x < s.end PROVE s = here
  <2>1. PICK i \in 1..Len(t) : s = SliceAt(t, i)
    BY <1>4 DEF Range
  <2>2. CASE i < k
    <3>1. i + 1 \in 1..Len(t) /\ i < Len(t) /\ (i + 1 = k \/ i + 1 < k)
      BY <1>1, <2>2
    <3>2. t[i + 1].start <= t[k].start
      BY <1>1, <1>2, <1>6, <3>1
    <3>3. s.end <= t[i + 1].start /\ s.end \in Nat /\ t[i + 1].start \in Nat /\ t[k].start \in Nat
      BY <1>1, <1>6, <2>1, <3>1
    <3> QED
      BY <1>3, <1>5, <1>10, <3>2, <3>3
  <2>3. CASE k < i
    <3>1. k + 1 \in 1..Len(t) /\ k < Len(t) /\ (k + 1 = i \/ k + 1 < i)
      BY <1>1, <2>3
    <3>2. t[k + 1].start <= t[i].start
      BY <1>1, <1>2, <1>6, <3>1
    <3>3. s.start = t[i].start /\ t[i].start \in Nat /\ t[k + 1].start \in Nat
      BY <1>6, <2>1, <3>1
    <3> QED
      BY <1>3, <1>5, <1>10, <3>1, <3>2, <3>3
  <2>4. i = k \/ i < k \/ k < i
    BY <1>1
  <2> QED
    BY <2>1, <2>2, <2>3, <2>4
<1>11. here \in Range(cut)
  BY <1>9 DEF Range
<1>12. cut # <<>>
  BY <1>9
<1>13. {s \in Range(cut) : s.start <= x /\ x < s.end} = {here}
  <2> HIDE DEF here
  <2> QED
    BY <1>7, <1>10, <1>11
<1> QED
  BY <1>12, <1>13 DEF t, cut

(***************************************************************************)
(* The slices of an open file and their hashes.                            *)
(***************************************************************************)
SheetOf(f) == IF f.text # <<>> THEN f.text ELSE f.block
SlicesOf(f) == IF Cut(TracksOf(SheetOf(f))) = <<>> THEN WholeFile ELSE Cut(TracksOf(SheetOf(f)))

FileOK ==
    /\ file.text \in Sheets /\ file.block \in Sheets
    /\ file.bits \in {16, 24} /\ file.readable \in Readable

\* A slice is there to be decoded, and a short one is not streamed.
Places ==
    /\ decodeAt \in DecodeAt
    /\ decodeAt \notin {"opening", "ready"} => slice \in DOMAIN slices
    /\ decodeAt = "streaming" => ~(slices[slice].end - slices[slice].start < LongSlice)

\* Where the fallback is in its stream: it skips to the first byte of the slice, unless the
\* stream ends before, and then has kept every byte from there on, up to the last of the
\* slice.
LastByte == SkipBytes + TargetBytes
StreamAt ==
    /\ decodeAt \in {"skipping", "reading"} =>
          stream.at \in Nat /\ stream.at <= StreamBytes /\ DOMAIN stream = DOMAIN NoStream
    /\ decodeAt = "skipping" =>
          /\ stream.skip \in Nat /\ stream.at + stream.skip = SkipBytes /\ stream.skip > 0
          /\ stream.left = TargetBytes /\ stream.kept = {}
    /\ decodeAt = "reading" =>
          /\ stream.at < SkipBytes => stream.at = StreamBytes
          /\ stream.kept = SkipBytes..(Least(stream.at, LastByte) - 1)
          /\ stream.left = IF stream.at <= SkipBytes THEN TargetBytes
                           ELSE LastByte - Least(stream.at, LastByte)

\* Once open, the slices are those of the sheet.
SlicesFixed == Opened => slices = SlicesOf(file) /\ hashes \in [DOMAIN slices -> SUBSET Hashes]

\* A hash is of the bytes of its slice, as far as the file goes.
OwnBytes ==
    Opened =>
        \A i \in DOMAIN slices : \A h \in hashes[i] :
            h.bytes = BytesOf(slices[i].start, Least(slices[i].end, file.readable), h.format)

\* The one hash of a short slice
PackedHash(i) == HashOf(BytesOf(slices[i].start, slices[i].end, "pcm16"), "pcm16")
OneHash ==
    Opened /\ file.bits = 16 /\ file.readable = TotalSamples =>
        \A i \in DOMAIN slices :
            slices[i].end - slices[i].start < LongSlice => hashes[i] \subseteq {PackedHash(i)}

DecodeInv == FileOK /\ Places /\ StreamAt /\ SlicesFixed /\ OwnBytes /\ OneHash

LEMMA SlicesTyped ==
  ASSUME FileOK
  PROVE  /\ TracksOf(SheetOf(file)) \in Seq(Tracks)
         /\ SlicesOf(file) \in Seq(Slices) /\ SlicesOf(file) # <<>>
         /\ \A i \in DOMAIN SlicesOf(file) :
               /\ SlicesOf(file)[i].start < SlicesOf(file)[i].end
               /\ SlicesOf(file)[i].end <= TotalSamples
         /\ \A i, j \in DOMAIN SlicesOf(file) :
               i < j => SlicesOf(file)[i].track <= SlicesOf(file)[j].track
<1>1. TracksOf(SheetOf(file)) \in Seq(Tracks)
  <2>1. SheetOf(file) \in Seq(Lines)
    BY FlacDecodeAssumption DEF FileOK, SheetOf
  <2> QED
    BY <2>1, TracksTyped
<1> DEFINE cut == Cut(TracksOf(SheetOf(file)))
<1>2. CASE cut = <<>>
  <2>1. SlicesOf(file) = WholeFile
    BY <1>2 DEF SlicesOf
  <2>2. TotalSamples \in Nat \ {0}
    BY FlacDecodeAssumption
  <2>3. WholeFile \in Seq(Slices) /\ DOMAIN WholeFile = {1} /\ WholeFile # <<>>
        /\ WholeFile[1] = [track |-> 1, start |-> 0, end |-> TotalSamples]
    BY <2>2 DEF WholeFile, Slices
  <2>4. /\ \A i \in DOMAIN WholeFile :
              WholeFile[i].start < WholeFile[i].end /\ WholeFile[i].end <= TotalSamples
        /\ \A i, j \in DOMAIN WholeFile : i < j => WholeFile[i].track <= WholeFile[j].track
    BY <2>2, <2>3
  <2> QED
    BY <1>1, <2>1, <2>3, <2>4
<1>3. CASE cut # <<>>
  <2>1. SlicesOf(file) = cut
    BY <1>3 DEF SlicesOf
  <2>2. /\ cut \in Seq(Slices)
        /\ \A k \in DOMAIN cut : cut[k].start < cut[k].end /\ cut[k].end <= TotalSamples
        /\ \A j, k \in DOMAIN cut : j < k => cut[j].track <= cut[k].track
    BY <1>1, CutKeeps
  <2> HIDE DEF cut
  <2> QED
    BY <1>1, <1>3, <2>1, <2>2
<1> QED
  BY <1>2, <1>3

\* A slice of an open file
LEMMA SliceFacts ==
  ASSUME DecodeInv, Opened, NEW i \in DOMAIN slices
  PROVE  /\ slices[i].start \in Nat /\ slices[i].end \in Nat
         /\ slices[i].start < slices[i].end /\ slices[i].end <= TotalSamples
<1>1. slices = SlicesOf(file) /\ FileOK
  BY DEF DecodeInv, SlicesFixed
<1>2. slices \in Seq(Slices) /\ slices[i].start < slices[i].end /\ slices[i].end <= TotalSamples
  BY <1>1, SlicesTyped
<1>3. slices[i] \in Slices
  BY <1>2
<1> QED
  BY <1>2, <1>3 DEF Slices

LEMMA InitDecodeInv == DecodeInit => DecodeInv
BY DEF DecodeInit, DecodeInv, FileOK, Places, StreamAt, SlicesFixed, OwnBytes, OneHash, Opened,
       DecodeAt

LEMMA StepOpenFlac ==
  ASSUME DecodeInv, OpenFlac
  PROVE  DecodeInv'
<1> USE DEF OpenFlac
<1>1. slices' = SlicesOf(file) /\ file' = file /\ decodeAt' = "ready"
      /\ hashes' = [i \in DOMAIN slices' |-> {}]
  BY DEF SlicesOf, SheetOf
<1>2. FileOK' /\ Places' /\ StreamAt'
  BY <1>1 DEF DecodeInv, FileOK, Places, StreamAt, DecodeAt
<1>3. SlicesFixed'
  BY <1>1 DEF SlicesFixed
<1>4. OwnBytes' /\ OneHash'
  BY <1>1 DEF OwnBytes, OneHash
<1> QED
  BY <1>2, <1>3, <1>4 DEF DecodeInv

\* A step that neither opens the file nor hashes.
LEMMA StepQuiet ==
  ASSUME DecodeInv, Opened, Opened', UNCHANGED <<file, slices, hashes>>, Places', StreamAt'
  PROVE  DecodeInv'
BY DEF DecodeInv, FileOK, SlicesFixed, OwnBytes, OneHash, PackedHash

\* The numbers of a slice that is being decoded
LEMMA LeastOf ==
  ASSUME DecodeInv, Opened, slice \in DOMAIN slices
  PROVE  /\ Now.start \in Nat /\ Now.end \in Nat /\ Now.start < Now.end
         /\ Now.end <= TotalSamples /\ file.readable \in Nat
         /\ Least(Now.end, file.readable) \in Nat
         /\ file.readable = TotalSamples => Least(Now.end, file.readable) = Now.end
<1>1. /\ Now.start \in Nat /\ Now.end \in Nat /\ Now.start < Now.end
      /\ Now.end <= TotalSamples
  BY SliceFacts DEF Now
<1>2. file.readable \in Nat /\ TotalSamples \in Nat
  <2>1. file.readable \in 0..TotalSamples /\ TotalSamples \in Nat
    BY FlacDecodeAssumption DEF DecodeInv, FileOK
  <2> QED
    BY <2>1
<1> QED
  BY <1>1, <1>2 DEF Least

LEMMA Formatted ==
  Packed \in Formats /\ FrameOf(Packed) \in {2, 3} /\ (file.bits = 16 => Packed = "pcm16")
BY DEF Packed, Formats, FrameOf

\* What a decoder hashes: all that can be read of the slice; in the packed format when the
\* slice is short, has 16 bits and can be read to its end.
LEMMA StepDecoded ==
  ASSUME DecodeInv, Opened, slice \in DOMAIN slices, NEW bytes, NEW format \in Formats,
         bytes = BytesOf(Now.start, Least(Now.end, file.readable), format),
         Decoded(bytes, format),
         file.bits = 16 /\ Now.end - Now.start < LongSlice => format = "pcm16"
  PROVE  DecodeInv'
<1> DEFINE new == HashOf(bytes, format)
<1>1. /\ UNCHANGED <<file, slices, slice, tries, rounds>> /\ decodeAt' = "ready"
      /\ hashes' = [hashes EXCEPT ![slice] = @ \cup {new}]
  BY DEF Decoded
<1>2. Opened'
  BY <1>1 DEF Opened
<1>3. FileOK' /\ Places' /\ StreamAt'
  BY <1>1 DEF DecodeInv, FileOK, Places, StreamAt, DecodeAt
<1>4. hashes \in [DOMAIN slices -> SUBSET Hashes] /\ slices = SlicesOf(file)
  BY DEF DecodeInv, SlicesFixed
<1>5. /\ Now.start \in Nat /\ Least(Now.end, file.readable) \in Nat
      /\ file.readable = TotalSamples => Least(Now.end, file.readable) = Now.end
  BY LeastOf
<1>6. new \in Hashes
  <2>1. bytes \subseteq Nat
    BY <1>5 DEF BytesOf, FrameOf
  <2> QED
    BY <2>1 DEF HashOf, Hashes
<1>7. new.bytes = BytesOf(Now.start, Least(Now.end, file.readable), new.format)
  <2>1. CASE bytes # {}
    BY <2>1 DEF HashOf
  <2>2. CASE bytes = {}
    <3>1. new.bytes = {} /\ new.format = "none"
      BY <2>2 DEF HashOf
    <3>2. ~(Now.start < Least(Now.end, file.readable))
      <4>1. Now.start * FrameOf(format) > Least(Now.end, file.readable) * FrameOf(format) - 1
        BY <1>5, <2>2 DEF BytesOf, FrameOf
      <4> QED
        BY <1>5, <4>1 DEF FrameOf
    <3>3. BytesOf(Now.start, Least(Now.end, file.readable), "none") = {}
      BY <1>5, <3>2 DEF BytesOf, FrameOf
    <3> QED
      BY <3>1, <3>3
  <2> QED
    BY <2>1, <2>2
<1>8. file.bits = 16 /\ file.readable = TotalSamples /\ Now.end - Now.start < LongSlice =>
          new = PackedHash(slice)
  BY <1>5 DEF PackedHash, Now
<1> HIDE DEF new
<1>9. \A i \in DOMAIN slices :
         hashes'[i] = IF i = slice THEN hashes[i] \cup {new} ELSE hashes[i]
  BY <1>1, <1>4
<1>10. hashes' \in [DOMAIN slices -> SUBSET Hashes]
  BY <1>1, <1>4, <1>6
<1>11. SlicesFixed'
  BY <1>1, <1>4, <1>10 DEF SlicesFixed
<1>12. OwnBytes'
  <2> SUFFICES ASSUME NEW i \in DOMAIN slices, NEW h \in hashes'[i]
               PROVE  h.bytes = BytesOf(slices[i].start, Least(slices[i].end, file.readable),
                                        h.format)
    BY <1>1 DEF OwnBytes
  <2>1. CASE h \in hashes[i]
    BY <2>1 DEF DecodeInv, OwnBytes
  <2>2. CASE h \notin hashes[i]
    <3>1. i = slice /\ h = new
      BY <1>9, <2>2
    <3> QED
      BY <1>7, <3>1 DEF Now
  <2> QED
    BY <2>1, <2>2
<1>13. OneHash'
  <2> SUFFICES ASSUME file.bits = 16, file.readable = TotalSamples, NEW i \in DOMAIN slices,
                      slices[i].end - slices[i].start < LongSlice
               PROVE  hashes'[i] \subseteq {PackedHash(i)}
    BY <1>1 DEF OneHash, PackedHash
  <2>1. hashes[i] \subseteq {PackedHash(i)}
    BY DEF DecodeInv, OneHash
  <2>2. i = slice => new = PackedHash(i)
    BY <1>8 DEF Now
  <2> QED
    BY <1>9, <2>1, <2>2
<1> QED
  BY <1>3, <1>11, <1>12, <1>13 DEF DecodeInv

LEMMA StepTurns ==
  ASSUME DecodeInv, decodeAt \notin {"opening", "ready"},
         \E there \in {"ready", "failed", "soundfile", "stream"} : Turns(there)
  PROVE  DecodeInv'
<1>1. PICK there \in {"ready", "failed", "soundfile", "stream"} : Turns(there)
  OBVIOUS
<1>2. UNCHANGED <<file, slices, hashes, slice>> /\ decodeAt' = there
  BY <1>1 DEF Turns
<1>3. Places' /\ StreamAt' /\ Opened /\ Opened'
  BY <1>2 DEF DecodeInv, Places, StreamAt, DecodeAt, Opened
<1> QED
  BY <1>2, <1>3, StepQuiet

LEMMA StepAttempted ==
  ASSUME DecodeInv, decodeAt \in {"flac", "stream"}, Attempted
  PROVE  DecodeInv'
<1>1. UNCHANGED <<file, slices, hashes, slice>> /\ decodeAt' \in {"flac", "soundfile"}
  BY DEF Attempted
<1>2. Places' /\ StreamAt' /\ Opened /\ Opened'
  BY <1>1 DEF DecodeInv, Places, StreamAt, DecodeAt, Opened
<1> QED
  BY <1>1, <1>2, StepQuiet

LEMMA StepChoose ==
  ASSUME DecodeInv, Choose
  PROVE  DecodeInv'
<1>1. UNCHANGED <<file, slices, hashes>> /\ Opened /\ Opened'
  BY DEF Choose, Opened
<1>2. PICK i \in DOMAIN slices :
        /\ slice' = i
        /\ decodeAt' = IF slices[i].end - slices[i].start < LongSlice THEN "flac" ELSE "streaming"
  BY DEF Choose
<1>3. Places' /\ StreamAt'
  BY <1>1, <1>2 DEF Places, StreamAt, DecodeAt
<1> QED
  BY <1>1, <1>3, StepQuiet

\* A step of the stream fallback leaves the file and its slices alone.
LEMMA StepStream ==
  ASSUME DecodeInv, NEW here \in {"stream", "skipping", "reading"}, StreamStep(here),
         decodeAt' \in {"skipping", "reading"}, StreamAt'
  PROVE  DecodeInv'
<1>1. UNCHANGED <<file, slices, hashes, slice>> /\ Opened /\ Opened'
  BY DEF StreamStep, Opened
<1>2. Places'
  BY <1>1 DEF DecodeInv, Places, StreamStep, DecodeAt
<1> QED
  BY <1>1, <1>2, StepQuiet

LEMMA StreamNumbers ==
  ASSUME DecodeInv, decodeAt \in {"stream", "skipping", "reading"}
  PROVE  /\ SkipBytes \in Nat /\ TargetBytes \in Nat /\ TargetBytes > 0 /\ StreamBytes \in Nat
         /\ Opened /\ slice \in DOMAIN slices
<1>1. Opened /\ slice \in DOMAIN slices
  BY DEF DecodeInv, Places, Opened
<1>2. /\ Now.start \in Nat /\ Now.end \in Nat /\ Now.start < Now.end
      /\ file.readable \in Nat
  BY <1>1, LeastOf
<1>3. FrameOf(Packed) = 2 \/ FrameOf(Packed) = 3
  BY Formatted
<1> QED
  BY <1>1, <1>2, <1>3 DEF SkipBytes, TargetBytes, StreamBytes

\* The bytes from the first of the slice to its last or the last of the stream.
LEMMA BytesRead ==
  ASSUME DecodeInv, decodeAt = "reading"
  PROVE  SkipBytes..(Least(StreamBytes, LastByte) - 1) =
             BytesOf(Now.start, Least(Now.end, file.readable), Packed)
<1>1. Opened /\ slice \in DOMAIN slices
  BY StreamNumbers
<1>2. Now.start \in Nat /\ Now.end \in Nat /\ file.readable \in Nat
  BY <1>1, LeastOf
<1>3. FrameOf(Packed) = 2 \/ FrameOf(Packed) = 3
  BY Formatted
<1>4. LastByte = Now.end * FrameOf(Packed)
  BY <1>2, <1>3 DEF LastByte, SkipBytes, TargetBytes
<1>5. Least(StreamBytes, LastByte) = Least(Now.end, file.readable) * FrameOf(Packed)
  BY <1>2, <1>3, <1>4 DEF Least, StreamBytes
<1> QED
  BY <1>5 DEF BytesOf, SkipBytes

LEMMA StepReadHeader ==
  ASSUME DecodeInv, ReadHeader
  PROVE  DecodeInv'
<1>1. decodeAt = "stream" /\ StreamStep("stream")
  BY DEF ReadHeader, StreamStep
<1>2. /\ SkipBytes \in Nat /\ TargetBytes \in Nat /\ TargetBytes > 0 /\ StreamBytes \in Nat
  BY <1>1, StreamNumbers
<1>3. Header \in Nat /\ Header <= StreamBytes
  BY <1>2, FlacDecodeAssumption DEF Header, Least
<1>4. UNCHANGED <<SkipBytes, TargetBytes, StreamBytes, LastByte>>
  BY <1>1 DEF StreamStep, SkipBytes, TargetBytes, StreamBytes, LastByte, Now, Packed
<1>5. StreamAt' /\ decodeAt' \in {"skipping", "reading"}
  <2>1. CASE SkipBytes <= Header
    <3> DEFINE take == Least(TargetBytes, Header - SkipBytes)
    <3>1. /\ stream' = [at |-> Header, skip |-> 0, left |-> TargetBytes - take,
                        kept |-> SkipBytes..(SkipBytes + take - 1)]
          /\ decodeAt' = "reading"
      BY <1>2, <1>3, <2>1 DEF ReadHeader
    <3>2. SkipBytes + take = Least(Header, LastByte)
      BY <1>2, <1>3, <2>1 DEF Least, LastByte
    <3>3. TargetBytes - take = IF Header <= SkipBytes THEN TargetBytes
                               ELSE LastByte - Least(Header, LastByte)
      BY <1>2, <1>3, <2>1 DEF Least, LastByte
    <3> HIDE DEF take
    <3>a. /\ stream'.at = Header /\ stream'.left = TargetBytes - take
          /\ stream'.kept = SkipBytes..(SkipBytes + take - 1)
      BY <3>1
    <3>b. DOMAIN stream' = DOMAIN NoStream
      BY <3>1 DEF NoStream
    <3>d. SkipBytes..(SkipBytes + take - 1) = SkipBytes..(Least(Header, LastByte) - 1)
      <4>1. take \in Nat /\ Least(Header, LastByte) \in Nat
        BY <1>2, <1>3, <2>1 DEF take, Least, LastByte
      <4> QED
        BY <1>2, <3>2, <4>1
    <3>4. /\ stream'.at = Header /\ stream'.left = TargetBytes - take
          /\ stream'.kept = SkipBytes..(Least(Header, LastByte) - 1)
          /\ DOMAIN stream' = DOMAIN NoStream
      BY <3>a, <3>b, <3>d, Zenon
    <3> QED
      BY <1>2, <1>3, <1>4, <2>1, <3>1, <3>3, <3>4 DEF StreamAt, Least
  <2>2. CASE SkipBytes > Header
    <3>1. /\ stream' = [at |-> Header, skip |-> SkipBytes - Header, left |-> TargetBytes,
                        kept |-> {}]
          /\ decodeAt' = "skipping"
      BY <1>2, <1>3, <2>2 DEF ReadHeader
    <3> QED
      BY <1>2, <1>3, <1>4, <2>2, <3>1 DEF StreamAt, NoStream
  <2> QED
    BY <1>2, <1>3, <2>1, <2>2
<1> QED
  BY <1>1, <1>5, StepStream

\* A read returns a byte at least, unless nothing is wanted or left.
LEMMA GotOf ==
  ASSUME NEW wanted \in Nat, stream.at \in Nat, StreamBytes \in Nat, stream.at <= StreamBytes
  PROVE  /\ Got(wanted) \in Nat /\ Got(wanted) <= wanted
         /\ stream.at + Got(wanted) <= StreamBytes
         /\ Got(wanted) = 0 => wanted = 0 \/ stream.at = StreamBytes
<1>1. ChunkBytes \in Nat /\ ChunkBytes > 0
  BY FlacDecodeAssumption
<1>2. PICK rest \in Nat : rest = StreamBytes - stream.at
  OBVIOUS
<1>3. Got(wanted) = Least(Least(ChunkBytes, wanted), rest)
  BY <1>2 DEF Got
<1>4. /\ Got(wanted) \in Nat /\ Got(wanted) <= wanted /\ Got(wanted) <= rest
      /\ Got(wanted) = 0 => wanted = 0 \/ rest = 0
  BY <1>1, <1>3 DEF Least
<1> QED
  BY <1>2, <1>4

LEMMA IntervalJoin ==
  ASSUME NEW a \in Int, NEW b \in Int, NEW n \in Nat, a <= b
  PROVE  a..(b - 1) \cup b..(b + n - 1) = a..(b + n - 1)
OBVIOUS

LEMMA StepSkipChunk ==
  ASSUME DecodeInv, SkipChunk
  PROVE  DecodeInv'
<1>1. decodeAt = "skipping" /\ StreamStep("skipping")
  BY DEF SkipChunk, StreamStep
<1>2. /\ SkipBytes \in Nat /\ TargetBytes \in Nat /\ TargetBytes > 0 /\ StreamBytes \in Nat
  BY <1>1, StreamNumbers
<1>3. /\ stream.at \in Nat /\ stream.at <= StreamBytes /\ DOMAIN stream = DOMAIN NoStream
      /\ stream.skip \in Nat /\ stream.at + stream.skip = SkipBytes /\ stream.skip > 0
      /\ stream.left = TargetBytes /\ stream.kept = {}
  BY <1>1 DEF DecodeInv, StreamAt
<1>4. UNCHANGED <<SkipBytes, TargetBytes, StreamBytes, LastByte>>
  BY <1>1 DEF StreamStep, SkipBytes, TargetBytes, StreamBytes, LastByte, Now, Packed
<1>5. PICK n : n = Got(stream.skip)
  OBVIOUS
<1>6. /\ n \in Nat /\ n <= stream.skip /\ stream.at + n <= StreamBytes
      /\ n = 0 => stream.at = StreamBytes
  BY <1>2, <1>3, <1>5, GotOf
<1>7. /\ stream' = [stream EXCEPT !.at = @ + n, !.skip = @ - n]
      /\ decodeAt' = IF n = 0 \/ n = stream.skip THEN "reading" ELSE "skipping"
  BY <1>5 DEF SkipChunk
<1>8. /\ stream'.at = stream.at + n /\ stream'.skip = stream.skip - n
      /\ stream'.left = TargetBytes /\ stream'.kept = {} /\ DOMAIN stream' = DOMAIN NoStream
  BY <1>3, <1>7 DEF NoStream
<1>9. StreamAt'
  <2>1. CASE decodeAt' = "skipping"
    BY <1>2, <1>3, <1>4, <1>6, <1>7, <1>8, <2>1 DEF StreamAt
  <2>2. CASE decodeAt' = "reading"
    <3>1. /\ stream'.at \in Nat /\ stream'.at <= SkipBytes /\ stream'.at <= StreamBytes
          /\ stream'.at < SkipBytes => stream'.at = StreamBytes
      BY <1>2, <1>3, <1>6, <1>7, <1>8, <2>2
    <3>2. SkipBytes..(Least(stream'.at, LastByte) - 1) = {}
      BY <1>2, <3>1 DEF Least, LastByte
    <3> QED
      BY <1>4, <1>8, <2>2, <3>1, <3>2 DEF StreamAt, Least
  <2> QED
    BY <1>7, <2>1, <2>2
<1> QED
  BY <1>1, <1>7, <1>9, StepStream

LEMMA StepReadChunk ==
  ASSUME DecodeInv, ReadChunk
  PROVE  DecodeInv'
<1>1. decodeAt = "reading" /\ StreamStep("reading") /\ stream.left > 0 /\ stream.at < StreamBytes
      /\ UNCHANGED decodeAt
  BY DEF ReadChunk, StreamStep
<1>2. /\ SkipBytes \in Nat /\ TargetBytes \in Nat /\ TargetBytes > 0 /\ StreamBytes \in Nat
  BY <1>1, StreamNumbers
<1>3. /\ stream.at \in Nat /\ DOMAIN stream = DOMAIN NoStream /\ stream.at >= SkipBytes
      /\ stream.kept = SkipBytes..(Least(stream.at, LastByte) - 1)
      /\ stream.left = IF stream.at <= SkipBytes THEN TargetBytes
                       ELSE LastByte - Least(stream.at, LastByte)
  BY <1>1, <1>2 DEF DecodeInv, StreamAt
<1>4. UNCHANGED <<SkipBytes, TargetBytes, StreamBytes, LastByte>>
  BY <1>1 DEF StreamStep, SkipBytes, TargetBytes, StreamBytes, LastByte, Now, Packed
<1>a. LastByte = SkipBytes + TargetBytes
  BY DEF LastByte
<1>b. stream.at < LastByte /\ stream.left = LastByte - stream.at
      /\ stream.kept = SkipBytes..(stream.at - 1)
  BY <1>1, <1>2, <1>3, <1>a DEF Least
<1>5. PICK n : n = Got(stream.left)
  OBVIOUS
<1>6. n \in Nat /\ n <= stream.left /\ stream.at + n <= StreamBytes
  BY <1>1, <1>2, <1>3, <1>5, <1>a, <1>b, GotOf
<1>7. stream' = [stream EXCEPT !.at = @ + n, !.left = @ - n,
                               !.kept = @ \cup stream.at..(stream.at + n - 1)]
  BY <1>5 DEF ReadChunk
<1>8. /\ stream'.at = stream.at + n /\ stream'.left = stream.left - n
      /\ stream'.kept = stream.kept \cup stream.at..(stream.at + n - 1)
      /\ DOMAIN stream' = DOMAIN NoStream
  BY <1>3, <1>7 DEF NoStream
<1>9. stream'.kept = SkipBytes..(stream'.at - 1)
  <2>1. SkipBytes..(stream.at - 1) \cup stream.at..(stream.at + n - 1) =
            SkipBytes..(stream.at + n - 1)
    BY <1>2, <1>3, <1>6, IntervalJoin
  <2>2. stream'.kept = SkipBytes..(stream.at + n - 1)
    BY <1>8, <1>b, <2>1, Zenon
  <2>3. stream'.at = stream.at + n /\ stream'.at \in Nat /\ stream.at + n \in Nat
    BY <1>3, <1>6, <1>8
  <2>4. SkipBytes..(stream.at + n - 1) = SkipBytes..(stream'.at - 1)
    <3>1. SkipBytes \in Nat /\ stream.at \in Nat /\ n \in Nat /\ stream'.at = stream.at + n
      BY <1>2, <1>3, <1>6, <1>8
    <3> QED
      BY <3>1
  <2> QED
    BY <2>2, <2>4, Zenon
<1>10. /\ stream'.at \in Nat /\ stream'.at >= SkipBytes /\ stream'.at <= LastByte
       /\ stream'.at <= StreamBytes /\ stream'.left = LastByte - stream'.at
  BY <1>2, <1>3, <1>6, <1>8, <1>a, <1>b
<1>11. Least(stream'.at, LastByte) = stream'.at
  BY <1>2, <1>10, <1>a DEF Least
<1>12. stream'.left = IF stream'.at <= SkipBytes THEN TargetBytes
                      ELSE LastByte - Least(stream'.at, LastByte)
  BY <1>2, <1>10, <1>11, <1>a
<1>13. StreamAt'
  BY <1>1, <1>2, <1>4, <1>8, <1>9, <1>10, <1>11, <1>12 DEF StreamAt, Least
<1> QED
  BY <1>1, <1>13, StepStream

LEMMA StepStreamEnds ==
  ASSUME DecodeInv, StreamEnds
  PROVE  DecodeInv'
<1>1. /\ decodeAt = "reading" /\ (stream.left = 0 \/ stream.at = StreamBytes)
      /\ Decoded(stream.kept, Packed)
  BY DEF StreamEnds
<1>2. /\ SkipBytes \in Nat /\ TargetBytes \in Nat /\ TargetBytes > 0 /\ StreamBytes \in Nat
      /\ Opened /\ slice \in DOMAIN slices
  BY <1>1, StreamNumbers
<1>3. /\ stream.at \in Nat /\ stream.at <= StreamBytes
      /\ stream.kept = SkipBytes..(Least(stream.at, LastByte) - 1)
      /\ stream.left = IF stream.at <= SkipBytes THEN TargetBytes
                       ELSE LastByte - Least(stream.at, LastByte)
  BY <1>1 DEF DecodeInv, StreamAt
<1>4. Least(stream.at, LastByte) = Least(StreamBytes, LastByte)
  BY <1>1, <1>2, <1>3 DEF Least, LastByte
<1>5. stream.kept = BytesOf(Now.start, Least(Now.end, file.readable), Packed)
  BY <1>1, <1>3, <1>4, BytesRead
<1> QED
  BY <1>1, <1>2, <1>5, StepDecoded, Formatted

LEMMA NextDecodeInv == DecodeInv /\ [DecodeNext]_decodeVars => DecodeInv'
<1> SUFFICES ASSUME DecodeInv, [DecodeNext]_decodeVars PROVE DecodeInv'
  OBVIOUS
<1>0. Places
  BY DEF DecodeInv
<1>a. ASSUME NEW format \in Formats, DecodedThere(format), Opened, slice \in DOMAIN slices,
             file.bits = 16 /\ Now.end - Now.start < LongSlice => format = "pcm16"
      PROVE  DecodeInv'
  BY <1>a, StepDecoded DEF DecodedThere
<1>1. CASE OpenFlac
  BY <1>1, StepOpenFlac
<1>2. CASE Choose
  BY <1>2, StepChoose
<1>3. CASE FlacSucceeds
  BY <1>0, <1>3, <1>a, Formatted DEF FlacSucceeds, Opened, Places
<1>4. CASE FlacFails
  BY <1>4, StepTurns, StepAttempted DEF FlacFails
<1>5. CASE SoundfileSucceeds
  <2>1. CASE file.bits = 16
    BY <1>0, <1>5, <1>a, <2>1 DEF SoundfileSucceeds, Opened, Places, Formats
  <2>2. CASE file.bits # 16
    BY <1>0, <1>5, <1>a, <2>2 DEF SoundfileSucceeds, Opened, Places, Formats
  <2> QED
    BY <2>1, <2>2
<1>6. CASE SoundfileFails
  <2>1. decodeAt \notin {"opening", "ready"} /\ Turns("stream")
    BY <1>6 DEF SoundfileFails
  <2> QED
    BY <2>1, StepTurns
<1>7. CASE ReadHeader \/ SkipChunk \/ ReadChunk \/ StreamEnds
  BY <1>7, StepReadHeader, StepSkipChunk, StepReadChunk, StepStreamEnds
<1>8. CASE StreamFails
  <2>1. decodeAt = "stream" /\ (Attempted \/ Turns("failed"))
    BY <1>8 DEF StreamFails
  <2>2. CASE Attempted
    BY <2>1, <2>2, StepAttempted
  <2>3. CASE Turns("failed")
    BY <2>1, <2>3, StepTurns
  <2> QED
    BY <2>1, <2>2, <2>3
<1>9. CASE LongSucceeds
  <2>1. /\ Opened /\ slice \in DOMAIN slices /\ DecodedThere(Packed)
        /\ ~(Now.end - Now.start < LongSlice)
    BY <1>0, <1>9 DEF LongSucceeds, Opened, Places, Now
  <2> QED
    BY <1>a, <2>1, Formatted
<1>10. CASE LongFallsBack
  <2>1. /\ Opened /\ slice \in DOMAIN slices /\ DecodedThere("float32")
        /\ ~(Now.end - Now.start < LongSlice)
    BY <1>0, <1>10 DEF LongFallsBack, Opened, Places, Now
  <2>2. "float32" \in Formats
    BY DEF Formats
  <2> QED
    BY <1>a, <2>1, <2>2
<1>11. CASE LongFails
  <2>1. decodeAt \notin {"opening", "ready"} /\ Turns("failed")
    BY <1>11 DEF LongFails
  <2> QED
    BY <2>1, StepTurns
<1>12. CASE StartAgain
  <2>1. decodeAt \notin {"opening", "ready"} /\ Turns("ready")
    BY <1>12 DEF StartAgain
  <2> QED
    BY <2>1, StepTurns
<1>13. CASE UNCHANGED decodeVars
  BY <1>13 DEF decodeVars, DecodeInv, FileOK, Places, StreamAt, LastByte, SkipBytes, TargetBytes,
               StreamBytes, Now, Packed, SlicesFixed, OwnBytes, OneHash, PackedHash, Opened
<1> QED
  BY <1>1, <1>2, <1>3, <1>4, <1>5, <1>6, <1>7, <1>8, <1>9, <1>10, <1>11, <1>12, <1>13
  DEF DecodeNext

LEMMA DecodeInvariance == DecodeSpec => []DecodeInv
BY InitDecodeInv, NextDecodeInv, PTL DEF DecodeSpec

\* For any cue sheet, of any length and however its tracks lie: an open file has slices, in
\* the order of their tracks, inside it and not empty; and where the starts ascend each
\* sample after the first of them is in exactly the slice of its track
\* (flac_decode.py:215-243).
THEOREM Partition == DecodeSpec => []SlicesPartitionTheFile
<1>1. DecodeInv => SlicesPartitionTheFile
  <2> SUFFICES ASSUME DecodeInv, Opened PROVE SlicesPartitionTheFile
    BY DEF SlicesPartitionTheFile
  <2> DEFINE tracks == TracksOf(SheetOf(file))
             t == ByTrack(tracks)
  <2>1. slices = SlicesOf(file) /\ FileOK
    BY DEF DecodeInv, SlicesFixed
  <2>2. /\ slices # <<>> /\ tracks \in Seq(Tracks)
        /\ \A i \in DOMAIN slices : slices[i].start < slices[i].end /\ slices[i].end <= TotalSamples
        /\ \A i, j \in DOMAIN slices : i < j => slices[i].track <= slices[j].track
    BY <2>1, SlicesTyped
  <2>3. Cut(tracks) # <<>> => slices = Cut(tracks)
    BY <2>1 DEF SlicesOf
  <2> HIDE DEF tracks
  <2>4. ASSUME Ascending(t), NEW x \in 0..(TotalSamples - 1), NEW k \in DOMAIN t,
               t[k].start <= x, k < Len(t) => x < t[k + 1].start
        PROVE  {s \in Range(slices) : s.start <= x /\ x < s.end} =
                   {[track |-> t[k].track, start |-> t[k].start,
                     end |-> IF k < Len(t) /\ t[k + 1].start < TotalSamples
                             THEN t[k + 1].start ELSE TotalSamples]}
    <3>1. Cut(tracks) # <<>>
          /\ {s \in Range(Cut(tracks)) : s.start <= x /\ x < s.end} = {SliceAt(t, k)}
      BY <2>2, <2>4, SampleInOneSlice
    <3> HIDE DEF t
    <3>2. SliceAt(t, k) = [track |-> t[k].track, start |-> t[k].start,
                           end |-> IF k < Len(t) /\ t[k + 1].start < TotalSamples
                                   THEN t[k + 1].start ELSE TotalSamples]
      BY FlacDecodeAssumption DEF SliceAt, EndOf
    <3> QED
      BY <2>3, <3>1, <3>2
  <2> QED
    BY <2>2, <2>4 DEF SlicesPartitionTheFile, tracks, SheetOf
<1> QED
  BY <1>1, DecodeInvariance, PTL

LEMMA SameInterval ==
  ASSUME NEW a \in Int, NEW b \in Int, NEW c \in Int, NEW d \in Int,
         a <= b - 1, a..(b - 1) = c..(d - 1)
  PROVE  a = c /\ b = d
<1>1. a \in c..(d - 1) /\ b - 1 \in c..(d - 1)
  OBVIOUS
<1>2. c \in a..(b - 1) /\ d - 1 \in a..(b - 1)
  BY <1>1
<1> QED
  BY <1>1, <1>2

\* Whichever decoder read it, at whatever attempt, wherever the file breaks off, and for any
\* sizes of the stream's first buffer and chunks: what was hashed is all that can be read of
\* the slice and nothing else (flac_decode.py:292-398, 433-436, 525-604).
THEOREM OwnSamples == DecodeSpec => []HashIsOfItsSlice
<1>1. DecodeInv => HashIsOfItsSlice
  <2> SUFFICES ASSUME DecodeInv, Opened PROVE HashIsOfItsSlice
    BY DEF HashIsOfItsSlice
  <2>1. ASSUME NEW i \in DOMAIN slices, NEW j \in DOMAIN slices, NEW h,
               h \in hashes[i] \cap hashes[j]
        PROVE  ReadableOf(i) = ReadableOf(j)
    <3>1. PICK a, b, c, d, k : /\ a = slices[i].start /\ b = Least(slices[i].end, file.readable)
                               /\ c = slices[j].start /\ d = Least(slices[j].end, file.readable)
                               /\ k = FrameOf(h.format)
      OBVIOUS
    <3>2. file.readable \in Nat
      <4>1. file.readable \in 0..TotalSamples /\ TotalSamples \in Nat
        BY FlacDecodeAssumption DEF DecodeInv, FileOK
      <4> QED
        BY <4>1
    <3>3. a \in Nat /\ b \in Nat /\ c \in Nat /\ d \in Nat
      BY <3>1, <3>2, SliceFacts DEF Least
    <3>4. k = 2 \/ k = 3 \/ k = 4
      BY <3>1 DEF FrameOf
    <3>5. (a * k)..(b * k - 1) = (c * k)..(d * k - 1)
      BY <2>1, <3>1 DEF DecodeInv, OwnBytes, BytesOf
    <3>6. CASE a < b
      <4>1. /\ a * k \in Int /\ b * k \in Int /\ c * k \in Int /\ d * k \in Int
            /\ a * k <= b * k - 1
        BY <3>3, <3>4, <3>6
      <4>2. a * k = c * k /\ b * k = d * k
        BY <3>5, <4>1, SameInterval
      <4>3. a = c /\ b = d
        BY <3>3, <3>4, <4>2
      <4> QED
        BY <3>1, <4>3 DEF ReadableOf
    <3>7. CASE ~(a < b)
      <4>1. (a * k)..(b * k - 1) = {}
        BY <3>3, <3>4, <3>7
      <4>2. ~(c < d)
        <5> SUFFICES ASSUME c < d PROVE FALSE
          OBVIOUS
        <5>1. c * k \in (c * k)..(d * k - 1)
          BY <3>3, <3>4
        <5> QED
          BY <3>5, <4>1, <5>1
      <4>3. a..(b - 1) = {} /\ c..(d - 1) = {}
        BY <3>3, <3>7, <4>2
      <4> QED
        BY <3>1, <4>3 DEF ReadableOf
    <3> QED
      BY <3>6, <3>7
  <2> QED
    BY <2>1 DEF DecodeInv, OwnBytes, HashIsOfItsSlice
<1> QED
  BY <1>1, DecodeInvariance, PTL

\* However often a short 16-bit slice of a file that can be read is decoded, and by whichever
\* of the three decoders, it has one hash (flac_decode.py:372-398, 432-437).
THEOREM StableHash == DecodeSpec => []HashIsStable
<1>1. DecodeInv => HashIsStable
  <2> SUFFICES ASSUME OneHash, Opened, file.bits = 16, file.readable = TotalSamples,
                      NEW i \in DOMAIN slices, slices[i].end - slices[i].start < LongSlice
               PROVE  Cardinality(hashes[i]) <= 1
    BY DEF DecodeInv, HashIsStable
  <2>1. PICK one : hashes[i] \subseteq {one}
    BY DEF OneHash
  <2>2. hashes[i] = {} \/ hashes[i] = {one}
    BY <2>1
  <2>3. Cardinality({}) = 0 /\ Cardinality({one}) = 1
    BY FS_EmptySet, FS_Singleton
  <2> QED
    BY <2>2, <2>3
<1> QED
  BY <1>1, DecodeInvariance, PTL
=============================================================================
