----------------------------- MODULE FlacTagger -----------------------------
(***************************************************************************)
(* The programs that write tags into one FLAC file: flac_tagger.py (one    *)
(* process per track of the file), zig/repair_flac_tags.py and             *)
(* zig/check_tag_consistency.py, which look at the file first and then     *)
(* call the same writer, and zig/migrate_hnr.py, which takes no lock.      *)
(*                                                                         *)
(* The writer locks <file>.tagger.lock, reads the tags again, adds what is *)
(* missing to a copy, and renames the copy over the file; a rename that is *)
(* refused becomes a copy onto the file.  A name of the lock file and the  *)
(* file itself are different things: a process may hold a lock on a file   *)
(* that has been removed.                                                  *)
(***************************************************************************)
EXTENDS Naturals, FiniteSets

CONSTANTS
    Taggers, Repairers, Migrators,  \* processes; a repairer runs either repair tool
    TagKeys,
    TagSets,            \* the sets of tags that a track may come with
    HnrKey,             \* the tag that the migration writes
    Posix,              \* an open file can be removed; FALSE on Windows
    RetryCount,         \* 5 in the code
    MaxTagFaults,       \* bound: failed steps and crashes
    NoTag

Lockers == Taggers \cup Repairers
Writers == Lockers \cup Migrators

ASSUME FlacTaggerAssumption ==
    /\ HnrKey \in TagKeys /\ Posix \in BOOLEAN
    /\ RetryCount \in Nat \ {0} /\ MaxTagFaults \in Nat
    /\ TagSets \subseteq SUBSET TagKeys \ {{}}
    /\ Taggers \cap Repairers = {} /\ Lockers \cap Migrators = {}
    /\ NoTag \notin Writers /\ IsFiniteSet(Writers)

\* The value of a tag is the process that wrote it, or original.
Tags == [TagKeys -> Writers \cup {"original", NoTag}]
Contents == [tags : Tags, whole : BOOLEAN]
NoTags == [k \in TagKeys |-> NoTag]
Nothing == [tags |-> NoTags, whole |-> FALSE]
LockFiles == 1..(Cardinality(Writers) + 1)

VARIABLES
    flac,       \* the file
    temp,       \* temp[p]: the temporary file, or the tags the migration has read
    lockName,   \* the lock file the name stands for, 0 when there is none
    lockFile,   \* lockFile[p]: the one p has open, 0 for none
    locked,     \* processes whose lock is granted
    tagAt,      \* tagAt[p]: where the process is
    wants,      \* wants[p]: the tags argument
    force,      \* force[p]: the force argument
    writes,     \* writes[p]: tags_to_write
    attempt,
    result,     \* result[p]: unknown, ok or failed
    overtaken,  \* history: overtaken[p], who changed the file since p decided what to write
    clobbered,  \* history: the migration has saved tags that were overtaken
    mishap,     \* history: a write in place was broken off, or met another
    tagFaults
lockVars == <<lockName, lockFile, locked>>
argumentVars == <<wants, force>>
historyVars == <<overtaken, clobbered, mishap>>
taggerVars ==
    <<flac, temp, lockVars, tagAt, argumentVars, writes, attempt, result, historyVars, tagFaults>>

TagAt ==
    {"away", "opening", "locking", "deciding", "copying", "saving", "replacing", "moving",
     "unlocking", "removing", "migrating", "rewriting", "done"}
\* From the decision to the end of the write.
Deciding == {"copying", "saving", "replacing", "moving"}
InPlace == {"moving", "rewriting"}

TaggerInit ==
    /\ \E some \in SUBSET TagKeys :
          flac = [tags |-> [k \in TagKeys |-> IF k \in some THEN "original" ELSE NoTag],
                  whole |-> TRUE]
    /\ temp = [p \in Writers |-> Nothing]
    /\ lockName = 0 /\ lockFile = [p \in Writers |-> 0] /\ locked = {}
    /\ tagAt = [p \in Writers |-> "away"]
    /\ wants = [p \in Writers |-> NoTags] /\ force = [p \in Writers |-> FALSE]
    /\ writes = [p \in Writers |-> NoTags] /\ attempt = [p \in Writers |-> 0]
    /\ result = [p \in Writers |-> "unknown"]
    /\ overtaken = [p \in Writers |-> {}] /\ clobbered = FALSE /\ mishap = FALSE
    /\ tagFaults = 0

Moves(p, here, there) == tagAt[p] = here /\ tagAt' = [tagAt EXCEPT ![p] = there]
TagFault == tagFaults < MaxTagFaults /\ tagFaults' = tagFaults + 1
Reports(p, outcome) == result' = [result EXCEPT ![p] = outcome]
KeysOf(tags) == {k \in TagKeys : tags[k] # NoTag}
Of(p, K) == [k \in TagKeys |-> IF k \in K THEN p ELSE NoTag]
Missing(tags) == [k \in TagKeys |-> IF flac.tags[k] = NoTag THEN tags[k] ELSE NoTag]
Overlaid(tags, added) == [k \in TagKeys |-> IF added[k] # NoTag THEN added[k] ELSE tags[k]]
\* p has changed the file: whoever is at work on what it read before is overtaken.
Overtake(p) ==
    overtaken' = [q \in Writers |->
                     IF q # p /\ tagAt[q] \in Deciding \cup {"migrating", "rewriting"}
                     THEN overtaken[q] \cup {p} ELSE {}]

(***************************************************************************)
(* The callers.                                                            *)
(***************************************************************************)
Called(p, tags, forced) ==
    /\ wants' = [wants EXCEPT ![p] = tags] /\ force' = [force EXCEPT ![p] = forced]
    /\ UNCHANGED <<flac, temp, lockVars, writes, attempt, historyVars, tagFaults>>

\* main of flac_tagger.py.  Without a tag to write it fails.
Tag(p) ==
    /\ p \in Taggers
    /\ Moves(p, "away", "opening") /\ UNCHANGED result
    /\ \E K \in TagSets, forced \in BOOLEAN : Called(p, Of(p, K), forced)

\* inspect_and_repair_file_group reads the tags before the lock is taken; its own --force
\* widens what it passes on and is not itself passed on.
Repair(p) ==
    /\ p \in Repairers /\ flac.whole
    /\ \E K \in TagSets, forced \in BOOLEAN :
          LET found == IF forced THEN Of(p, K) ELSE Missing(Of(p, K))
          IN /\ Called(p, found, FALSE)
             /\ \/ KeysOf(found) # {} /\ Moves(p, "away", "opening") /\ UNCHANGED result
                \/ KeysOf(found) = {} /\ Moves(p, "away", "done") /\ Reports(p, "ok")

\* check_file_consistency, and the repair of what it found missing.
Check(p) ==
    /\ p \in Repairers /\ flac.whole
    /\ \E K \in TagSets :
          /\ KeysOf(Missing(Of(p, K))) # {}
          /\ Called(p, Missing(Of(p, K)), FALSE)
    /\ Moves(p, "away", "opening") /\ UNCHANGED result

(***************************************************************************)
(* flac_file_lock.                                                         *)
(***************************************************************************)
LockStep(p) == UNCHANGED <<flac, temp, argumentVars, writes, attempt, historyVars, tagFaults>>

\* O_CREAT: the file of that name, or a new one.
OpenLock(p) ==
    /\ Moves(p, "opening", "locking")
    /\ \/ lockName # 0 /\ lockName' = lockName
       \/ /\ lockName = 0
          /\ lockName' = CHOOSE f \in LockFiles : \A q \in Writers : lockFile[q] # f
    /\ lockFile' = [lockFile EXCEPT ![p] = lockName']
    /\ UNCHANGED <<locked, result>> /\ LockStep(p)

Grantable(p) == \A q \in locked : lockFile[q] # lockFile[p]

\* mutant: the call that locks does not raise
LockAnyway(p) ==
    /\ Moves(p, "locking", "deciding")
    /\ locked' = locked \cup {p}
    /\ UNCHANGED <<lockName, lockFile, result>> /\ LockStep(p)

Lock(p) ==
    /\ Moves(p, "locking", "deciding") /\ Grantable(p)
    /\ locked' = locked \cup {p}
    /\ UNCHANGED <<lockName, lockFile, result>> /\ LockStep(p)

\* The lock is held elsewhere: the file is closed, and opened again after a while, or the
\* 60 s are over and TimeoutError is raised.
LockHeld(p) ==
    /\ ~Grantable(p)
    /\ lockFile' = [lockFile EXCEPT ![p] = 0]
    /\ \/ Moves(p, "locking", "opening") /\ UNCHANGED result
       \/ Moves(p, "locking", "done") /\ Reports(p, "failed")
    /\ UNCHANGED <<lockName, locked>> /\ LockStep(p)

\* The end of the with block: unlock and close, ...
Unlock(p) ==
    /\ Moves(p, "unlocking", "removing")
    /\ locked' = locked \ {p} /\ lockFile' = [lockFile EXCEPT ![p] = 0]
    /\ force' = [force EXCEPT ![p] = FALSE] /\ writes' = [writes EXCEPT ![p] = NoTags]
    /\ attempt' = [attempt EXCEPT ![p] = 0]
    /\ UNCHANGED <<lockName, result, flac, temp, wants, historyVars, tagFaults>>

\* ... and the name is removed, whoever has the file open by now.  Windows refuses that.
RemoveLock(p) ==
    /\ Moves(p, "removing", "done")
    /\ LET open == lockName # 0 /\ \E q \in Writers : lockFile[q] = lockName
       IN \/ (Posix \/ ~open) /\ lockName' = 0
          \/ ~Posix /\ open /\ UNCHANGED lockName
    /\ UNCHANGED <<lockFile, locked, result>> /\ LockStep(p)

(***************************************************************************)
(* write_flac_tags_with_retry, under the lock.                             *)
(***************************************************************************)
WriteStep(p) == UNCHANGED <<lockVars, argumentVars>>

\* The tags are read again and only what is missing is written; all of it with force, or
\* when the file cannot be read.
Decide(p) ==
    /\ LET added == IF force[p] \/ ~flac.whole THEN wants[p] ELSE Missing(wants[p])
       IN /\ writes' = [writes EXCEPT ![p] = added]
          /\ \/ KeysOf(added) = {} /\ Moves(p, "deciding", "unlocking") /\ Reports(p, "ok")
             \/ KeysOf(added) # {} /\ Moves(p, "deciding", "copying") /\ UNCHANGED result
    /\ overtaken' = [overtaken EXCEPT ![p] = {}]
    /\ UNCHANGED <<flac, temp, attempt, clobbered, mishap, tagFaults>> /\ WriteStep(p)

\* Storage Defense: not enough room on the disk.
DiskFull(p) ==
    /\ attempt[p] = 0 /\ Moves(p, "copying", "unlocking") /\ Reports(p, "failed") /\ TagFault
    /\ UNCHANGED <<flac, temp, writes, attempt, historyVars>> /\ WriteStep(p)

CopyToTemp(p) ==
    /\ Moves(p, "copying", "saving")
    /\ attempt' = [attempt EXCEPT ![p] = @ + 1]
    /\ temp' = [temp EXCEPT ![p] = flac]
    /\ UNCHANGED <<flac, writes, result, historyVars, tagFaults>> /\ WriteStep(p)

\* mutant: the tags are saved into the file and not into its copy
SaveDirectly(p) ==
    /\ temp[p].whole /\ Moves(p, "saving", "replacing")
    /\ temp' = [temp EXCEPT ![p].tags = Overlaid(@, writes[p])]
    /\ flac' = [flac EXCEPT !.whole = FALSE]
    /\ UNCHANGED <<writes, attempt, result, historyVars, tagFaults>> /\ WriteStep(p)

SaveTemp(p) ==
    /\ temp[p].whole /\ Moves(p, "saving", "replacing")
    /\ temp' = [temp EXCEPT ![p].tags = Overlaid(@, writes[p])]
    /\ UNCHANGED <<flac, writes, attempt, result, historyVars, tagFaults>> /\ WriteStep(p)

Replace(p) ==
    /\ Moves(p, "replacing", "unlocking") /\ Reports(p, "ok")
    /\ Posix \/ \A q \in Writers : tagAt[q] # "rewriting"
    /\ flac' = temp[p] /\ temp' = [temp EXCEPT ![p] = Nothing]
    /\ Overtake(p)
    /\ UNCHANGED <<writes, attempt, clobbered, mishap, tagFaults>> /\ WriteStep(p)

\* os.replace is refused, for instance because a player has the file open: shutil.move
\* copies onto it.
MoveBegins(p) ==
    /\ Moves(p, "replacing", "moving") /\ TagFault
    /\ flac' = [flac EXCEPT !.whole = FALSE]
    /\ mishap' = (mishap \/ ~flac.whole)
    /\ UNCHANGED <<temp, writes, attempt, result, overtaken, clobbered>> /\ WriteStep(p)

\* What two writers leave who wrote in place together is taken to be broken.
MoveEnds(p) ==
    /\ Moves(p, "moving", "unlocking") /\ Reports(p, "ok")
    /\ flac' = [tags |-> temp[p].tags, whole |-> ~mishap]
    /\ temp' = [temp EXCEPT ![p] = Nothing]
    /\ Overtake(p)
    /\ UNCHANGED <<writes, attempt, clobbered, mishap, tagFaults>> /\ WriteStep(p)

\* mutant: the last failure leaves the loop like a success
AttemptFailsQuietly(p) ==
    /\ tagAt[p] \in {"saving", "replacing", "moving"}
    /\ IF tagAt[p] = "saving" /\ ~temp[p].whole THEN UNCHANGED tagFaults ELSE TagFault
    /\ temp' = [temp EXCEPT ![p] = Nothing]
    /\ mishap' = (mishap \/ tagAt[p] = "moving")
    /\ \/ attempt[p] < RetryCount /\ Moves(p, tagAt[p], "copying") /\ UNCHANGED result
       \/ attempt[p] = RetryCount /\ Moves(p, tagAt[p], "unlocking") /\ Reports(p, "ok")
    /\ UNCHANGED <<flac, writes, attempt, overtaken, clobbered>> /\ WriteStep(p)

\* mutant: the last attempt is not recognised
AttemptFailsOnceMore(p) ==
    /\ tagAt[p] \in {"saving", "replacing", "moving"}
    /\ IF tagAt[p] = "saving" /\ ~temp[p].whole THEN UNCHANGED tagFaults ELSE TagFault
    /\ temp' = [temp EXCEPT ![p] = Nothing]
    /\ mishap' = (mishap \/ tagAt[p] = "moving")
    /\ \/ attempt[p] <= RetryCount /\ Moves(p, tagAt[p], "copying") /\ UNCHANGED result
       \/ attempt[p] > RetryCount /\ Moves(p, tagAt[p], "unlocking") /\ Reports(p, "failed")
    /\ UNCHANGED <<flac, writes, attempt, overtaken, clobbered>> /\ WriteStep(p)

\* Any exception of an attempt, the one of mutagen on a broken copy among them; finally
\* removes the temporary file, even when it is the only whole one.
AttemptFails(p) ==
    /\ tagAt[p] \in {"saving", "replacing", "moving"}
    /\ IF tagAt[p] = "saving" /\ ~temp[p].whole THEN UNCHANGED tagFaults ELSE TagFault
    /\ temp' = [temp EXCEPT ![p] = Nothing]
    /\ mishap' = (mishap \/ tagAt[p] = "moving")
    /\ \/ attempt[p] < RetryCount /\ Moves(p, tagAt[p], "copying") /\ UNCHANGED result
       \/ attempt[p] = RetryCount /\ Moves(p, tagAt[p], "unlocking") /\ Reports(p, "failed")
    /\ UNCHANGED <<flac, writes, attempt, overtaken, clobbered>> /\ WriteStep(p)

(***************************************************************************)
(* update_flac_hnr_tags: read, then save in place, without a lock.         *)
(***************************************************************************)
HnrStep(p) == UNCHANGED <<lockVars, argumentVars, writes, attempt>>

HnrRead(p) ==
    /\ p \in Migrators /\ flac.whole
    /\ Moves(p, "away", "migrating")
    /\ temp' = [temp EXCEPT ![p] = [flac EXCEPT !.tags[HnrKey] = p]]
    /\ overtaken' = [overtaken EXCEPT ![p] = {}]
    /\ UNCHANGED <<flac, result, clobbered, mishap, tagFaults>> /\ HnrStep(p)

HnrSaveBegins(p) ==
    /\ Moves(p, "migrating", "rewriting")
    /\ flac' = [flac EXCEPT !.whole = FALSE]
    /\ mishap' = (mishap \/ ~flac.whole)
    /\ UNCHANGED <<temp, result, overtaken, clobbered, tagFaults>> /\ HnrStep(p)

HnrSaveEnds(p) ==
    /\ Moves(p, "rewriting", "done") /\ Reports(p, "ok")
    /\ flac' = [tags |-> temp[p].tags, whole |-> ~mishap]
    /\ clobbered' = (clobbered \/ overtaken[p] # {})
    /\ Overtake(p)
    /\ temp' = [temp EXCEPT ![p] = Nothing]
    /\ UNCHANGED <<mishap, tagFaults>> /\ HnrStep(p)

\* A process dies: the system closes its files; a temporary file stays behind, unread.
Die(p) ==
    /\ tagAt[p] \notin {"away", "done"} /\ Moves(p, tagAt[p], "done") /\ TagFault
    /\ locked' = locked \ {p} /\ lockFile' = [lockFile EXCEPT ![p] = 0]
    /\ mishap' = (mishap \/ tagAt[p] \in InPlace)
    /\ Reports(p, IF result[p] = "unknown" THEN "failed" ELSE result[p])
    /\ temp' = [temp EXCEPT ![p] = Nothing] /\ writes' = [writes EXCEPT ![p] = NoTags]
    /\ force' = [force EXCEPT ![p] = FALSE] /\ attempt' = [attempt EXCEPT ![p] = 0]
    /\ overtaken' = [overtaken EXCEPT ![p] = {}]
    /\ UNCHANGED <<flac, lockName, wants, clobbered>>

TaggerNext ==
    \E p \in Writers :
        \/ Tag(p) \/ Repair(p) \/ Check(p)
        \/ OpenLock(p) \/ Lock(p) \/ LockHeld(p) \/ Unlock(p) \/ RemoveLock(p)
        \/ Decide(p) \/ DiskFull(p) \/ CopyToTemp(p) \/ SaveTemp(p) \/ Replace(p)
        \/ MoveBegins(p) \/ MoveEnds(p) \/ AttemptFails(p)
        \/ HnrRead(p) \/ HnrSaveBegins(p) \/ HnrSaveEnds(p) \/ Die(p)

TaggerSpec == TaggerInit /\ [][TaggerNext]_taggerVars

(***************************************************************************)
(* Properties.                                                             *)
(***************************************************************************)

\* Types of the writers; an attempt is counted before it is made, and there are at most
\* RetryCount of them (flac_tagger.py:461).
TaggerTypeOK ==
    /\ flac \in Contents /\ temp \in [Writers -> Contents]
    /\ lockName \in LockFiles \cup {0} /\ lockFile \in [Writers -> LockFiles \cup {0}]
    /\ locked \subseteq Lockers /\ tagAt \in [Writers -> TagAt]
    /\ wants \in [Writers -> Tags] /\ force \in [Writers -> BOOLEAN]
    /\ writes \in [Writers -> Tags] /\ attempt \in [Writers -> 0..RetryCount]
    /\ result \in [Writers -> {"unknown", "ok", "failed"}]
    /\ overtaken \in [Writers -> SUBSET Writers]
    /\ clobbered \in BOOLEAN /\ mishap \in BOOLEAN /\ tagFaults \in 0..MaxTagFaults

\* Between the decision what is missing and the end of the write nobody else who takes the
\* lock changes the file: no update of another track's tagger is lost, although the lock
\* file is removed and made again (flac_tagger.py:335-395, whose comment promises this).
NoLostUpdate ==
    \A p \in Lockers : tagAt[p] \in Deciding => overtaken[p] \subseteq Migrators

\* Whoever reports success finds every tag it was asked for in the file, also after failed
\* attempts and after what others wrote since, unless the migration of HNR saved over it or
\* a write in place went wrong (flac_tagger.py:461-504).
SuccessIsWritten ==
    \A p \in Lockers :
        result[p] = "ok" /\ ~clobbered /\ ~mishap => KeysOf(wants[p]) \subseteq KeysOf(flac.tags)

\* A file is broken only while it is written in place, which the rename that was refused
\* and the migration do, or when that went wrong: a crash anywhere else leaves the old file
\* or the new one (flac_tagger.py:470-486).
BrokenInPlaceOnly ==
    ~flac.whole => mishap \/ \E p \in Writers : tagAt[p] \in InPlace
=============================================================================
