------------------------------ MODULE Library -------------------------------
(***************************************************************************)
(* The rows of raw.library_flac, and every program that                    *)
(* writes them: ingester.py with the result files it removes, the ingest   *)
(* of the orchestrator against a preflight snapshot, retry_ingest.py with  *)
(* the saved payloads of send_failed.db, the repair of empty records, the  *)
(* HNR migration and the repair of empty tags, which write in batches.     *)
(*                                                                         *)
(* A document is the two halves of the features, each named by the run     *)
(* that made it ("old" and "nap" before and after the HNR migration), and  *)
(* its tags: none, those of the file, or with the schema version too.      *)
(* Predictions and the flat columns are left out.  A process runs once,    *)
(* an ingester again while its result files exist.                         *)
(***************************************************************************)
EXTENDS Naturals, FiniteSets

CONSTANTS
    Audios,             \* audio hashes
    Ingesters,          \* runs of ingester.py, one result each
    Ingests,            \* payloads of the orchestrator's ingest worker
    Replayers,          \* runs of retry_ingest.py
    EmptyFixers,        \* runs of fix_empty_json.py, with the orchestrators it starts
    HnrTools,           \* runs of migrate_hnr.py
    MetaTools,          \* runs of fix_empty_meta.py
    AudioOf,            \* the audio an ingester or a payload is about
    NoDoc,
    LibraryBudget       \* bound: programs that run, and faults, in one behaviour

Batches == HnrTools \cup MetaTools
Programs == Ingesters \cup Ingests \cup Replayers \cup EmptyFixers \cup Batches

Made == Programs \cup {"none", "old", "nap"}
Docs == [mix : Made, demucs : Made, tags : {"none", "tags", "full"}]

ASSUME LibraryAssumption ==
    /\ AudioOf \in [Ingesters \cup Ingests -> Audios]
    /\ NoDoc \notin Docs \cup Audios
    /\ Ingesters \cap Ingests = {}
    /\ (Ingesters \cup Ingests) \cap (Replayers \cup EmptyFixers \cup Batches) = {}
    /\ EmptyFixers \cap (Replayers \cup Batches) = {} /\ Replayers \cap Batches = {}
    /\ Programs \cap {"none", "old", "nap"} = {}
    /\ HnrTools \cap MetaTools = {}
    /\ LibraryBudget \in Nat

VARIABLES
    rows,               \* raw.library_flac: a document or NoDoc for each audio
    stored,             \* history: the documents ever committed of each audio
    dlq,                \* failed_payloads in send_failed.db: a document or NoDoc for each audio
    files,              \* the ingesters whose result files are on disk
    current,            \* the payloads whose preflight snapshot is the row's version
    prog,               \* of each process: where it is, its audio, its document, the rows it read
    pending,            \* the uncommitted updates of a batch, which lock their rows
    faultsLeft          \* errors, lost acknowledgements and crashes still to come

libraryVars ==
    <<rows, stored, dlq, files, current, prog, pending, faultsLeft>>
tables == <<rows, stored, current>>

Old == [mix |-> "old", demucs |-> "old", tags |-> "none"]
Blank == [mix |-> "none", demucs |-> "none", tags |-> "tags"]
Half == [mix |-> "none", demucs |-> "nap", tags |-> "full"]

IsEmpty(doc) == doc.mix = "none" /\ doc.demucs = "none"
RowsWith(P(_)) == {h \in Audios : rows[h] # NoDoc /\ P(rows[h])}
NoRows == [h \in {} |-> NoDoc]
Only(h, doc) == [x \in {h} |-> doc]
With(docs, h, doc) == [x \in DOMAIN docs \cup {h} |-> IF x = h THEN doc ELSE docs[x]]
Without(docs, h) == [x \in DOMAIN docs \ {h} |-> docs[x]]

\* The table begins with rows of earlier versions, or with none; send_failed.db with a payload
\* of an earlier run, or with none.
LibraryInit ==
    /\ rows \in [Audios -> {NoDoc, Old, Blank, Half}]
    /\ stored = [h \in Audios |-> {rows[h]} \ {NoDoc}]
    /\ dlq \in [Audios -> {NoDoc, Old}]
    /\ files = Ingesters
    /\ current = {}
    /\ \E team \in SUBSET Programs :
          /\ Cardinality(team) <= LibraryBudget
          /\ faultsLeft = LibraryBudget - Cardinality(team)
          /\ prog = [a \in Programs |->
                       [pc |-> IF a \in team THEN "start" ELSE "done",
                        at |-> IF a \in DOMAIN AudioOf THEN AudioOf[a] ELSE NoDoc,
                        doc |-> NoDoc, read |-> NoRows]]
    /\ pending = [b \in Batches |-> NoRows]

-----------------------------------------------------------------------------
(* The table *)

\* A row that a batch has updated and not committed makes every other writer wait.
Free(h) == \A b \in Batches : h \notin DOMAIN pending[b]

\* A committed write: a new version of each row, so that no snapshot of it is current.
Write(docs) ==
    /\ rows' = [h \in Audios |-> IF h \in DOMAIN docs THEN docs[h] ELSE rows[h]]
    /\ stored' = [h \in Audios |-> IF h \in DOMAIN docs THEN stored[h] \cup {docs[h]} ELSE stored[h]]
    /\ current' = {o \in current : AudioOf[o] \notin DOMAIN docs}

\* An error comes before the write, or after a commit that is not acknowledged.
MaybeWrite(h, doc) == UNCHANGED tables \/ (Free(h) /\ Write(Only(h, doc)))

LibraryFault ==
    /\ faultsLeft > 0
    /\ faultsLeft' = faultsLeft - 1

Goto(a, pc) == prog' = [prog EXCEPT ![a].pc = pc]

\* On to the next row that was read, if there is one.
Proceed(a, h, pc) ==
    prog' = [prog EXCEPT ![a].read = Without(@, h),
                        ![a].pc = IF DOMAIN prog[a].read = {h} THEN "done" ELSE pc]

-----------------------------------------------------------------------------
(* ingester.py *)

\* A result without features is only warned about, and so are tags that cannot be read.
Load(i) ==
    /\ prog[i].pc = "start" /\ i \in files
    /\ \E made \in {i, "none"}, tags \in {"none", "tags"} :
          prog' = [prog EXCEPT ![i].pc = "send",
                             ![i].doc = [mix |-> made, demucs |-> made, tags |-> tags]]
    /\ UNCHANGED <<tables, dlq, files, pending, faultsLeft>>

Upsert(i) ==
    /\ prog[i].pc = "send" /\ Free(prog[i].at)
    /\ Write(Only(prog[i].at, prog[i].doc))
    /\ Goto(i, "clean")
    /\ UNCHANGED <<dlq, files, pending, faultsLeft>>

UpsertFailsAndCleans(i) ==                         \* mutant: the files go before the save
    /\ prog[i].pc = "send"
    /\ LibraryFault
    /\ MaybeWrite(prog[i].at, prog[i].doc)
    /\ Goto(i, "save")
    /\ files' = files \ {i}
    /\ UNCHANGED <<dlq, pending>>
UpsertFails(i) ==
    /\ prog[i].pc = "send"
    /\ LibraryFault
    /\ MaybeWrite(prog[i].at, prog[i].doc)
    /\ Goto(i, "save")
    /\ UNCHANGED <<dlq, files, pending>>

RemoveResults(i) ==
    /\ prog[i].pc = "clean"
    /\ files' = files \ {i}
    /\ Goto(i, "done")
    /\ UNCHANGED <<tables, dlq, pending, faultsLeft>>

\* The payload replaces whatever is saved of the same audio.
SavePayload(a) ==
    /\ a \in Ingesters \cup Ingests /\ prog[a].pc = "save"
    /\ dlq' = [dlq EXCEPT ![prog[a].at] = prog[a].doc]
    /\ Goto(a, IF a \in Ingesters THEN "clean" ELSE "done")
    /\ UNCHANGED <<tables, files, pending, faultsLeft>>

\* PostgreSQL and send_failed.db both fail: the result files stay.
SaveFails(a) ==
    /\ a \in Ingesters \cup Ingests /\ prog[a].pc = "save"
    /\ LibraryFault
    /\ Goto(a, IF a \in Ingesters THEN "start" ELSE "done")
    /\ UNCHANGED <<tables, dlq, files, pending>>

-----------------------------------------------------------------------------
(* The ingest of the orchestrator *)

\* What is to be analysed: everything when forced, when there is no row, or no version in it.
ToAnalyse(o, force) ==
    LET row == rows[prog[o].at]
    IN  {half \in {"mix", "demucs"} :
            force \/ row = NoDoc \/ row.tags # "full" \/ row[half] = "none"}

\* The snapshot of the row, or that there is none.
SnapshotOf(h) == IF rows[h] = NoDoc THEN NoRows ELSE Only(h, rows[h])

PreflightRow(o) ==
    /\ prog[o].pc = "start"
    /\ \E force \in BOOLEAN :
          LET made(half) == IF half \in ToAnalyse(o, force) THEN o ELSE "none"
          IN  /\ ToAnalyse(o, force) # {}
              /\ prog' = [prog EXCEPT ![o].pc = "send",
                            ![o].doc = [mix |-> made("mix"), demucs |-> made("demucs"), tags |-> "full"],
                            ![o].read = SnapshotOf(prog[o].at)]
    /\ current' = current \cup {o}
    /\ UNCHANGED <<rows, stored, dlq, files, pending, faultsLeft>>

\* An analysed half replaces the row's, the other half and the tags are merged.
MergedRow(o) ==
    LET row == rows[prog[o].at]
        doc == prog[o].doc
    IN  IF row = NoDoc THEN doc
        ELSE [mix    |-> IF doc.mix = "none" THEN row.mix ELSE doc.mix,
              demucs |-> IF doc.demucs = "none" THEN row.demucs ELSE doc.demucs,
              tags   |-> "full"]

IngestWhateverIsThere(o) ==                        \* mutant: the version (xmin) is not compared
    /\ prog[o].pc = "send" /\ Free(prog[o].at)
    /\ Write(Only(prog[o].at, MergedRow(o)))
    /\ Goto(o, "done")
    /\ UNCHANGED <<dlq, files, pending, faultsLeft>>
\* The insert finds no row, the update the version of the snapshot, or it is a conflict.
IngestDirectly(o) ==
    /\ prog[o].pc = "send" /\ Free(prog[o].at)
    /\ \/ o \in current /\ Write(Only(prog[o].at, MergedRow(o)))
       \/ o \notin current /\ UNCHANGED tables
    /\ Goto(o, "done")
    /\ UNCHANGED <<dlq, files, pending, faultsLeft>>

IngestFails(o) ==
    /\ prog[o].pc = "send"
    /\ LibraryFault
    /\ UNCHANGED tables \/ (o \in current /\ MaybeWrite(prog[o].at, MergedRow(o)))
    /\ Goto(o, "save")
    /\ UNCHANGED <<dlq, files, pending>>

-----------------------------------------------------------------------------
(* retry_ingest.py *)

ReadDLQ(r) ==
    /\ prog[r].pc = "start"
    /\ LET saved == {h \in Audios : dlq[h] # NoDoc}
       IN  prog' = [prog EXCEPT ![r].pc = IF saved = {} THEN "done" ELSE "replay",
                              ![r].read = [h \in saved |-> dlq[h]]]
    /\ UNCHANGED <<tables, dlq, files, pending, faultsLeft>>

Resend(r, h) ==
    /\ prog[r].pc = "replay" /\ h \in DOMAIN prog[r].read /\ Free(h)
    /\ Write(Only(h, prog[r].read[h]))
    /\ prog' = [prog EXCEPT ![r].pc = "delete", ![r].at = h]
    /\ UNCHANGED <<dlq, files, pending, faultsLeft>>

\* By audio hash: whatever payload is saved now.
DeleteSent(r) ==
    /\ prog[r].pc = "delete"
    /\ dlq' = [dlq EXCEPT ![prog[r].at] = NoDoc]
    /\ Proceed(r, prog[r].at, "replay")
    /\ UNCHANGED <<tables, files, pending, faultsLeft>>

ResendFails(r, h) ==
    /\ prog[r].pc = "replay" /\ h \in DOMAIN prog[r].read
    /\ LibraryFault
    /\ MaybeWrite(h, prog[r].read[h])
    /\ Proceed(r, h, "replay")
    /\ UNCHANGED <<dlq, files, pending>>

DeleteFails(r) ==
    /\ prog[r].pc = "delete"
    /\ LibraryFault
    /\ Proceed(r, prog[r].at, "replay")
    /\ UNCHANGED <<tables, dlq, files, pending>>

-----------------------------------------------------------------------------
(* fix_empty_json.py, and the orchestrator it starts for each record *)

ListEmpty(f) ==
    /\ prog[f].pc = "start"
    /\ prog' = [prog EXCEPT ![f].pc = IF RowsWith(IsEmpty) = {} THEN "done" ELSE "list",
                          ![f].read = [h \in RowsWith(IsEmpty) |-> rows[h]]]
    /\ UNCHANGED <<tables, dlq, files, pending, faultsLeft>>

\* A record that is healthy by now makes an empty plan, and is only read back.
SelectRepair(f, h) ==
    /\ prog[f].pc = "list" /\ h \in DOMAIN prog[f].read
    /\ prog' = [prog EXCEPT ![f].pc = IF IsEmpty(rows[h]) THEN "repair" ELSE "verify", ![f].at = h]
    /\ UNCHANGED <<tables, dlq, files, pending, faultsLeft>>

Repaired(f) ==
    LET row == rows[prog[f].at]
    IN  [mix |-> f, demucs |-> f, tags |-> IF row.tags = "none" THEN "full" ELSE row.tags]

StillThere(f) == rows[prog[f].at] # NoDoc                 \* mutant: features = '{}' is not asked
StillEmpty(f) == IsEmpty(rows[prog[f].at])

RepairRow(f) ==
    /\ prog[f].pc = "repair" /\ Free(prog[f].at)
    /\ \/ StillEmpty(f) /\ Write(Only(prog[f].at, Repaired(f))) /\ Goto(f, "verify")
       \/ ~StillEmpty(f) /\ UNCHANGED tables /\ Goto(f, "done")
    /\ UNCHANGED <<dlq, files, pending, faultsLeft>>

\* The first failure stops the run: nothing is saved to send_failed.db.
RepairFails(f) ==
    /\ prog[f].pc = "repair"
    /\ LibraryFault
    /\ UNCHANGED tables \/ (StillEmpty(f) /\ MaybeWrite(prog[f].at, Repaired(f)))
    /\ Goto(f, "done")
    /\ UNCHANGED <<dlq, files, pending>>

Verify(f) ==
    /\ prog[f].pc = "verify"
    /\ IF IsEmpty(rows[prog[f].at]) THEN Goto(f, "done") ELSE Proceed(f, prog[f].at, "list")
    /\ UNCHANGED <<tables, dlq, files, pending, faultsLeft>>

-----------------------------------------------------------------------------
(* migrate_hnr.py and fix_empty_meta.py *)

HasOld(doc) == "old" \in {doc.mix, doc.demucs}
HasNoTags(doc) == doc.tags = "none"
Converted(doc) ==
    LET nap(half) == IF half = "old" THEN "nap" ELSE half
    IN  [doc EXCEPT !.mix = nap(@), !.demucs = nap(@)]

\* The documents are converted as they are read.
ReadRows(b) ==
    /\ prog[b].pc = "start"
    /\ prog' = [prog EXCEPT ![b].pc = "batch",
                  ![b].read = IF b \in HnrTools THEN [h \in RowsWith(HasOld) |-> Converted(rows[h])]
                              ELSE [h \in RowsWith(HasNoTags) |-> rows[h]]]
    /\ UNCHANGED <<tables, dlq, files, pending, faultsLeft>>

\* The migration writes the whole features it read, the other tool the tags alone.
UpdateRow(b, h) ==
    /\ prog[b].pc = "batch" /\ h \in DOMAIN prog[b].read
    /\ \A other \in Batches \ {b} : h \notin DOMAIN pending[other]
    /\ pending' = [pending EXCEPT ![b] =
          With(@, h, IF b \in HnrTools THEN [prog[b].read[h] EXCEPT !.tags = rows[h].tags]
                     ELSE [rows[h] EXCEPT !.tags = "tags"])]
    /\ prog' = [prog EXCEPT ![b].read = Without(@, h)]
    /\ UNCHANGED <<tables, dlq, files, faultsLeft>>

\* The file is missing or has no tags.
SkipRow(b, h) ==
    /\ b \in MetaTools /\ prog[b].pc = "batch" /\ h \in DOMAIN prog[b].read
    /\ prog' = [prog EXCEPT ![b].read = Without(@, h)]
    /\ UNCHANGED <<tables, dlq, files, pending, faultsLeft>>

\* After batch_size updates, and at the end.
CommitBatch(b) ==
    /\ prog[b].pc = "batch"
    /\ DOMAIN pending[b] # {} \/ DOMAIN prog[b].read = {}
    /\ Write(pending[b])
    /\ pending' = [pending EXCEPT ![b] = NoRows]
    /\ Goto(b, IF DOMAIN prog[b].read = {} THEN "done" ELSE "batch")
    /\ UNCHANGED <<dlq, files, faultsLeft>>

-----------------------------------------------------------------------------
\* The process ends, or the transaction of a batch fails and is rolled back.
Quits(a) ==
    /\ prog[a].pc \notin {"start", "done"}
    /\ LibraryFault
    /\ Goto(a, IF a \in Ingesters THEN "start" ELSE "done")
    /\ pending' = [b \in Batches |-> IF b = a THEN NoRows ELSE pending[b]]
    /\ UNCHANGED <<tables, dlq, files>>

IngesterStep == \E i \in Ingesters :
    Load(i) \/ Upsert(i) \/ UpsertFails(i) \/ RemoveResults(i)
SaveStep == \E a \in Ingesters \cup Ingests : SavePayload(a) \/ SaveFails(a)
IngestStep == \E o \in Ingests : PreflightRow(o) \/ IngestDirectly(o) \/ IngestFails(o)
ReplayStep == \E r \in Replayers :
    \/ ReadDLQ(r) \/ DeleteSent(r) \/ DeleteFails(r)
    \/ \E h \in Audios : Resend(r, h) \/ ResendFails(r, h)
RepairStep == \E f \in EmptyFixers :
    \/ ListEmpty(f) \/ RepairRow(f) \/ RepairFails(f) \/ Verify(f)
    \/ \E h \in Audios : SelectRepair(f, h)
BatchStep == \E b \in Batches :
    \/ ReadRows(b) \/ CommitBatch(b)
    \/ \E h \in Audios : UpdateRow(b, h) \/ SkipRow(b, h)

LibraryNext ==
    \/ IngesterStep \/ SaveStep \/ IngestStep \/ ReplayStep \/ RepairStep \/ BatchStep
    \/ \E a \in Programs : Quits(a)

LibrarySpec == LibraryInit /\ [][LibraryNext]_libraryVars

-----------------------------------------------------------------------------
\* An ingester that has removed its result files has left a row of the audio in the library,
\* or a payload in send_failed.db, whatever failed, crashed or was replayed since.
ResultsSurvive ==
    \A i \in Ingesters \ files : rows[AudioOf[i]] # NoDoc \/ dlq[AudioOf[i]] # NoDoc

\* An ingest of the orchestrator replaces only the row its preflight decided on, whatever was
\* ingested, replayed, repaired or migrated while the track was analysed, and its merge drops
\* no half of the features that the row held.
SnapshotHolds ==
    [][\A o \in Ingests :
          LET h == AudioOf[o]
          IN  prog'[o] # prog[o] /\ rows'[h] # rows[h] =>
                 IF DOMAIN prog[o].read = {} THEN rows[h] = NoDoc
                 ELSE /\ rows[h] = prog[o].read[h]
                      /\ \A half \in {"mix", "demucs"} :
                            rows'[h][half] = "none" => rows[h][half] = "none"]_libraryVars

\* A repair of an empty record only ever fills it: what another program stored since the
\* record was listed and analysed is not replaced.
RepairsFillGaps ==
    [][\A h \in Audios, f \in EmptyFixers :
          rows'[h] # NoDoc /\ rows'[h].mix = f =>
             rows[h] # NoDoc /\ (rows[h].mix = f \/ IsEmpty(rows[h]))]_libraryVars

\* decisions.md:50: only records that were sent are deleted from send_failed.db.
OnlySentIsDeleted ==
    [][\A h \in Audios :
          dlq[h] # NoDoc /\ dlq'[h] = NoDoc => dlq[h] \in stored[h]]_libraryVars
=============================================================================
