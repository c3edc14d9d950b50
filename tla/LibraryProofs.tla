--------------------------- MODULE LibraryProofs ----------------------------
(* The library, for every set of audios, programs and faults: no analysis  *)
(* is lost, an ingest replaces only the row it decided on, and a repair    *)
(* only fills a gap.                                                       *)
EXTENDS Library, TLAPS

(***************************************************************************)
(* The inductive invariant.                                                *)
(***************************************************************************)
Reads == UNION {[S -> Docs] : S \in SUBSET Audios}
Places ==
    {"start", "send", "clean", "save", "replay", "delete", "list", "repair", "verify", "batch", "done"}
Jobs == [pc : Places, at : Audios \cup {NoDoc}, doc : Docs \cup {NoDoc}, read : Reads]

\* The tables, and what is on its way to them, hold documents.
TablesTyped ==
    /\ rows \in [Audios -> Docs \cup {NoDoc}]
    /\ dlq \in [Audios -> Docs \cup {NoDoc}]
    /\ pending \in [Batches -> Reads]
JobsTyped ==
    /\ prog \in [Programs -> Jobs]
    /\ \A a \in Programs : prog[a].pc \in {"send", "save"} => prog[a].doc \in Docs
    /\ \A a \in Programs : prog[a].pc \in {"delete", "repair", "verify"} => prog[a].at \in Audios
    /\ \A a \in Ingesters \cup Ingests : prog[a].at = AudioOf[a]
\* A row never goes, so that what was read still stands.
Standing ==
    /\ \A a \in Programs :
          prog[a].pc \in {"delete", "repair", "verify"} => rows[prog[a].at] # NoDoc
    /\ \A a \in EmptyFixers \cup Batches : \A h \in DOMAIN prog[a].read : rows[h] # NoDoc
Typed == TablesTyped /\ JobsTyped /\ Standing
Grows == \A h \in Audios : rows[h] # NoDoc => rows'[h] # NoDoc

\* The snapshot that is still the version of the row is the row.
Snapshot(o) == IF DOMAIN prog[o].read = {} THEN NoDoc ELSE prog[o].read[AudioOf[o]]
SnapshotInv ==
    \A o \in Ingests :
       /\ DOMAIN prog[o].read \subseteq {AudioOf[o]}
       /\ o \in current => Snapshot(o) = rows[AudioOf[o]]

\* Result files are about to go, or a payload, when the row or the payload is there.
Survives(h) == rows[h] # NoDoc \/ dlq[h] # NoDoc
ResultsInv ==
    /\ files \subseteq Ingesters
    /\ \A i \in Ingesters : i \notin files \/ prog[i].pc = "clean" => Survives(AudioOf[i])

(***************************************************************************)
(* Documents, and the moves of a program.                                  *)
(***************************************************************************)
LEMMA ReadsHoldDocs ==
    ASSUME NEW r \in Reads
    PROVE  DOMAIN r \subseteq Audios /\ \A h \in DOMAIN r : r[h] \in Docs
BY DEF Reads

LEMMA ReadsAre ==
    ASSUME NEW S \in SUBSET Audios, NEW r \in [S -> Docs]
    PROVE  r \in Reads
BY DEF Reads

LEMMA OnlyIsRead ==
    ASSUME NEW h \in Audios, NEW doc \in Docs
    PROVE  /\ Only(h, doc) \in Reads
           /\ DOMAIN Only(h, doc) = {h} /\ Only(h, doc)[h] = doc
<1>1. Only(h, doc) \in [{h} -> Docs]
  BY DEF Only
<1> QED
  BY <1>1, ReadsAre DEF Only

LEMMA WithoutIsRead ==
    ASSUME NEW r \in Reads, NEW h
    PROVE  /\ Without(r, h) \in Reads
           /\ DOMAIN Without(r, h) = DOMAIN r \ {h}
           /\ \A x \in DOMAIN r \ {h} : Without(r, h)[x] = r[x]
<1>1. Without(r, h) \in [DOMAIN r \ {h} -> Docs] /\ DOMAIN r \ {h} \in SUBSET Audios
  BY ReadsHoldDocs DEF Without
<1> QED
  BY <1>1, ReadsAre DEF Without

LEMMA WithIsRead ==
    ASSUME NEW r \in Reads, NEW h \in Audios, NEW doc \in Docs
    PROVE  /\ With(r, h, doc) \in Reads
           /\ DOMAIN With(r, h, doc) = DOMAIN r \cup {h}
           /\ With(r, h, doc)[h] = doc
           /\ \A x \in DOMAIN r \ {h} : With(r, h, doc)[x] = r[x]
<1>1. With(r, h, doc) \in [DOMAIN r \cup {h} -> Docs] /\ DOMAIN r \cup {h} \in SUBSET Audios
  BY ReadsHoldDocs DEF With
<1> QED
  BY <1>1, ReadsAre DEF With

LEMMA NoRowsIsRead == NoRows \in Reads /\ DOMAIN NoRows = {}
<1>1. NoRows \in [{} -> Docs]
  BY DEF NoRows
<1> QED
  BY <1>1, ReadsAre DEF NoRows

\* A write changes the rows it names, and each of them is a document after it.
LEMMA WriteFacts ==
    ASSUME TablesTyped, NEW docs \in Reads, Write(docs)
    PROVE  /\ rows' \in [Audios -> Docs \cup {NoDoc}]
           /\ \A h \in DOMAIN docs : rows'[h] = docs[h]
           /\ \A h \in Audios \ DOMAIN docs : rows'[h] = rows[h]
           /\ \A h \in Audios : rows[h] # NoDoc => rows'[h] # NoDoc
BY ReadsHoldDocs, LibraryAssumption DEF TablesTyped, Write

LEMMA MaybeWriteFacts ==
    ASSUME TablesTyped, NEW h \in Audios, NEW doc \in Docs, MaybeWrite(h, doc)
    PROVE  /\ rows' \in [Audios -> Docs \cup {NoDoc}]
           /\ rows'[h] \in {rows[h], doc} /\ (rows'[h] # rows[h] => Free(h))
           /\ \A x \in Audios \ {h} : rows'[x] = rows[x]
           /\ \A x \in Audios : rows[x] # NoDoc => rows'[x] # NoDoc
           /\ rows' = rows \/ rows'[h] = doc
<1>1. CASE UNCHANGED tables
  BY <1>1 DEF tables, TablesTyped
<1>2. CASE Free(h) /\ Write(Only(h, doc))
  <2>1. /\ Only(h, doc) \in Reads /\ DOMAIN Only(h, doc) = {h} /\ Only(h, doc)[h] = doc
        /\ Write(Only(h, doc)) /\ Free(h)
    BY <1>2, OnlyIsRead
  <2>2. /\ rows' \in [Audios -> Docs \cup {NoDoc}]
        /\ \A x \in {h} : rows'[x] = Only(h, doc)[x]
        /\ \A x \in Audios \ {h} : rows'[x] = rows[x]
        /\ \A x \in Audios : rows[x] # NoDoc => rows'[x] # NoDoc
    BY <2>1, WriteFacts
  <2>3. rows'[h] = doc
    BY <2>1, <2>2
  <2> QED
    BY <2>1, <2>2, <2>3
<1> QED
  BY <1>1, <1>2 DEF MaybeWrite

LEMMA GotoFacts ==
    ASSUME prog \in [Programs -> Jobs], NEW a \in Programs, NEW pc \in Places, Goto(a, pc)
    PROVE  /\ prog' \in [Programs -> Jobs]
           /\ prog'[a].pc = pc
           /\ \A x \in Programs : /\ prog'[x].at = prog[x].at /\ prog'[x].doc = prog[x].doc
                                  /\ prog'[x].read = prog[x].read
           /\ \A x \in Programs \ {a} : prog'[x] = prog[x]
BY DEF Goto, Jobs

LEMMA ProceedFacts ==
    ASSUME prog \in [Programs -> Jobs], NEW a \in Programs, NEW pc \in Places, NEW h, Proceed(a, h, pc)
    PROVE  /\ prog' \in [Programs -> Jobs]
           /\ prog'[a].pc \in {pc, "done"}
           /\ \A x \in Programs : prog'[x].at = prog[x].at /\ prog'[x].doc = prog[x].doc
           /\ DOMAIN prog'[a].read = DOMAIN prog[a].read \ {h}
           /\ \A x \in Programs \ {a} : prog'[x] = prog[x]
<1>1. /\ prog[a] \in Jobs /\ Without(prog[a].read, h) \in Reads
      /\ DOMAIN Without(prog[a].read, h) = DOMAIN prog[a].read \ {h}
  BY WithoutIsRead DEF Jobs
<1>2. "done" \in Places
  BY DEF Places
<1> QED
  BY <1>1, <1>2 DEF Proceed, Jobs

(***************************************************************************)
(* Every action keeps the types.                                           *)
(***************************************************************************)
LEMMA RoleFacts ==
    /\ Ingesters \subseteq Programs /\ Ingests \subseteq Programs
    /\ Replayers \subseteq Programs /\ EmptyFixers \subseteq Programs /\ Batches \subseteq Programs
    /\ \A a \in Ingesters \cup Ingests : AudioOf[a] \in Audios
    /\ (Ingesters \cup Ingests) \cap (Replayers \cup EmptyFixers \cup Batches) = {}
    /\ EmptyFixers \cap (Replayers \cup Batches) = {} /\ Replayers \cap Batches = {}
BY LibraryAssumption DEF Programs

LEMMA DocFacts ==
    /\ Old \in Docs /\ Blank \in Docs /\ Half \in Docs
    /\ \A doc \in Docs, tags \in {"none", "tags", "full"} : [doc EXCEPT !.tags = tags] \in Docs
    /\ \A doc \in Docs : Converted(doc) \in Docs
    /\ \A mix, demucs \in Made, tags \in {"none", "tags", "full"} :
          [mix |-> mix, demucs |-> demucs, tags |-> tags] \in Docs
BY DEF Old, Blank, Half, Docs, Made, Converted

\* What stood for the other programs stands after a step of one.
LEMMA OthersStand ==
    ASSUME Typed, Grows, NEW a \in Programs,
           \A x \in Programs \ {a} : prog'[x] = prog[x],
           prog'[a].pc \in {"delete", "repair", "verify"} => rows'[prog'[a].at] # NoDoc,
           a \in EmptyFixers \cup Batches => \A h \in DOMAIN prog'[a].read : rows'[h] # NoDoc
    PROVE  Standing'
<1>1. ASSUME NEW x \in Programs, prog'[x].pc \in {"delete", "repair", "verify"}
      PROVE  rows'[prog'[x].at] # NoDoc
  BY <1>1 DEF Typed, JobsTyped, Standing, Grows
<1>2. ASSUME NEW x \in EmptyFixers \cup Batches, NEW h \in DOMAIN prog'[x].read
      PROVE  rows'[h] # NoDoc
  <2>1. CASE x = a
    BY <1>2, <2>1
  <2>2. CASE x # a
    <3>1. prog[x] \in Jobs /\ prog'[x] = prog[x]
      BY <1>2, <2>2, RoleFacts DEF Typed, JobsTyped
    <3>2. h \in Audios
      BY <1>2, <3>1, ReadsHoldDocs DEF Jobs
    <3> QED
      BY <1>2, <3>1, <3>2 DEF Typed, Standing, Grows
  <2> QED
    BY <2>1, <2>2
<1> QED
  BY <1>1, <1>2 DEF Standing

\* What a program has read is of audios there are.
LEMMA ReadsOfAudios ==
    ASSUME Typed, NEW a \in Programs
    PROVE  prog[a].read \in Reads /\ DOMAIN prog[a].read \subseteq Audios
BY ReadsHoldDocs DEF Typed, JobsTyped, Jobs

LEMMA TypedInit == LibraryInit => Typed
<1> SUFFICES ASSUME LibraryInit PROVE Typed
  OBVIOUS
<1>1. TablesTyped
  BY DocFacts, NoRowsIsRead DEF LibraryInit, TablesTyped
<1>2. JobsTyped
  <2>1. PICK team \in SUBSET Programs :
           prog = [a \in Programs |->
                     [pc |-> IF a \in team THEN "start" ELSE "done",
                      at |-> IF a \in DOMAIN AudioOf THEN AudioOf[a] ELSE NoDoc,
                      doc |-> NoDoc, read |-> NoRows]]
    BY DEF LibraryInit
  <2>2. DOMAIN AudioOf = Ingesters \cup Ingests
    BY LibraryAssumption
  <2> QED
    BY <2>1, <2>2, NoRowsIsRead, RoleFacts DEF JobsTyped, Jobs, Places
<1>3. Standing
  <2>1. PICK team \in SUBSET Programs :
           prog = [a \in Programs |->
                     [pc |-> IF a \in team THEN "start" ELSE "done",
                      at |-> IF a \in DOMAIN AudioOf THEN AudioOf[a] ELSE NoDoc,
                      doc |-> NoDoc, read |-> NoRows]]
    BY DEF LibraryInit
  <2> QED
    BY <2>1, NoRowsIsRead, RoleFacts DEF Standing
<1> QED
  BY <1>1, <1>2, <1>3 DEF Typed

LEMMA LoadTyped ==
    ASSUME Typed, NEW i \in Ingesters, Load(i)
    PROVE  Typed'
<1>a. \A made \in {i, "none"}, tags \in {"none", "tags"} : [mix |-> made, demucs |-> made, tags |-> tags] \in Docs
  BY RoleFacts, DocFacts DEF Made
<1>m. /\ prog' \in [Programs -> Jobs]
      /\ prog'[i].pc = "send" /\ prog'[i].doc \in Docs
      /\ prog'[i].at = prog[i].at /\ prog'[i].read = prog[i].read
      /\ \A x \in Programs \ {i} : prog'[x] = prog[x]
  BY RoleFacts, <1>a DEF Load, Typed, TablesTyped, JobsTyped, Jobs, Places
<1>1. TablesTyped' /\ Grows
  BY DEF Load, tables, Typed, TablesTyped, Grows
<1>2. JobsTyped'
  BY <1>m, RoleFacts DEF Load, Typed, JobsTyped, Jobs, Places
<1>3. Standing'
  BY <1>1, <1>m, RoleFacts, ReadsHoldDocs DEF Load, Typed, JobsTyped, TablesTyped, Standing,
     Grows, Jobs, Places
<1> QED
  BY <1>1, <1>2, <1>3 DEF Typed

LEMMA UpsertTyped ==
    ASSUME Typed, NEW i \in Ingesters, Upsert(i)
    PROVE  Typed'
<1>a. prog[i].doc \in Docs /\ prog[i].at \in Audios
  BY RoleFacts DEF Upsert, Typed, JobsTyped
<1>m. /\ prog' \in [Programs -> Jobs] /\ prog'[i].pc \in {"clean"}
      /\ \A x \in Programs : /\ prog'[x].at = prog[x].at /\ prog'[x].doc = prog[x].doc
                             /\ prog'[x].read = prog[x].read
      /\ \A x \in Programs \ {i} : prog'[x] = prog[x]
  BY GotoFacts, RoleFacts DEF Upsert, Typed, JobsTyped, Places
<1>1. TablesTyped' /\ Grows
  <2>1. Only(prog[i].at, prog[i].doc) \in Reads
    BY <1>a, OnlyIsRead
  <2> QED
    BY <2>1, WriteFacts DEF Upsert, tables, Typed, TablesTyped, Grows
<1>2. JobsTyped'
  BY <1>m, RoleFacts DEF Upsert, Typed, JobsTyped, Jobs, Places
<1>3. Standing'
  BY <1>1, <1>m, RoleFacts, ReadsHoldDocs DEF Upsert, Typed, JobsTyped, TablesTyped, Standing,
     Grows, Jobs, Places
<1> QED
  BY <1>1, <1>2, <1>3 DEF Typed

LEMMA UpsertFailsTyped ==
    ASSUME Typed, NEW i \in Ingesters, UpsertFails(i)
    PROVE  Typed'
<1>a. prog[i].doc \in Docs /\ prog[i].at \in Audios
  BY RoleFacts DEF UpsertFails, Typed, JobsTyped
<1>m. /\ prog' \in [Programs -> Jobs] /\ prog'[i].pc \in {"save"}
      /\ \A x \in Programs : /\ prog'[x].at = prog[x].at /\ prog'[x].doc = prog[x].doc
                             /\ prog'[x].read = prog[x].read
      /\ \A x \in Programs \ {i} : prog'[x] = prog[x]
  BY GotoFacts, RoleFacts DEF UpsertFails, Typed, JobsTyped, Places
<1>1. TablesTyped' /\ Grows
  BY <1>a, MaybeWriteFacts DEF UpsertFails, tables, Typed, TablesTyped, Grows
<1>2. JobsTyped'
  BY <1>m, RoleFacts DEF UpsertFails, Typed, JobsTyped, Jobs, Places
<1>3. Standing'
  BY <1>1, <1>m, RoleFacts, ReadsHoldDocs DEF UpsertFails, Typed, JobsTyped, TablesTyped,
     Standing, Grows, Jobs, Places
<1> QED
  BY <1>1, <1>2, <1>3 DEF Typed

LEMMA RemoveResultsTyped ==
    ASSUME Typed, NEW i \in Ingesters, RemoveResults(i)
    PROVE  Typed'
<1>m. /\ prog' \in [Programs -> Jobs] /\ prog'[i].pc \in {"done"}
      /\ \A x \in Programs : /\ prog'[x].at = prog[x].at /\ prog'[x].doc = prog[x].doc
                             /\ prog'[x].read = prog[x].read
      /\ \A x \in Programs \ {i} : prog'[x] = prog[x]
  BY GotoFacts, RoleFacts DEF RemoveResults, Typed, JobsTyped, Places
<1>1. TablesTyped' /\ Grows
  BY DEF RemoveResults, tables, Typed, TablesTyped, Grows
<1>2. JobsTyped'
  BY <1>m, RoleFacts DEF RemoveResults, Typed, JobsTyped, Jobs, Places
<1>3. Standing'
  BY <1>1, <1>m, RoleFacts, ReadsHoldDocs DEF RemoveResults, Typed, JobsTyped, TablesTyped,
     Standing, Grows, Jobs, Places
<1> QED
  BY <1>1, <1>2, <1>3 DEF Typed

LEMMA SavePayloadTyped ==
    ASSUME Typed, NEW a \in Ingesters \cup Ingests, SavePayload(a)
    PROVE  Typed'
<1>a. prog[a].doc \in Docs /\ prog[a].at \in Audios
  BY RoleFacts DEF SavePayload, Typed, JobsTyped
<1>m. /\ prog' \in [Programs -> Jobs] /\ prog'[a].pc \in {"clean", "done"}
      /\ \A x \in Programs : /\ prog'[x].at = prog[x].at /\ prog'[x].doc = prog[x].doc
                             /\ prog'[x].read = prog[x].read
      /\ \A x \in Programs \ {a} : prog'[x] = prog[x]
  BY GotoFacts, RoleFacts DEF SavePayload, Typed, JobsTyped, Places
<1>1. TablesTyped' /\ Grows
  BY <1>a DEF SavePayload, tables, Typed, TablesTyped, Grows
<1>2. JobsTyped'
  BY <1>m, RoleFacts DEF SavePayload, Typed, JobsTyped, Jobs, Places
<1>3. Standing'
  BY <1>1, <1>m, RoleFacts, ReadsHoldDocs DEF SavePayload, Typed, JobsTyped, TablesTyped,
     Standing, Grows, Jobs, Places
<1> QED
  BY <1>1, <1>2, <1>3 DEF Typed

LEMMA SaveFailsTyped ==
    ASSUME Typed, NEW a \in Ingesters \cup Ingests, SaveFails(a)
    PROVE  Typed'
<1>m. /\ prog' \in [Programs -> Jobs] /\ prog'[a].pc \in {"start", "done"}
      /\ \A x \in Programs : /\ prog'[x].at = prog[x].at /\ prog'[x].doc = prog[x].doc
                             /\ prog'[x].read = prog[x].read
      /\ \A x \in Programs \ {a} : prog'[x] = prog[x]
  BY GotoFacts, RoleFacts DEF SaveFails, Typed, JobsTyped, Places
<1>1. TablesTyped' /\ Grows
  BY DEF SaveFails, tables, Typed, TablesTyped, Grows
<1>2. JobsTyped'
  BY <1>m, RoleFacts DEF SaveFails, Typed, JobsTyped, Jobs, Places
<1>3. Standing'
  BY <1>1, <1>m, RoleFacts, ReadsHoldDocs DEF SaveFails, Typed, JobsTyped, TablesTyped,
     Standing, Grows, Jobs, Places
<1> QED
  BY <1>1, <1>2, <1>3 DEF Typed

LEMMA PreflightRowTyped ==
    ASSUME Typed, NEW o \in Ingests, PreflightRow(o)
    PROVE  Typed'
<1>a. \A mix, demucs \in {o, "none"} : [mix |-> mix, demucs |-> demucs, tags |-> "full"] \in Docs
  BY RoleFacts, DocFacts DEF Made
<1>b. SnapshotOf(prog[o].at) \in Reads
  <2>1. prog[o].at \in Audios /\ rows[prog[o].at] \in Docs \cup {NoDoc}
    BY RoleFacts DEF Typed, TablesTyped, JobsTyped
  <2>2. rows[prog[o].at] # NoDoc => Only(prog[o].at, rows[prog[o].at]) \in Reads
    BY <2>1, OnlyIsRead
  <2> QED
    BY <2>2, NoRowsIsRead DEF SnapshotOf
<1>m. /\ prog' \in [Programs -> Jobs]
      /\ prog'[o].pc = "send" /\ prog'[o].doc \in Docs
      /\ prog'[o].at = prog[o].at
      /\ \A x \in Programs \ {o} : prog'[x] = prog[x]
  BY RoleFacts, <1>a, <1>b DEF PreflightRow, Typed, TablesTyped, JobsTyped, Jobs, Places
<1>1. TablesTyped' /\ Grows
  BY DEF PreflightRow, tables, Typed, TablesTyped, Grows
<1>2. JobsTyped'
  BY <1>m, RoleFacts DEF PreflightRow, Typed, JobsTyped, Jobs, Places
<1>3. Standing'
  BY <1>1, <1>m, RoleFacts, ReadsHoldDocs DEF PreflightRow, Typed, JobsTyped, TablesTyped,
     Standing, Grows, Jobs, Places
<1> QED
  BY <1>1, <1>2, <1>3 DEF Typed

LEMMA IngestDirectlyTyped ==
    ASSUME Typed, NEW o \in Ingests, IngestDirectly(o)
    PROVE  Typed'
<1>a. MergedRow(o) \in Docs /\ prog[o].at \in Audios
  BY RoleFacts, DocFacts DEF IngestDirectly, MergedRow, Typed, TablesTyped, JobsTyped, Docs
<1>m. /\ prog' \in [Programs -> Jobs] /\ prog'[o].pc \in {"done"}
      /\ \A x \in Programs : /\ prog'[x].at = prog[x].at /\ prog'[x].doc = prog[x].doc
                             /\ prog'[x].read = prog[x].read
      /\ \A x \in Programs \ {o} : prog'[x] = prog[x]
  BY GotoFacts, RoleFacts DEF IngestDirectly, Typed, JobsTyped, Places
<1>1. TablesTyped' /\ Grows
  <2>1. Only(prog[o].at, MergedRow(o)) \in Reads
    BY <1>a, OnlyIsRead
  <2> QED
    BY <2>1, WriteFacts DEF IngestDirectly, tables, Typed, TablesTyped, Grows
<1>2. JobsTyped'
  BY <1>m, RoleFacts DEF IngestDirectly, Typed, JobsTyped, Jobs, Places
<1>3. Standing'
  BY <1>1, <1>m, RoleFacts, ReadsHoldDocs DEF IngestDirectly, Typed, JobsTyped, TablesTyped,
     Standing, Grows, Jobs, Places
<1> QED
  BY <1>1, <1>2, <1>3 DEF Typed

LEMMA IngestFailsTyped ==
    ASSUME Typed, NEW o \in Ingests, IngestFails(o)
    PROVE  Typed'
<1>a. MergedRow(o) \in Docs /\ prog[o].at \in Audios
  BY RoleFacts, DocFacts DEF IngestFails, MergedRow, Typed, TablesTyped, JobsTyped, Docs
<1>m. /\ prog' \in [Programs -> Jobs] /\ prog'[o].pc \in {"save"}
      /\ \A x \in Programs : /\ prog'[x].at = prog[x].at /\ prog'[x].doc = prog[x].doc
                             /\ prog'[x].read = prog[x].read
      /\ \A x \in Programs \ {o} : prog'[x] = prog[x]
  BY GotoFacts, RoleFacts DEF IngestFails, Typed, JobsTyped, Places
<1>1. TablesTyped' /\ Grows
  BY <1>a, MaybeWriteFacts DEF IngestFails, tables, Typed, TablesTyped, Grows
<1>2. JobsTyped'
  BY <1>m, RoleFacts DEF IngestFails, Typed, JobsTyped, Jobs, Places
<1>3. Standing'
  BY <1>1, <1>m, RoleFacts, ReadsHoldDocs DEF IngestFails, Typed, JobsTyped, TablesTyped,
     Standing, Grows, Jobs, Places
<1> QED
  BY <1>1, <1>2, <1>3 DEF Typed

LEMMA ReadDLQTyped ==
    ASSUME Typed, NEW r \in Replayers, ReadDLQ(r)
    PROVE  Typed'
<1>a. [h \in {x \in Audios : dlq[x] # NoDoc} |-> dlq[h]] \in Reads
  <2>1. [h \in {x \in Audios : dlq[x] # NoDoc} |-> dlq[h]] \in [{x \in Audios : dlq[x] # NoDoc} -> Docs]
    BY DEF Typed, TablesTyped
  <2> QED
    BY <2>1, ReadsAre
<1>m. /\ prog' \in [Programs -> Jobs]
      /\ prog'[r].pc \in {"replay", "done"} /\ prog'[r].at = prog[r].at
      /\ \A x \in Programs \ {r} : prog'[x] = prog[x]
  <2>1. PICK pc \in {"replay", "done"}, read \in Reads :
           prog' = [prog EXCEPT ![r].pc = pc, ![r].read = read]
    BY <1>a DEF ReadDLQ
  <2>2. prog \in [Programs -> Jobs] /\ r \in Programs /\ prog[r] \in Jobs /\ pc \in Places
    BY <2>1, RoleFacts DEF Typed, JobsTyped, Places
  <2>3. [prog[r] EXCEPT !.pc = pc, !.read = read] \in Jobs
    BY <2>1, <2>2 DEF Jobs
  <2>4. prog' = [prog EXCEPT ![r] = [prog[r] EXCEPT !.pc = pc, !.read = read]]
    BY <2>1, <2>2
  <2> QED
    BY <2>1, <2>2, <2>3, <2>4 DEF Jobs
<1>1. TablesTyped' /\ Grows
  BY DEF ReadDLQ, tables, Typed, TablesTyped, Grows
<1>2. JobsTyped'
  BY <1>m, RoleFacts DEF ReadDLQ, Typed, JobsTyped, Jobs, Places
<1>3. Standing'
  BY <1>1, <1>m, RoleFacts, ReadsHoldDocs DEF ReadDLQ, Typed, JobsTyped, TablesTyped, Standing,
     Grows, Jobs, Places
<1> QED
  BY <1>1, <1>2, <1>3 DEF Typed

LEMMA DeleteSentTyped ==
    ASSUME Typed, NEW r \in Replayers, DeleteSent(r)
    PROVE  Typed'
<1>a. prog[r].at \in Audios
  BY RoleFacts DEF DeleteSent, Typed, JobsTyped
<1>m. /\ prog' \in [Programs -> Jobs] /\ prog'[r].pc \in {"replay", "done"}
      /\ \A x \in Programs : prog'[x].at = prog[x].at /\ prog'[x].doc = prog[x].doc
      /\ DOMAIN prog'[r].read = DOMAIN prog[r].read \ {prog[r].at}
      /\ \A x \in Programs \ {r} : prog'[x] = prog[x]
  <2>1. "replay" \in Places
    BY DEF Places
  <2>2. Proceed(r, prog[r].at, "replay")
    BY DEF DeleteSent
  <2> QED
    BY <2>1, <2>2, ProceedFacts, RoleFacts DEF Typed, JobsTyped
<1>1. TablesTyped' /\ Grows
  BY <1>a DEF DeleteSent, tables, Typed, TablesTyped, Grows
<1>2. JobsTyped'
  BY <1>m, RoleFacts DEF DeleteSent, Typed, JobsTyped, Jobs, Places
<1>3. Standing'
  <2>1. r \in Programs /\ r \notin EmptyFixers \cup Batches
    BY RoleFacts
  <2> QED
    BY <1>1, <1>m, <2>1, OthersStand
<1> QED
  BY <1>1, <1>2, <1>3 DEF Typed

LEMMA DeleteFailsTyped ==
    ASSUME Typed, NEW r \in Replayers, DeleteFails(r)
    PROVE  Typed'
<1>m. /\ prog' \in [Programs -> Jobs] /\ prog'[r].pc \in {"replay", "done"}
      /\ \A x \in Programs : prog'[x].at = prog[x].at /\ prog'[x].doc = prog[x].doc
      /\ DOMAIN prog'[r].read = DOMAIN prog[r].read \ {prog[r].at}
      /\ \A x \in Programs \ {r} : prog'[x] = prog[x]
  <2>1. "replay" \in Places
    BY DEF Places
  <2>2. Proceed(r, prog[r].at, "replay")
    BY DEF DeleteFails
  <2> QED
    BY <2>1, <2>2, ProceedFacts, RoleFacts DEF Typed, JobsTyped
<1>1. TablesTyped' /\ Grows
  BY DEF DeleteFails, tables, Typed, TablesTyped, Grows
<1>2. JobsTyped'
  BY <1>m, RoleFacts DEF DeleteFails, Typed, JobsTyped, Jobs, Places
<1>3. Standing'
  <2>1. r \in Programs /\ r \notin EmptyFixers \cup Batches
    BY RoleFacts
  <2> QED
    BY <1>1, <1>m, <2>1, OthersStand
<1> QED
  BY <1>1, <1>2, <1>3 DEF Typed

LEMMA ResendTyped ==
    ASSUME Typed, NEW r \in Replayers, NEW h \in Audios, Resend(r, h)
    PROVE  Typed'
<1>a. prog[r].read[h] \in Docs /\ h \in Audios
  BY RoleFacts, ReadsHoldDocs DEF Resend, Typed, JobsTyped, Jobs
<1>m. /\ prog' \in [Programs -> Jobs]
      /\ prog'[r].pc = "delete" /\ prog'[r].at = h /\ prog'[r].read = prog[r].read
      /\ \A x \in Programs \ {r} : prog'[x] = prog[x]
  BY RoleFacts, <1>a DEF Resend, Typed, TablesTyped, JobsTyped, Jobs, Places
<1>1. TablesTyped' /\ Grows
  <2>1. Only(h, prog[r].read[h]) \in Reads
    BY <1>a, OnlyIsRead
  <2> QED
    BY <2>1, WriteFacts DEF Resend, tables, Typed, TablesTyped, Grows
<1>2. JobsTyped'
  BY <1>m, RoleFacts DEF Resend, Typed, JobsTyped, Jobs, Places
<1>3. Standing'
  <2>1. Only(h, prog[r].read[h]) \in Reads /\ DOMAIN Only(h, prog[r].read[h]) = {h}
        /\ Only(h, prog[r].read[h])[h] \in Docs
    BY <1>a, OnlyIsRead
  <2>2. rows'[h] # NoDoc
    BY <2>1, WriteFacts, LibraryAssumption DEF Resend, Typed
  <2> QED
    BY <1>1, <1>m, <2>2, RoleFacts, ReadsHoldDocs DEF Resend, Typed, JobsTyped, TablesTyped,
       Standing, Grows, Jobs, Places
<1> QED
  BY <1>1, <1>2, <1>3 DEF Typed

LEMMA ResendFailsTyped ==
    ASSUME Typed, NEW r \in Replayers, NEW h \in Audios, ResendFails(r, h)
    PROVE  Typed'
<1>a. prog[r].read[h] \in Docs /\ h \in Audios
  BY RoleFacts, ReadsHoldDocs DEF ResendFails, Typed, JobsTyped, Jobs
<1>m. /\ prog' \in [Programs -> Jobs] /\ prog'[r].pc \in {"replay", "done"}
      /\ \A x \in Programs : prog'[x].at = prog[x].at /\ prog'[x].doc = prog[x].doc
      /\ DOMAIN prog'[r].read = DOMAIN prog[r].read \ {h}
      /\ \A x \in Programs \ {r} : prog'[x] = prog[x]
  <2>1. "replay" \in Places
    BY DEF Places
  <2>2. Proceed(r, h, "replay")
    BY DEF ResendFails
  <2> QED
    BY <2>1, <2>2, ProceedFacts, RoleFacts DEF Typed, JobsTyped
<1>1. TablesTyped' /\ Grows
  BY <1>a, MaybeWriteFacts DEF ResendFails, tables, Typed, TablesTyped, Grows
<1>2. JobsTyped'
  BY <1>m, RoleFacts DEF ResendFails, Typed, JobsTyped, Jobs, Places
<1>3. Standing'
  <2>1. r \in Programs /\ r \notin EmptyFixers \cup Batches
    BY RoleFacts
  <2> QED
    BY <1>1, <1>m, <2>1, OthersStand
<1> QED
  BY <1>1, <1>2, <1>3 DEF Typed

LEMMA ListEmptyTyped ==
    ASSUME Typed, NEW f \in EmptyFixers, ListEmpty(f)
    PROVE  Typed'
<1>a. [h \in RowsWith(IsEmpty) |-> rows[h]] \in Reads
  <2>1. [h \in RowsWith(IsEmpty) |-> rows[h]] \in [RowsWith(IsEmpty) -> Docs]
    BY DEF Typed, TablesTyped, RowsWith
  <2> QED
    BY <2>1, ReadsAre DEF RowsWith
<1>m. /\ prog' \in [Programs -> Jobs]
      /\ prog'[f].pc \in {"list", "done"} /\ prog'[f].at = prog[f].at
      /\ \A h \in DOMAIN prog'[f].read : rows[h] # NoDoc
      /\ \A x \in Programs \ {f} : prog'[x] = prog[x]
  BY RoleFacts, <1>a DEF ListEmpty, RowsWith, Typed, TablesTyped, JobsTyped, Jobs, Places
<1>1. TablesTyped' /\ Grows
  BY DEF ListEmpty, tables, Typed, TablesTyped, Grows
<1>2. JobsTyped'
  BY <1>m, RoleFacts DEF ListEmpty, Typed, JobsTyped, Jobs, Places
<1>3. Standing'
  BY <1>1, <1>m, RoleFacts, ReadsHoldDocs DEF ListEmpty, tables, Typed, JobsTyped, TablesTyped,
     Standing, Grows, Jobs, Places
<1> QED
  BY <1>1, <1>2, <1>3 DEF Typed

LEMMA SelectRepairTyped ==
    ASSUME Typed, NEW f \in EmptyFixers, NEW h \in Audios, SelectRepair(f, h)
    PROVE  Typed'
<1>m. /\ prog' \in [Programs -> Jobs]
      /\ prog'[f].pc \in {"repair", "verify"} /\ prog'[f].at = h
      /\ prog'[f].read = prog[f].read /\ h \in DOMAIN prog[f].read
      /\ \A x \in Programs \ {f} : prog'[x] = prog[x]
  <2>1. PICK pc \in {"repair", "verify"} : prog' = [prog EXCEPT ![f].pc = pc, ![f].at = h]
    BY DEF SelectRepair
  <2>2. prog \in [Programs -> Jobs] /\ f \in Programs /\ prog[f] \in Jobs /\ pc \in Places
    BY <2>1, RoleFacts DEF Typed, JobsTyped, Places
  <2>3. [prog[f] EXCEPT !.pc = pc, !.at = h] \in Jobs
    BY <2>2 DEF Jobs
  <2>4. prog' = [prog EXCEPT ![f] = [prog[f] EXCEPT !.pc = pc, !.at = h]]
    BY <2>1, <2>2
  <2>5. h \in DOMAIN prog[f].read
    BY DEF SelectRepair
  <2> QED
    BY <2>2, <2>3, <2>4, <2>5 DEF Jobs
<1>1. TablesTyped' /\ Grows
  BY DEF SelectRepair, tables, Typed, TablesTyped, Grows
<1>2. JobsTyped'
  BY <1>m, RoleFacts DEF SelectRepair, Typed, JobsTyped, Jobs, Places
<1>3. Standing'
  BY <1>1, <1>m, RoleFacts, ReadsHoldDocs DEF SelectRepair, tables, Typed, JobsTyped,
     TablesTyped, Standing, Grows, Jobs, Places
<1> QED
  BY <1>1, <1>2, <1>3 DEF Typed

LEMMA RepairRowTyped ==
    ASSUME Typed, NEW f \in EmptyFixers, RepairRow(f)
    PROVE  Typed'
<1>a. Repaired(f) \in Docs /\ prog[f].at \in Audios
  <2>1. prog[f].at \in Audios /\ rows[prog[f].at] \in Docs
    BY RoleFacts DEF RepairRow, Typed, TablesTyped, JobsTyped, Standing
  <2>2. f \in Made /\ rows[prog[f].at].tags \in {"none", "tags", "full"}
    BY <2>1, RoleFacts DEF Docs, Made
  <2> QED
    BY <2>1, <2>2, DocFacts DEF Repaired
<1>m. /\ prog' \in [Programs -> Jobs] /\ prog'[f].pc \in {"verify", "done"}
      /\ \A x \in Programs : /\ prog'[x].at = prog[x].at /\ prog'[x].doc = prog[x].doc
                             /\ prog'[x].read = prog[x].read
      /\ \A x \in Programs \ {f} : prog'[x] = prog[x]
  BY GotoFacts, RoleFacts DEF RepairRow, Typed, JobsTyped, Places
<1>1. TablesTyped' /\ Grows
  <2>1. Only(prog[f].at, Repaired(f)) \in Reads
    BY <1>a, OnlyIsRead
  <2> QED
    BY <2>1, WriteFacts DEF RepairRow, tables, Typed, TablesTyped, Grows
<1>2. JobsTyped'
  BY <1>m, RoleFacts DEF RepairRow, Typed, JobsTyped, Jobs, Places
<1>3. Standing'
  <2>1. \A h \in DOMAIN prog'[f].read : h \in Audios /\ rows[h] # NoDoc
    BY <1>m, RoleFacts, ReadsOfAudios DEF Typed, Standing
  <2>2. rows[prog[f].at] # NoDoc
    BY RoleFacts DEF RepairRow, Typed, Standing
  <2> QED
    BY <1>a, <1>1, <1>m, <2>1, <2>2, RoleFacts, OthersStand DEF Grows
<1> QED
  BY <1>1, <1>2, <1>3 DEF Typed

LEMMA RepairFailsTyped ==
    ASSUME Typed, NEW f \in EmptyFixers, RepairFails(f)
    PROVE  Typed'
<1>a. Repaired(f) \in Docs /\ prog[f].at \in Audios
  <2>1. prog[f].at \in Audios /\ rows[prog[f].at] \in Docs
    BY RoleFacts DEF RepairFails, Typed, TablesTyped, JobsTyped, Standing
  <2>2. f \in Made /\ rows[prog[f].at].tags \in {"none", "tags", "full"}
    BY <2>1, RoleFacts DEF Docs, Made
  <2> QED
    BY <2>1, <2>2, DocFacts DEF Repaired
<1>m. /\ prog' \in [Programs -> Jobs] /\ prog'[f].pc \in {"done"}
      /\ \A x \in Programs : /\ prog'[x].at = prog[x].at /\ prog'[x].doc = prog[x].doc
                             /\ prog'[x].read = prog[x].read
      /\ \A x \in Programs \ {f} : prog'[x] = prog[x]
  BY GotoFacts, RoleFacts DEF RepairFails, Typed, JobsTyped, Places
<1>1. TablesTyped' /\ Grows
  BY <1>a, MaybeWriteFacts DEF RepairFails, tables, Typed, TablesTyped, Grows
<1>2. JobsTyped'
  BY <1>m, RoleFacts DEF RepairFails, Typed, JobsTyped, Jobs, Places
<1>3. Standing'
  BY <1>1, <1>m, RoleFacts, ReadsHoldDocs DEF RepairFails, Typed, JobsTyped, TablesTyped,
     Standing, Grows, Jobs, Places
<1> QED
  BY <1>1, <1>2, <1>3 DEF Typed

LEMMA VerifyTyped ==
    ASSUME Typed, NEW f \in EmptyFixers, Verify(f)
    PROVE  Typed'
<1>m. /\ prog' \in [Programs -> Jobs] /\ prog'[f].pc \in {"list", "done"}
      /\ \A x \in Programs : prog'[x].at = prog[x].at /\ prog'[x].doc = prog[x].doc
      /\ DOMAIN prog'[f].read \subseteq DOMAIN prog[f].read
      /\ \A x \in Programs \ {f} : prog'[x] = prog[x]
  <2>1. "list" \in Places
    BY DEF Places
  <2>2. CASE Goto(f, "done")
    BY <2>2, GotoFacts, RoleFacts DEF Typed, JobsTyped, Places
  <2>3. CASE Proceed(f, prog[f].at, "list")
    BY <2>1, <2>3, ProceedFacts, RoleFacts DEF Typed, JobsTyped
  <2> QED
    BY <2>2, <2>3 DEF Verify
<1>1. TablesTyped' /\ Grows
  BY DEF Verify, tables, Typed, TablesTyped, Grows
<1>2. JobsTyped'
  BY <1>m, RoleFacts DEF Verify, Typed, JobsTyped, Jobs, Places
<1>3. Standing'
  <2>1. \A h \in DOMAIN prog'[f].read : h \in Audios /\ rows[h] # NoDoc
    BY <1>m, RoleFacts, ReadsOfAudios DEF Typed, Standing
  <2> QED
    BY <1>1, <1>m, <2>1, RoleFacts, OthersStand DEF Grows
<1> QED
  BY <1>1, <1>2, <1>3 DEF Typed

LEMMA ReadRowsTyped ==
    ASSUME Typed, NEW b \in Batches, ReadRows(b)
    PROVE  Typed'
<1>a. /\ [h \in RowsWith(HasOld) |-> Converted(rows[h])] \in Reads
      /\ [h \in RowsWith(HasNoTags) |-> rows[h]] \in Reads
  <2>1. [h \in RowsWith(HasOld) |-> Converted(rows[h])] \in [RowsWith(HasOld) -> Docs]
    BY DocFacts DEF Typed, TablesTyped, RowsWith
  <2>2. [h \in RowsWith(HasNoTags) |-> rows[h]] \in [RowsWith(HasNoTags) -> Docs]
    BY DEF Typed, TablesTyped, RowsWith
  <2> QED
    BY <2>1, <2>2, ReadsAre DEF RowsWith
<1>m. /\ prog' \in [Programs -> Jobs]
      /\ prog'[b].pc = "batch" /\ prog'[b].at = prog[b].at
      /\ \A h \in DOMAIN prog'[b].read : rows[h] # NoDoc
      /\ \A x \in Programs \ {b} : prog'[x] = prog[x]
  <2>1. PICK read \in Reads :
           /\ prog' = [prog EXCEPT ![b].pc = "batch", ![b].read = read]
           /\ \A h \in DOMAIN read : rows[h] # NoDoc
    BY <1>a DEF ReadRows, RowsWith
  <2>2. prog \in [Programs -> Jobs] /\ b \in Programs /\ prog[b] \in Jobs /\ "batch" \in Places
    BY RoleFacts DEF Typed, JobsTyped, Places
  <2>3. [prog[b] EXCEPT !.pc = "batch", !.read = read] \in Jobs
    BY <2>1, <2>2 DEF Jobs
  <2>4. prog' = [prog EXCEPT ![b] = [prog[b] EXCEPT !.pc = "batch", !.read = read]]
    BY <2>1, <2>2
  <2> QED
    BY <2>1, <2>2, <2>3, <2>4 DEF Jobs
<1>1. TablesTyped' /\ Grows
  BY DEF ReadRows, tables, Typed, TablesTyped, Grows
<1>2. JobsTyped'
  BY <1>m, RoleFacts DEF ReadRows, Typed, JobsTyped, Jobs, Places
<1>3. Standing'
  BY <1>1, <1>m, RoleFacts, ReadsHoldDocs DEF ReadRows, tables, Typed, JobsTyped, TablesTyped,
     Standing, Grows, Jobs, Places
<1> QED
  BY <1>1, <1>2, <1>3 DEF Typed

LEMMA UpdateRowTyped ==
    ASSUME Typed, NEW b \in Batches, NEW h \in Audios, UpdateRow(b, h)
    PROVE  Typed'
<1>a. /\ rows[h] \in Docs /\ prog[b].read \in Reads /\ prog[b].read[h] \in Docs
      /\ pending[b] \in Reads /\ h \in Audios
  BY RoleFacts, ReadsHoldDocs DEF UpdateRow, Typed, TablesTyped, JobsTyped, Standing, Jobs
<1>m. /\ prog' \in [Programs -> Jobs]
      /\ prog'[b].pc = "batch" /\ prog'[b].at = prog[b].at
      /\ DOMAIN prog'[b].read \subseteq DOMAIN prog[b].read
      /\ \A x \in Programs \ {b} : prog'[x] = prog[x]
  <2>1. /\ prog \in [Programs -> Jobs] /\ b \in Programs /\ prog[b] \in Jobs
        /\ Without(prog[b].read, h) \in Reads
        /\ DOMAIN Without(prog[b].read, h) \subseteq DOMAIN prog[b].read
    <3>1. prog \in [Programs -> Jobs] /\ b \in Programs
      BY RoleFacts DEF Typed, JobsTyped
    <3>2. /\ Without(prog[b].read, h) \in Reads
          /\ DOMAIN Without(prog[b].read, h) = DOMAIN prog[b].read \ {h}
      BY <1>a, WithoutIsRead
    <3> QED
      BY <3>1, <3>2
  <2>2. [prog[b] EXCEPT !.read = Without(prog[b].read, h)] \in Jobs
    BY <2>1 DEF Jobs
  <2>3. prog' = [prog EXCEPT ![b] = [prog[b] EXCEPT !.read = Without(prog[b].read, h)]]
    BY <2>1 DEF UpdateRow
  <2>4. prog[b].pc = "batch"
    BY DEF UpdateRow
  <2> QED
    BY <2>1, <2>2, <2>3, <2>4 DEF Jobs
<1>1. TablesTyped' /\ Grows
  <2>1. IF b \in HnrTools THEN [prog[b].read[h] EXCEPT !.tags = rows[h].tags] \in Docs
        ELSE [rows[h] EXCEPT !.tags = "tags"] \in Docs
    BY <1>a DEF Docs
  <2>2. With(pending[b], h, IF b \in HnrTools THEN [prog[b].read[h] EXCEPT !.tags = rows[h].tags]
                             ELSE [rows[h] EXCEPT !.tags = "tags"]) \in Reads
    BY <1>a, <2>1, WithIsRead
  <2> QED
    BY <2>2 DEF UpdateRow, tables, Typed, TablesTyped, Grows
<1>2. JobsTyped'
  BY <1>m, RoleFacts DEF UpdateRow, Typed, JobsTyped, Jobs, Places
<1>3. Standing'
  BY <1>1, <1>m, RoleFacts, ReadsHoldDocs DEF UpdateRow, tables, Typed, JobsTyped, TablesTyped,
     Standing, Grows, Jobs, Places
<1> QED
  BY <1>1, <1>2, <1>3 DEF Typed

LEMMA SkipRowTyped ==
    ASSUME Typed, NEW b \in Batches, NEW h \in Audios, SkipRow(b, h)
    PROVE  Typed'
<1>a. prog[b].read \in Reads
  BY RoleFacts DEF Typed, JobsTyped, Jobs
<1>m. /\ prog' \in [Programs -> Jobs]
      /\ prog'[b].pc = "batch" /\ prog'[b].at = prog[b].at
      /\ DOMAIN prog'[b].read \subseteq DOMAIN prog[b].read
      /\ \A x \in Programs \ {b} : prog'[x] = prog[x]
  <2>1. /\ prog \in [Programs -> Jobs] /\ b \in Programs /\ prog[b] \in Jobs
        /\ Without(prog[b].read, h) \in Reads
        /\ DOMAIN Without(prog[b].read, h) \subseteq DOMAIN prog[b].read
    <3>1. prog \in [Programs -> Jobs] /\ b \in Programs
      BY RoleFacts DEF Typed, JobsTyped
    <3>2. /\ Without(prog[b].read, h) \in Reads
          /\ DOMAIN Without(prog[b].read, h) = DOMAIN prog[b].read \ {h}
      BY <1>a, WithoutIsRead
    <3> QED
      BY <3>1, <3>2
  <2>2. [prog[b] EXCEPT !.read = Without(prog[b].read, h)] \in Jobs
    BY <2>1 DEF Jobs
  <2>3. prog' = [prog EXCEPT ![b] = [prog[b] EXCEPT !.read = Without(prog[b].read, h)]]
    BY <2>1 DEF SkipRow
  <2>4. prog[b].pc = "batch"
    BY DEF SkipRow
  <2> QED
    BY <2>1, <2>2, <2>3, <2>4 DEF Jobs
<1>1. TablesTyped' /\ Grows
  BY DEF SkipRow, tables, Typed, TablesTyped, Grows
<1>2. JobsTyped'
  BY <1>m, RoleFacts DEF SkipRow, Typed, JobsTyped, Jobs, Places
<1>3. Standing'
  BY <1>1, <1>m, RoleFacts, ReadsHoldDocs DEF SkipRow, tables, Typed, JobsTyped, TablesTyped,
     Standing, Grows, Jobs, Places
<1> QED
  BY <1>1, <1>2, <1>3 DEF Typed

LEMMA CommitBatchTyped ==
    ASSUME Typed, NEW b \in Batches, CommitBatch(b)
    PROVE  Typed'
<1>a. pending[b] \in Reads
  BY DEF Typed, TablesTyped
<1>m. /\ prog' \in [Programs -> Jobs] /\ prog'[b].pc \in {"done", "batch"}
      /\ \A x \in Programs : /\ prog'[x].at = prog[x].at /\ prog'[x].doc = prog[x].doc
                             /\ prog'[x].read = prog[x].read
      /\ \A x \in Programs \ {b} : prog'[x] = prog[x]
  BY GotoFacts, RoleFacts DEF CommitBatch, Typed, JobsTyped, Places
<1>1. TablesTyped' /\ Grows
  BY <1>a, WriteFacts, NoRowsIsRead DEF CommitBatch, Typed, TablesTyped, Grows
<1>2. JobsTyped'
  BY <1>m, RoleFacts DEF CommitBatch, Typed, JobsTyped, Jobs, Places
<1>3. Standing'
  BY <1>1, <1>m, RoleFacts, ReadsHoldDocs DEF CommitBatch, Typed, JobsTyped, TablesTyped,
     Standing, Grows, Jobs, Places
<1> QED
  BY <1>1, <1>2, <1>3 DEF Typed

LEMMA QuitsTyped ==
    ASSUME Typed, NEW a \in Programs, Quits(a)
    PROVE  Typed'
<1>m. /\ prog' \in [Programs -> Jobs] /\ prog'[a].pc \in {"start", "done"}
      /\ \A x \in Programs : /\ prog'[x].at = prog[x].at /\ prog'[x].doc = prog[x].doc
                             /\ prog'[x].read = prog[x].read
      /\ \A x \in Programs \ {a} : prog'[x] = prog[x]
  BY GotoFacts, RoleFacts DEF Quits, Typed, JobsTyped, Places
<1>1. TablesTyped' /\ Grows
  BY NoRowsIsRead DEF Quits, tables, Typed, TablesTyped, Grows
<1>2. JobsTyped'
  BY <1>m, RoleFacts DEF Quits, Typed, JobsTyped, Jobs, Places
<1>3. Standing'
  BY <1>1, <1>m, RoleFacts, ReadsHoldDocs DEF Quits, Typed, JobsTyped, TablesTyped, Standing,
     Grows, Jobs, Places
<1> QED
  BY <1>1, <1>2, <1>3 DEF Typed

LEMMA TypedStep == Typed /\ [LibraryNext]_libraryVars => Typed'
<1> SUFFICES ASSUME Typed, [LibraryNext]_libraryVars PROVE Typed'
  OBVIOUS
<1>1. CASE UNCHANGED libraryVars
  BY <1>1 DEF libraryVars, Typed, TablesTyped, JobsTyped, Standing
<1>2. CASE LibraryNext
  BY <1>2, LoadTyped, UpsertTyped, UpsertFailsTyped, RemoveResultsTyped,
     SavePayloadTyped, SaveFailsTyped, PreflightRowTyped, IngestDirectlyTyped,
     IngestFailsTyped, ReadDLQTyped, DeleteSentTyped, DeleteFailsTyped,
     ResendTyped, ResendFailsTyped, ListEmptyTyped, RepairRowTyped,
     RepairFailsTyped, VerifyTyped, SelectRepairTyped, ReadRowsTyped,
     CommitBatchTyped, UpdateRowTyped, SkipRowTyped, QuitsTyped
     DEF LibraryNext, IngesterStep, SaveStep, IngestStep, ReplayStep, RepairStep, BatchStep
<1> QED
  BY <1>1, <1>2

LEMMA SpecTyped == LibrarySpec => []Typed
  BY TypedInit, TypedStep, PTL DEF LibrarySpec

(***************************************************************************)
(* What a step writes.                                                     *)
(***************************************************************************)
Writes == \E docs \in Reads : Write(docs)
Untouched == UNCHANGED rows

LEMMA JobDocs ==
    ASSUME Typed, NEW a \in Ingesters \cup Ingests, prog[a].pc \in {"send", "save"}
    PROVE  prog[a].doc \in Docs /\ prog[a].at \in Audios /\ prog[a].at = AudioOf[a]
BY RoleFacts DEF Typed, JobsTyped

LEMMA MergedDocs ==
    ASSUME Typed, NEW o \in Ingests, prog[o].pc = "send"
    PROVE  MergedRow(o) \in Docs
BY JobDocs, RoleFacts DEF MergedRow, Typed, TablesTyped, Docs

LEMMA RepairedDocs ==
    ASSUME Typed, NEW f \in EmptyFixers, prog[f].pc = "repair"
    PROVE  Repaired(f) \in Docs /\ prog[f].at \in Audios
<1>1. prog[f].at \in Audios /\ rows[prog[f].at] \in Docs
  BY RoleFacts DEF Typed, TablesTyped, JobsTyped, Standing
<1>2. f \in Made /\ rows[prog[f].at].tags \in {"none", "tags", "full"}
  BY <1>1, RoleFacts DEF Docs, Made
<1> QED
  BY <1>1, <1>2, DocFacts DEF Repaired

LEMMA OneRowWrites ==
    ASSUME NEW h \in Audios, NEW doc \in Docs
    PROVE  /\ Write(Only(h, doc)) => Writes
           /\ MaybeWrite(h, doc) => Untouched \/ Writes
BY OnlyIsRead DEF Writes, Untouched, MaybeWrite, tables

\* Every step leaves the rows alone, or is one write of documents.
LEMMA StepWrites ==
    ASSUME Typed, LibraryNext
    PROVE  Untouched \/ Writes
<1>1. ASSUME NEW i \in Ingesters, Load(i) \/ RemoveResults(i) PROVE Untouched
  BY <1>1 DEF Load, RemoveResults, tables, Untouched
<1>2. ASSUME NEW i \in Ingesters, Upsert(i) \/ UpsertFails(i) PROVE Untouched \/ Writes
  <2>1. prog[i].pc = "send"
    BY <1>2 DEF Upsert, UpsertFails
  <2> QED
    BY <1>2, <2>1, JobDocs, OneRowWrites DEF Upsert, UpsertFails
<1>3. ASSUME NEW a \in Ingesters \cup Ingests, SavePayload(a) \/ SaveFails(a) PROVE Untouched
  BY <1>3 DEF SavePayload, SaveFails, tables, Untouched
<1>4. ASSUME NEW o \in Ingests, PreflightRow(o) PROVE Untouched
  BY <1>4 DEF PreflightRow, Untouched
<1>5. ASSUME NEW o \in Ingests, IngestDirectly(o) \/ IngestFails(o) PROVE Untouched \/ Writes
  <2>1. prog[o].pc = "send"
    BY <1>5 DEF IngestDirectly, IngestFails
  <2>2. MergedRow(o) \in Docs /\ prog[o].at \in Audios
    BY <2>1, MergedDocs, JobDocs
  <2> QED
    BY <1>5, <2>2, OneRowWrites DEF IngestDirectly, IngestFails, tables, Untouched
<1>6. ASSUME NEW r \in Replayers, ReadDLQ(r) \/ DeleteSent(r) \/ DeleteFails(r) PROVE Untouched
  BY <1>6 DEF ReadDLQ, DeleteSent, DeleteFails, tables, Untouched
<1>7. ASSUME NEW r \in Replayers, NEW h \in Audios, Resend(r, h) \/ ResendFails(r, h)
      PROVE  Untouched \/ Writes
  <2>1. prog[r].read[h] \in Docs
    BY <1>7, RoleFacts, ReadsOfAudios, ReadsHoldDocs DEF Resend, ResendFails
  <2> QED
    BY <1>7, <2>1, OneRowWrites DEF Resend, ResendFails
<1>8. ASSUME NEW f \in EmptyFixers, ListEmpty(f) \/ Verify(f) \/ \E h \in Audios : SelectRepair(f, h)
      PROVE  Untouched
  BY <1>8 DEF ListEmpty, Verify, SelectRepair, tables, Untouched
<1>9. ASSUME NEW f \in EmptyFixers, RepairRow(f) \/ RepairFails(f) PROVE Untouched \/ Writes
  <2>1. prog[f].pc = "repair"
    BY <1>9 DEF RepairRow, RepairFails
  <2> QED
    BY <1>9, <2>1, RepairedDocs, OneRowWrites DEF RepairRow, RepairFails, tables, Untouched
<1>10. ASSUME NEW b \in Batches, ReadRows(b) \/ \E h \in Audios : UpdateRow(b, h) \/ SkipRow(b, h)
       PROVE  Untouched
  BY <1>10 DEF ReadRows, UpdateRow, SkipRow, tables, Untouched
<1>11. ASSUME NEW b \in Batches, CommitBatch(b) PROVE Writes
  BY <1>11 DEF CommitBatch, Typed, TablesTyped, Writes
<1>12. ASSUME NEW a \in Programs, Quits(a) PROVE Untouched
  BY <1>12 DEF Quits, tables, Untouched
<1> QED
  BY <1>1, <1>2, <1>3, <1>4, <1>5, <1>6, <1>7, <1>8, <1>9, <1>10, <1>11, <1>12
     DEF LibraryNext, IngesterStep, SaveStep, IngestStep, ReplayStep, RepairStep, BatchStep

LEMMA StepGrows ==
    ASSUME Typed, LibraryNext
    PROVE  Grows
<1>1. CASE Untouched
  BY <1>1 DEF Untouched, Grows
<1>2. CASE Writes
  BY <1>2, WriteFacts DEF Writes, Typed, Grows
<1> QED
  BY <1>1, <1>2, StepWrites

(***************************************************************************)
(* Snapshots hold.                                                         *)
(***************************************************************************)
LEMMA SnapshotIs ==
    ASSUME Typed, NEW o \in Ingests, NEW r, r = SnapshotOf(AudioOf[o])
    PROVE  /\ DOMAIN r \subseteq {AudioOf[o]}
           /\ rows[AudioOf[o]] = IF DOMAIN r = {} THEN NoDoc ELSE r[AudioOf[o]]
<1>1. CASE rows[AudioOf[o]] = NoDoc
  BY <1>1, NoRowsIsRead DEF SnapshotOf
<1>2. CASE rows[AudioOf[o]] # NoDoc
  <2>1. AudioOf[o] \in Audios /\ rows[AudioOf[o]] \in Docs
    BY <1>2, RoleFacts DEF Typed, TablesTyped
  <2>2. r = Only(AudioOf[o], rows[AudioOf[o]])
    BY <1>2 DEF SnapshotOf
  <2>3. /\ DOMAIN Only(AudioOf[o], rows[AudioOf[o]]) = {AudioOf[o]}
        /\ Only(AudioOf[o], rows[AudioOf[o]])[AudioOf[o]] = rows[AudioOf[o]]
    BY <2>1, OnlyIsRead
  <2> QED
    BY <2>2, <2>3
<1> QED
  BY <1>1, <1>2

\* Only a preflight reads for an ingest, and only a write makes a version old.
ReadsNothing(o) == prog'[o].read = prog[o].read
Holds(o) == ReadsNothing(o) /\ (o \in current' => o \in current /\ rows'[AudioOf[o]] = rows[AudioOf[o]])

LEMMA WriteHolds ==
    ASSUME Typed, NEW docs \in Reads, Write(docs), NEW o \in Ingests, o \in current'
    PROVE  o \in current /\ rows'[AudioOf[o]] = rows[AudioOf[o]]
BY WriteFacts, RoleFacts DEF Write, Typed

LEMMA OneRowHolds ==
    ASSUME Typed, NEW h \in Audios, NEW doc \in Docs, Write(Only(h, doc)) \/ MaybeWrite(h, doc),
           NEW o \in Ingests, o \in current'
    PROVE  o \in current /\ rows'[AudioOf[o]] = rows[AudioOf[o]]
BY OnlyIsRead, WriteHolds DEF MaybeWrite, tables

LEMMA StepHolds ==
    ASSUME Typed, LibraryNext, NEW o \in Ingests, ~PreflightRow(o)
    PROVE  Holds(o)
<1> USE RoleFacts
<1>0. prog \in [Programs -> Jobs]
  BY DEF Typed, JobsTyped
<1>1. ASSUME NEW a \in Programs, NEW pc, Goto(a, pc) PROVE ReadsNothing(o)
  BY <1>0, <1>1 DEF Goto, Jobs, ReadsNothing
<1>2. ASSUME NEW a \in Programs \ Ingests, \A x \in Programs \ {a} : prog'[x] = prog[x]
      PROVE  ReadsNothing(o)
  BY <1>2 DEF ReadsNothing
<1>3. ASSUME NEW i \in Ingesters, Load(i) PROVE Holds(o)
  BY <1>0, <1>3 DEF Load, Jobs, Holds, ReadsNothing, tables
<1>4. ASSUME NEW i \in Ingesters, Upsert(i) \/ UpsertFails(i) PROVE Holds(o)
  <2>1. prog[i].pc = "send"
    BY <1>4 DEF Upsert, UpsertFails
  <2>2. ReadsNothing(o)
    BY <1>1, <1>4 DEF Upsert, UpsertFails
  <2> QED
    BY <1>4, <2>1, <2>2, JobDocs, OneRowHolds DEF Upsert, UpsertFails, Holds
<1>5. ASSUME NEW i \in Ingesters, RemoveResults(i) PROVE Holds(o)
  BY <1>1, <1>5 DEF RemoveResults, Holds, tables
<1>6. ASSUME NEW a \in Ingesters \cup Ingests, SavePayload(a) \/ SaveFails(a) PROVE Holds(o)
  BY <1>1, <1>6 DEF SavePayload, SaveFails, Holds, tables
<1>7. ASSUME NEW p \in Ingests, PreflightRow(p) PROVE Holds(o)
  <2>1. p # o /\ rows' = rows /\ current' = current \cup {p}
    BY <1>7 DEF PreflightRow
  <2>2. prog'[o] = prog[o]
    BY <1>0, <1>7, <2>1 DEF PreflightRow
  <2> QED
    BY <2>1, <2>2 DEF Holds, ReadsNothing
<1>8. ASSUME NEW p \in Ingests, IngestDirectly(p) \/ IngestFails(p) PROVE Holds(o)
  <2>1. prog[p].pc = "send"
    BY <1>8 DEF IngestDirectly, IngestFails
  <2>2. MergedRow(p) \in Docs /\ prog[p].at \in Audios
    BY <2>1, MergedDocs, JobDocs
  <2>3. ReadsNothing(o)
    BY <1>1, <1>8 DEF IngestDirectly, IngestFails
  <2> QED
    BY <1>8, <2>2, <2>3, OneRowHolds DEF IngestDirectly, IngestFails, Holds, tables
<1>9. ASSUME NEW r \in Replayers, ReadDLQ(r) \/ DeleteSent(r) \/ DeleteFails(r) PROVE Holds(o)
  <2>1. prog'[o] = prog[o]
    BY <1>0, <1>9 DEF ReadDLQ, DeleteSent, DeleteFails, Proceed
  <2> QED
    BY <1>9, <2>1 DEF ReadDLQ, DeleteSent, DeleteFails, Holds, ReadsNothing, tables
<1>10. ASSUME NEW r \in Replayers, NEW h \in Audios, Resend(r, h) \/ ResendFails(r, h) PROVE Holds(o)
  <2>1. prog'[o] = prog[o]
    BY <1>0, <1>10 DEF Resend, ResendFails, Proceed
  <2>2. prog[r].read[h] \in Docs
    BY <1>10, ReadsOfAudios, ReadsHoldDocs DEF Resend, ResendFails
  <2> QED
    BY <1>10, <2>1, <2>2, OneRowHolds DEF Resend, ResendFails, Holds, ReadsNothing
<1>11. ASSUME NEW f \in EmptyFixers, ListEmpty(f) \/ Verify(f) \/ \E h \in Audios : SelectRepair(f, h)
       PROVE  Holds(o)
  <2>1. prog'[o] = prog[o]
    BY <1>0, <1>11 DEF ListEmpty, Verify, SelectRepair, Proceed, Goto
  <2> QED
    BY <1>11, <2>1 DEF ListEmpty, Verify, SelectRepair, Holds, ReadsNothing, tables
<1>12. ASSUME NEW f \in EmptyFixers, RepairRow(f) \/ RepairFails(f) PROVE Holds(o)
  <2>1. prog[f].pc = "repair"
    BY <1>12 DEF RepairRow, RepairFails
  <2>2. ReadsNothing(o)
    BY <1>1, <1>12 DEF RepairRow, RepairFails
  <2> QED
    BY <1>12, <2>1, <2>2, RepairedDocs, OneRowHolds DEF RepairRow, RepairFails, Holds, tables
<1>13. ASSUME NEW b \in Batches, ReadRows(b) \/ \E h \in Audios : UpdateRow(b, h) \/ SkipRow(b, h)
       PROVE  Holds(o)
  <2>1. prog'[o] = prog[o]
    BY <1>0, <1>13 DEF ReadRows, UpdateRow, SkipRow
  <2> QED
    BY <1>13, <2>1 DEF ReadRows, UpdateRow, SkipRow, Holds, ReadsNothing, tables
<1>14. ASSUME NEW b \in Batches, CommitBatch(b) PROVE Holds(o)
  <2>1. ReadsNothing(o)
    BY <1>1, <1>14 DEF CommitBatch
  <2>2. pending[b] \in Reads /\ Write(pending[b])
    BY <1>14 DEF CommitBatch, Typed, TablesTyped
  <2> QED
    BY <2>1, <2>2, WriteHolds DEF Holds
<1>15. ASSUME NEW a \in Programs, Quits(a) PROVE Holds(o)
  BY <1>1, <1>15 DEF Quits, Holds, tables
<1> QED
  BY <1>3, <1>4, <1>5, <1>6, <1>7, <1>8, <1>9, <1>10, <1>11, <1>12, <1>13, <1>14, <1>15
     DEF LibraryNext, IngesterStep, SaveStep, IngestStep, ReplayStep, RepairStep, BatchStep

LEMMA SnapshotInit == LibraryInit => SnapshotInv
<1> SUFFICES ASSUME LibraryInit PROVE SnapshotInv
  OBVIOUS
<1>1. current = {} /\ \A o \in Ingests : prog[o].read = NoRows
  BY RoleFacts DEF LibraryInit
<1> QED
  BY <1>1, NoRowsIsRead DEF SnapshotInv

LEMMA SnapshotStep == Typed /\ SnapshotInv /\ [LibraryNext]_libraryVars => SnapshotInv'
<1> SUFFICES ASSUME Typed, SnapshotInv, [LibraryNext]_libraryVars, NEW o \in Ingests
             PROVE  /\ DOMAIN prog'[o].read \subseteq {AudioOf[o]}
                    /\ o \in current' => Snapshot(o)' = rows'[AudioOf[o]]
  BY DEF SnapshotInv
<1>1. CASE UNCHANGED libraryVars
  BY <1>1 DEF libraryVars, SnapshotInv, Snapshot
<1>2. CASE PreflightRow(o)
  <2>1. prog'[o].read = SnapshotOf(AudioOf[o]) /\ rows' = rows
    BY <1>2, RoleFacts DEF PreflightRow, Typed, JobsTyped, Jobs
  <2> QED
    BY <2>1, SnapshotIs DEF Snapshot
<1>3. CASE LibraryNext /\ ~PreflightRow(o)
  BY <1>3, StepHolds DEF Holds, ReadsNothing, SnapshotInv, Snapshot
<1> QED
  BY <1>1, <1>2, <1>3

\* A step of an ingest that changes a row is its guarded write.
LEMMA IngestWrites ==
    ASSUME Typed, LibraryNext, NEW o \in Ingests, prog'[o] # prog[o], rows' # rows
    PROVE  IngestDirectly(o) \/ IngestFails(o)
<1> USE RoleFacts
<1>0. prog \in [Programs -> Jobs] /\ Ingesters \cap Ingests = {}
  BY LibraryAssumption DEF Typed, JobsTyped
<1>1. ASSUME NEW i \in Ingesters, Load(i) \/ Upsert(i) \/ UpsertFails(i) \/ RemoveResults(i)
      PROVE  FALSE
  BY <1>0, <1>1 DEF Load, Upsert, UpsertFails, RemoveResults, Goto
<1>2. ASSUME NEW a \in Ingesters \cup Ingests, SavePayload(a) \/ SaveFails(a) PROVE FALSE
  BY <1>2 DEF SavePayload, SaveFails, tables
<1>3. ASSUME NEW p \in Ingests, PreflightRow(p) \/ IngestDirectly(p) \/ IngestFails(p)
      PROVE  IngestDirectly(o) \/ IngestFails(o)
  BY <1>0, <1>3 DEF PreflightRow, IngestDirectly, IngestFails, Goto
<1>4. ASSUME NEW r \in Replayers, ReadDLQ(r) \/ DeleteSent(r) \/ DeleteFails(r) PROVE FALSE
  BY <1>4 DEF ReadDLQ, DeleteSent, DeleteFails, tables
<1>5. ASSUME NEW r \in Replayers, NEW h \in Audios, Resend(r, h) \/ ResendFails(r, h) PROVE FALSE
  BY <1>0, <1>5 DEF Resend, ResendFails, Proceed
<1>6. ASSUME NEW f \in EmptyFixers, ListEmpty(f) \/ Verify(f) \/ \E h \in Audios : SelectRepair(f, h)
      PROVE  FALSE
  BY <1>6 DEF ListEmpty, Verify, SelectRepair, tables
<1>7. ASSUME NEW f \in EmptyFixers, RepairRow(f) \/ RepairFails(f) PROVE FALSE
  BY <1>0, <1>7 DEF RepairRow, RepairFails, Goto
<1>8. ASSUME NEW b \in Batches, ReadRows(b) \/ \E h \in Audios : UpdateRow(b, h) \/ SkipRow(b, h)
      PROVE  FALSE
  BY <1>8 DEF ReadRows, UpdateRow, SkipRow, tables
<1>9. ASSUME NEW b \in Batches, CommitBatch(b) PROVE FALSE
  BY <1>0, <1>9 DEF CommitBatch, Goto
<1>10. ASSUME NEW a \in Programs, Quits(a) PROVE FALSE
  BY <1>10 DEF Quits, tables
<1> QED
  BY <1>1, <1>2, <1>3, <1>4, <1>5, <1>6, <1>7, <1>8, <1>9, <1>10
     DEF LibraryNext, IngesterStep, SaveStep, IngestStep, ReplayStep, RepairStep, BatchStep

\* What the property says of one ingest and one step.
Held(o) ==
    LET h == AudioOf[o]
    IN  prog'[o] # prog[o] /\ rows'[h] # rows[h] =>
           IF DOMAIN prog[o].read = {} THEN rows[h] = NoDoc
           ELSE /\ rows[h] = prog[o].read[h]
                /\ \A half \in {"mix", "demucs"} :
                      rows'[h][half] = "none" => rows[h][half] = "none"

LEMMA StepHeld ==
    ASSUME Typed, SnapshotInv, LibraryNext, NEW o \in Ingests
    PROVE  Held(o)
<1> DEFINE h == AudioOf[o]
<1> SUFFICES ASSUME prog'[o] # prog[o], rows'[h] # rows[h]
             PROVE  IF DOMAIN prog[o].read = {} THEN rows[h] = NoDoc
                    ELSE /\ rows[h] = prog[o].read[h]
                         /\ \A half \in {"mix", "demucs"} :
                               rows'[h][half] = "none" => rows[h][half] = "none"
  BY DEF Held
<1>1. IngestDirectly(o) \/ IngestFails(o)
  BY IngestWrites
<1>2. prog[o].pc = "send" /\ o \in current /\ Write(Only(prog[o].at, MergedRow(o)))
  BY <1>1 DEF IngestDirectly, IngestFails, MaybeWrite, tables
<1>3. prog[o].doc \in Docs /\ h \in Audios /\ prog[o].at = h /\ MergedRow(o) \in Docs
  BY <1>2, JobDocs, MergedDocs
<1>4. rows'[h] = MergedRow(o)
  <2>1. DOMAIN Only(h, MergedRow(o)) = {h} /\ Only(h, MergedRow(o))[h] = MergedRow(o)
    BY <1>3, OnlyIsRead
  <2> QED
    BY <1>2, <1>3, <2>1 DEF Write, Typed, TablesTyped
<1>5. IF DOMAIN prog[o].read = {} THEN rows[h] = NoDoc ELSE rows[h] = prog[o].read[h]
  BY <1>2 DEF SnapshotInv, Snapshot
<1>6. ASSUME rows[h] # NoDoc, NEW half \in {"mix", "demucs"}, rows'[h][half] = "none"
      PROVE  rows[h][half] = "none"
  BY <1>3, <1>4, <1>6 DEF MergedRow
<1>7. DOMAIN prog[o].read # {} => rows[h] # NoDoc
  <2>1. prog[o].read \in Reads /\ \A x \in DOMAIN prog[o].read : prog[o].read[x] \in Docs
    BY RoleFacts, ReadsOfAudios, ReadsHoldDocs
  <2>2. DOMAIN prog[o].read # {} => DOMAIN prog[o].read = {h}
    BY DEF SnapshotInv
  <2> QED
    BY <1>5, <2>1, <2>2, LibraryAssumption
<1> QED
  BY <1>5, <1>6, <1>7

\* An ingest of the orchestrator replaces only the row its preflight decided on, and loses no
\* half of it, whatever the other programs wrote meanwhile: the update compares xmin, the
\* insert does nothing where there is a row.
THEOREM SnapshotsAreCurrent == LibrarySpec => SnapshotHolds
<1>1. Typed /\ SnapshotInv /\ [LibraryNext]_libraryVars =>
        [\A o \in Ingests : Held(o)]_libraryVars
  BY StepHeld
<1>2. SnapshotHolds <=> [][\A o \in Ingests : Held(o)]_libraryVars
  BY DEF SnapshotHolds, Held
<1> QED
  BY <1>1, <1>2, SnapshotInit, SnapshotStep, SpecTyped, PTL DEF LibrarySpec

(***************************************************************************)
(* Results survive.                                                        *)
(***************************************************************************)
\* A payload is only deleted of an audio that has a row.
LEMMA StepKeepsPayloads ==
    ASSUME Typed, LibraryNext, NEW h \in Audios, dlq[h] # NoDoc
    PROVE  dlq'[h] # NoDoc \/ rows[h] # NoDoc
<1>1. ASSUME NEW a \in Ingesters \cup Ingests, SavePayload(a) PROVE dlq'[h] # NoDoc
  BY <1>1, JobDocs, LibraryAssumption DEF SavePayload, Typed, TablesTyped
<1>2. ASSUME NEW r \in Replayers, DeleteSent(r) PROVE dlq'[h] # NoDoc \/ rows[h] # NoDoc
  BY <1>2, RoleFacts DEF DeleteSent, Typed, TablesTyped, JobsTyped, Standing
<1>3. \/ \E a \in Ingesters \cup Ingests : SavePayload(a)
      \/ \E r \in Replayers : DeleteSent(r)
      \/ dlq' = dlq
  BY DEF LibraryNext, IngesterStep, SaveStep, IngestStep, ReplayStep, RepairStep, BatchStep,
     Load, Upsert, UpsertFails, RemoveResults, SaveFails, PreflightRow, IngestDirectly, IngestFails,
     ReadDLQ, Resend, ResendFails, DeleteFails, ListEmpty, SelectRepair, RepairRow, RepairFails,
     Verify, ReadRows, UpdateRow, SkipRow, CommitBatch, Quits
<1> QED
  BY <1>1, <1>2, <1>3

LEMMA StepSurvives ==
    ASSUME Typed, LibraryNext, NEW h \in Audios, Survives(h)
    PROVE  Survives(h)'
BY StepGrows, StepKeepsPayloads DEF Grows, Survives

\* Before an ingester removes its result files, the row or the payload is there.
LEMMA OnlyIngestersClean ==
    ASSUME Typed, LibraryNext, NEW i \in Ingesters, prog[i].pc # "clean", prog'[i].pc = "clean"
    PROVE  Survives(AudioOf[i])'
<1> USE RoleFacts
<1>0. prog \in [Programs -> Jobs] /\ i \in Programs /\ AudioOf[i] \in Audios
  BY DEF Typed, JobsTyped
<1>1. CASE Upsert(i)
  <2>1. prog[i].doc \in Docs /\ prog[i].at = AudioOf[i]
    BY <1>1, JobDocs DEF Upsert
  <2>2. rows'[AudioOf[i]] = prog[i].doc
    <3> DEFINE docs == Only(AudioOf[i], prog[i].doc)
    <3>1. docs \in Reads /\ DOMAIN docs = {AudioOf[i]} /\ docs[AudioOf[i]] = prog[i].doc
      BY <1>0, <2>1, OnlyIsRead
    <3>2. Write(docs)
      BY <1>1, <2>1 DEF Upsert
    <3> HIDE DEF docs
    <3>3. \A h \in DOMAIN docs : rows'[h] = docs[h]
      BY <3>1, <3>2, WriteFacts DEF Typed
    <3> QED
      BY <3>1, <3>3
  <2> QED
    BY <2>1, <2>2, LibraryAssumption DEF Survives
<1>2. CASE SavePayload(i)
  <2>1. prog[i].doc \in Docs /\ prog[i].at = AudioOf[i]
    BY <1>2, JobDocs DEF SavePayload
  <2> QED
    BY <1>0, <1>2, <2>1, LibraryAssumption DEF SavePayload, Survives, Typed, TablesTyped
<1>3. ASSUME NEW a \in Programs, NEW pc, pc # "clean" \/ a # i, Goto(a, pc) PROVE FALSE
  BY <1>0, <1>3 DEF Goto, Jobs
<1>4. ASSUME NEW a \in Programs, NEW h, NEW pc \in {"replay", "list"}, Proceed(a, h, pc) PROVE FALSE
  BY <1>0, <1>4 DEF Proceed, Jobs
<1>5. ASSUME NEW j \in Ingesters, Load(j) \/ Upsert(j) \/ UpsertFails(j) \/ RemoveResults(j)
      PROVE  Survives(AudioOf[i])'
  BY <1>0, <1>1, <1>3, <1>5 DEF Load, Upsert, UpsertFails, RemoveResults, Jobs
<1>6. ASSUME NEW a \in Ingesters \cup Ingests, SavePayload(a) \/ SaveFails(a)
      PROVE  Survives(AudioOf[i])'
  BY <1>0, <1>2, <1>3, <1>6 DEF SavePayload, SaveFails
<1>7. ASSUME NEW o \in Ingests, PreflightRow(o) \/ IngestDirectly(o) \/ IngestFails(o) PROVE FALSE
  <2>1. CASE PreflightRow(o)
    <3>1. prog'[i].pc = prog[i].pc \/ prog'[i].pc = "send"
      BY <1>0, <2>1 DEF PreflightRow
    <3> QED
      BY <3>1
  <2> QED
    BY <1>3, <1>7, <2>1 DEF IngestDirectly, IngestFails
<1>8. ASSUME NEW r \in Replayers, ReadDLQ(r) \/ DeleteSent(r) \/ DeleteFails(r) PROVE FALSE
  BY <1>0, <1>4, <1>8 DEF ReadDLQ, DeleteSent, DeleteFails, Jobs
<1>9. ASSUME NEW r \in Replayers, NEW h \in Audios, Resend(r, h) \/ ResendFails(r, h) PROVE FALSE
  BY <1>0, <1>4, <1>9 DEF Resend, ResendFails, Jobs
<1>10. ASSUME NEW f \in EmptyFixers,
              ListEmpty(f) \/ RepairRow(f) \/ RepairFails(f) \/ \E h \in Audios : SelectRepair(f, h)
       PROVE  FALSE
  BY <1>0, <1>3, <1>10 DEF ListEmpty, RepairRow, RepairFails, SelectRepair, Jobs
<1>11. ASSUME NEW f \in EmptyFixers, Verify(f) PROVE FALSE
  BY <1>0, <1>3, <1>4, <1>11 DEF Verify
<1>12. ASSUME NEW b \in Batches,
              ReadRows(b) \/ CommitBatch(b) \/ \E h \in Audios : UpdateRow(b, h) \/ SkipRow(b, h)
       PROVE  FALSE
  BY <1>0, <1>3, <1>12 DEF ReadRows, CommitBatch, UpdateRow, SkipRow, Jobs
<1>13. ASSUME NEW a \in Programs, Quits(a) PROVE FALSE
  BY <1>0, <1>3, <1>13 DEF Quits
<1> QED
  BY <1>5, <1>6, <1>7, <1>8, <1>9, <1>10, <1>11, <1>12, <1>13
     DEF LibraryNext, IngesterStep, SaveStep, IngestStep, ReplayStep, RepairStep, BatchStep

LEMMA StepRemoves ==
    ASSUME LibraryNext, files \subseteq Ingesters
    PROVE  files' = files \/ \E i \in Ingesters : prog[i].pc = "clean" /\ files' = files \ {i}
BY DEF LibraryNext, IngesterStep, SaveStep, IngestStep, ReplayStep, RepairStep, BatchStep,
   Load, Upsert, UpsertFails, RemoveResults, SavePayload, SaveFails, PreflightRow, IngestDirectly,
   IngestFails, ReadDLQ, Resend, DeleteSent, ResendFails, DeleteFails, ListEmpty, SelectRepair,
   RepairRow, RepairFails, Verify, ReadRows, UpdateRow, SkipRow, CommitBatch, Quits

LEMMA ResultsInit == LibraryInit => ResultsInv
<1> SUFFICES ASSUME LibraryInit PROVE ResultsInv
  OBVIOUS
<1>1. files = Ingesters /\ \A i \in Ingesters : prog[i].pc \in {"start", "done"}
  BY RoleFacts DEF LibraryInit
<1> QED
  BY <1>1 DEF ResultsInv

LEMMA ResultsStep == Typed /\ ResultsInv /\ [LibraryNext]_libraryVars => ResultsInv'
<1> SUFFICES ASSUME Typed, ResultsInv, [LibraryNext]_libraryVars PROVE ResultsInv'
  OBVIOUS
<1>1. CASE UNCHANGED libraryVars
  BY <1>1 DEF libraryVars, ResultsInv, Survives
<1>2. CASE LibraryNext
  <2>1. files' \subseteq Ingesters
    BY <1>2, StepRemoves DEF ResultsInv
  <2>2. ASSUME NEW i \in Ingesters, i \notin files' \/ prog'[i].pc = "clean"
        PROVE  Survives(AudioOf[i])'
    <3>1. CASE i \notin files \/ prog[i].pc = "clean"
      BY <1>2, <3>1, StepSurvives, RoleFacts DEF ResultsInv
    <3>2. CASE i \in files /\ prog[i].pc # "clean"
      BY <1>2, <2>2, <3>2, StepRemoves, OnlyIngestersClean DEF ResultsInv
    <3> QED
      BY <3>1, <3>2
  <2> QED
    BY <2>1, <2>2 DEF ResultsInv, Survives
<1> QED
  BY <1>1, <1>2

\* An ingester that has removed its result files has left a row or a saved payload of the
\* audio: ingester.py removes the files after the save, retry_ingest.py deletes after the send.
THEOREM ResultsAreKept == LibrarySpec => []ResultsSurvive
<1>1. ResultsInv => ResultsSurvive
  BY DEF ResultsInv, ResultsSurvive, Survives
<1> QED
  BY <1>1, ResultsInit, ResultsStep, SpecTyped, PTL DEF LibrarySpec

(***************************************************************************)
(* Repairs only fill gaps.  Only a repair makes a document with a mix of   *)
(* its own, and it makes both halves: what is sent, saved, read to be sent *)
(* again or converted is plain.  The batch that writes tags writes the     *)
(* halves that the row still has, since it holds the row's lock.           *)
(***************************************************************************)
Plain(doc) == doc.mix \notin EmptyFixers
RowsFit == \A h \in Audios : rows[h] # NoDoc /\ rows[h].demucs = "old" => Plain(rows[h])
SavedArePlain == \A h \in Audios : dlq[h] # NoDoc => Plain(dlq[h])
MadeArePlain ==
    \A a \in Ingesters \cup Ingests :
       prog[a].pc \in {"send", "save"} => Plain(prog[a].doc) /\ prog[a].doc.demucs # "old"
ReadArePlain ==
    \A a \in Replayers \cup HnrTools : \A h \in DOMAIN prog[a].read : Plain(prog[a].read[h])
BatchesFit ==
    /\ \A b \in HnrTools : \A h \in DOMAIN pending[b] : Plain(pending[b][h])
    /\ \A b \in MetaTools : \A h \in DOMAIN pending[b] :
          /\ rows[h] # NoDoc
          /\ pending[b][h].mix = rows[h].mix /\ pending[b][h].demucs = rows[h].demucs
    /\ \A b, c \in Batches : b # c => DOMAIN pending[b] \cap DOMAIN pending[c] = {}
GapInv == RowsFit /\ SavedArePlain /\ MadeArePlain /\ ReadArePlain /\ BatchesFit

\* A document that may be written over the row of h.
Fits(h, doc) ==
    /\ ~Plain(doc) => rows[h] # NoDoc /\ (rows[h].mix = doc.mix \/ IsEmpty(rows[h]))
    /\ doc.demucs = "old" => Plain(doc)
\* A write that fits, of rows that nobody holds after it.
FittingWrite ==
    \E docs \in Reads :
       /\ Write(docs)
       /\ \A h \in DOMAIN docs : Fits(h, docs[h])
       /\ \A b \in Batches : DOMAIN pending'[b] \cap DOMAIN docs = {}

LEMMA OneRowFits ==
    ASSUME NEW h \in Audios, NEW doc \in Docs, Fits(h, doc), pending' = pending
    PROVE  /\ Write(Only(h, doc)) /\ Free(h) => FittingWrite
           /\ MaybeWrite(h, doc) => rows' = rows \/ FittingWrite
<1>1. /\ Only(h, doc) \in Reads
      /\ DOMAIN Only(h, doc) = {h} /\ Only(h, doc)[h] = doc
  BY OnlyIsRead
<1>2. ASSUME Write(Only(h, doc)), Free(h) PROVE FittingWrite
  BY <1>1, <1>2 DEF FittingWrite, Free
<1> QED
  BY <1>2 DEF MaybeWrite, tables

\* What the tools read to write it again is plain: a row with an old half was not repaired.
LEMMA OldIsPlain ==
    ASSUME Typed, GapInv, NEW h \in Audios, rows[h] # NoDoc, HasOld(rows[h])
    PROVE  Plain(rows[h]) /\ Plain(Converted(rows[h]))
<1>1. rows[h] \in Docs
  BY DEF Typed, TablesTyped
<1>2. Plain(rows[h])
  BY <1>1, LibraryAssumption DEF GapInv, RowsFit, HasOld, Plain, Programs
<1>3. Converted(rows[h]).mix \in {rows[h].mix, "nap"}
  BY <1>1 DEF Converted, Docs
<1> QED
  BY <1>2, <1>3, LibraryAssumption DEF Plain, Programs

LEMMA MergedFits ==
    ASSUME Typed, GapInv, NEW o \in Ingests, prog[o].pc = "send"
    PROVE  Fits(prog[o].at, MergedRow(o))
<1>1. /\ prog[o].at \in Audios /\ prog[o].doc \in Docs
      /\ Plain(prog[o].doc) /\ prog[o].doc.demucs # "old"
  BY JobDocs DEF GapInv, MadeArePlain
<1>2. CASE rows[prog[o].at] = NoDoc
  BY <1>1, <1>2 DEF MergedRow, Fits
<1>3. CASE rows[prog[o].at] # NoDoc
  <2> DEFINE row == rows[prog[o].at]
  <2>1. /\ MergedRow(o).mix = (IF prog[o].doc.mix = "none" THEN row.mix ELSE prog[o].doc.mix)
        /\ MergedRow(o).demucs \in {row.demucs, prog[o].doc.demucs}
    BY <1>3 DEF MergedRow
  <2>2. row.demucs = "old" => Plain(row)
    BY <1>1, <1>3 DEF GapInv, RowsFit
  <2> QED
    BY <1>1, <1>3, <2>1, <2>2 DEF Fits, Plain
<1> QED
  BY <1>2, <1>3

LEMMA RepairedFits ==
    ASSUME Typed, NEW f \in EmptyFixers, prog[f].pc = "repair", StillEmpty(f)
    PROVE  Fits(prog[f].at, Repaired(f))
<1>1. rows[prog[f].at] # NoDoc
  BY RoleFacts DEF Typed, Standing
<1>2. Repaired(f).demucs = f /\ f # "old"
  BY RoleFacts, LibraryAssumption DEF Repaired
<1> QED
  BY <1>1, <1>2 DEF Fits, StillEmpty

LEMMA BatchFits ==
    ASSUME Typed, GapInv, NEW b \in Batches, NEW h \in DOMAIN pending[b]
    PROVE  Fits(h, pending[b][h]) /\ h \in Audios
<1>1. h \in Audios
  BY ReadsHoldDocs DEF Typed, TablesTyped
<1>2. CASE b \in HnrTools
  BY <1>1, <1>2 DEF GapInv, BatchesFit, Fits
<1>3. CASE b \in MetaTools
  <2>1. /\ rows[h] # NoDoc
        /\ pending[b][h].mix = rows[h].mix /\ pending[b][h].demucs = rows[h].demucs
    BY <1>3 DEF GapInv, BatchesFit
  <2>2. rows[h].demucs = "old" => Plain(rows[h])
    BY <1>1, <2>1 DEF GapInv, RowsFit
  <2> QED
    BY <1>1, <2>1, <2>2 DEF Fits, Plain
<1> QED
  BY <1>2, <1>3 DEF Batches

\* Every step leaves the rows alone, or is one write that fits.
LEMMA StepFits ==
    ASSUME Typed, GapInv, LibraryNext
    PROVE  rows' = rows \/ FittingWrite
<1>1. ASSUME NEW i \in Ingesters, Load(i) \/ RemoveResults(i) PROVE rows' = rows
  BY <1>1 DEF Load, RemoveResults, tables
<1>2. ASSUME NEW i \in Ingesters, Upsert(i) \/ UpsertFails(i) PROVE rows' = rows \/ FittingWrite
  <2>1. prog[i].pc = "send" /\ pending' = pending
    BY <1>2 DEF Upsert, UpsertFails
  <2>2. prog[i].doc \in Docs /\ prog[i].at \in Audios /\ Fits(prog[i].at, prog[i].doc)
    BY <2>1, JobDocs DEF GapInv, MadeArePlain, Fits
  <2> QED
    BY <1>2, <2>1, <2>2, OneRowFits DEF Upsert, UpsertFails
<1>3. ASSUME NEW a \in Ingesters \cup Ingests, SavePayload(a) \/ SaveFails(a) PROVE rows' = rows
  BY <1>3 DEF SavePayload, SaveFails, tables
<1>4. ASSUME NEW o \in Ingests, PreflightRow(o) PROVE rows' = rows
  BY <1>4 DEF PreflightRow
<1>5. ASSUME NEW o \in Ingests, IngestDirectly(o) \/ IngestFails(o) PROVE rows' = rows \/ FittingWrite
  <2>1. prog[o].pc = "send" /\ pending' = pending
    BY <1>5 DEF IngestDirectly, IngestFails
  <2>2. MergedRow(o) \in Docs /\ prog[o].at \in Audios /\ Fits(prog[o].at, MergedRow(o))
    BY <2>1, MergedDocs, MergedFits, JobDocs
  <2> QED
    BY <1>5, <2>1, <2>2, OneRowFits DEF IngestDirectly, IngestFails, tables
<1>6. ASSUME NEW r \in Replayers, ReadDLQ(r) \/ DeleteSent(r) \/ DeleteFails(r) PROVE rows' = rows
  BY <1>6 DEF ReadDLQ, DeleteSent, DeleteFails, tables
<1>7. ASSUME NEW r \in Replayers, NEW h \in Audios, Resend(r, h) \/ ResendFails(r, h)
      PROVE  rows' = rows \/ FittingWrite
  <2>1. h \in DOMAIN prog[r].read /\ pending' = pending
    BY <1>7 DEF Resend, ResendFails
  <2>2. prog[r].read[h] \in Docs /\ Plain(prog[r].read[h])
    BY <2>1, RoleFacts, ReadsOfAudios, ReadsHoldDocs DEF GapInv, ReadArePlain
  <2> QED
    BY <1>7, <2>1, <2>2, OneRowFits DEF Resend, ResendFails, Fits
<1>8. ASSUME NEW f \in EmptyFixers, ListEmpty(f) \/ Verify(f) \/ \E h \in Audios : SelectRepair(f, h)
      PROVE  rows' = rows
  BY <1>8 DEF ListEmpty, Verify, SelectRepair, tables
<1>9. ASSUME NEW f \in EmptyFixers, RepairRow(f) \/ RepairFails(f) PROVE rows' = rows \/ FittingWrite
  <2>1. prog[f].pc = "repair" /\ pending' = pending
    BY <1>9 DEF RepairRow, RepairFails
  <2>2. Repaired(f) \in Docs /\ prog[f].at \in Audios
    BY <2>1, RepairedDocs
  <2>3. StillEmpty(f) => Fits(prog[f].at, Repaired(f))
    BY <2>1, RepairedFits
  <2> QED
    BY <1>9, <2>1, <2>2, <2>3, OneRowFits DEF RepairRow, RepairFails, tables
<1>10. ASSUME NEW b \in Batches, ReadRows(b) \/ \E h \in Audios : UpdateRow(b, h) \/ SkipRow(b, h)
       PROVE  rows' = rows
  BY <1>10 DEF ReadRows, UpdateRow, SkipRow, tables
<1>11. ASSUME NEW b \in Batches, CommitBatch(b) PROVE FittingWrite
  <2>1. pending[b] \in Reads /\ Write(pending[b])
    BY <1>11 DEF CommitBatch, Typed, TablesTyped
  <2>2. \A c \in Batches : DOMAIN pending'[c] \cap DOMAIN pending[b] = {}
    BY <1>11, NoRowsIsRead DEF CommitBatch, Typed, TablesTyped, GapInv, BatchesFit
  <2> QED
    BY <2>1, <2>2, BatchFits DEF FittingWrite
<1>12. ASSUME NEW a \in Programs, Quits(a) PROVE rows' = rows
  BY <1>12 DEF Quits, tables
<1> QED
  BY <1>1, <1>2, <1>3, <1>4, <1>5, <1>6, <1>7, <1>8, <1>9, <1>10, <1>11, <1>12
     DEF LibraryNext, IngesterStep, SaveStep, IngestStep, ReplayStep, RepairStep, BatchStep

LEMMA RowsFitStep ==
    ASSUME Typed, GapInv, LibraryNext
    PROVE  RowsFit'
<1>1. CASE rows' = rows
  BY <1>1 DEF GapInv, RowsFit, Plain
<1>2. CASE FittingWrite
  BY <1>2, WriteFacts DEF FittingWrite, Typed, GapInv, RowsFit, Fits, Plain
<1> QED
  BY <1>1, <1>2, StepFits

LEMMA SavedStep ==
    ASSUME Typed, GapInv, LibraryNext
    PROVE  SavedArePlain'
<1>1. ASSUME NEW a \in Ingesters \cup Ingests, SavePayload(a) PROVE SavedArePlain'
  <2>1. prog[a].at \in Audios /\ Plain(prog[a].doc)
    BY <1>1, JobDocs DEF SavePayload, GapInv, MadeArePlain
  <2> QED
    BY <1>1, <2>1 DEF SavePayload, GapInv, SavedArePlain, Plain, Typed, TablesTyped
<1>2. ASSUME NEW r \in Replayers, DeleteSent(r) PROVE SavedArePlain'
  BY <1>2 DEF DeleteSent, GapInv, SavedArePlain, Plain, Typed, TablesTyped
<1>3. CASE dlq' = dlq
  BY <1>3 DEF GapInv, SavedArePlain, Plain
<1>4. \/ \E a \in Ingesters \cup Ingests : SavePayload(a)
      \/ \E r \in Replayers : DeleteSent(r)
      \/ dlq' = dlq
  BY DEF LibraryNext, IngesterStep, SaveStep, IngestStep, ReplayStep, RepairStep, BatchStep,
     Load, Upsert, UpsertFails, RemoveResults, SaveFails, PreflightRow, IngestDirectly, IngestFails,
     ReadDLQ, Resend, ResendFails, DeleteFails, ListEmpty, SelectRepair, RepairRow, RepairFails,
     Verify, ReadRows, UpdateRow, SkipRow, CommitBatch, Quits
<1> QED
  BY <1>1, <1>2, <1>3, <1>4

\* What a step does to one program.
Moved(a) == prog'[a].doc = prog[a].doc
Shrunk(a) ==
    /\ DOMAIN prog'[a].read \subseteq DOMAIN prog[a].read
    /\ \A h \in DOMAIN prog'[a].read : prog'[a].read[h] = prog[a].read[h]

LEMMA GotoShrinks ==
    ASSUME Typed, NEW a \in Programs, NEW pc, Goto(a, pc), NEW x \in Programs
    PROVE  Moved(x) /\ Shrunk(x) /\ prog'[x].pc = (IF x = a THEN pc ELSE prog[x].pc)
BY DEF Goto, Typed, JobsTyped, Jobs, Moved, Shrunk

LEMMA ProceedShrinks ==
    ASSUME Typed, NEW a \in Programs, NEW h, NEW pc, Proceed(a, h, pc), NEW x \in Programs
    PROVE  Moved(x) /\ Shrunk(x) /\ prog'[x].pc \in (IF x = a THEN {pc, "done"} ELSE {prog[x].pc})
BY DEF Proceed, Typed, JobsTyped, Jobs, Moved, Shrunk, Without

LEMMA MadeStep ==
    ASSUME Typed, GapInv, LibraryNext
    PROVE  MadeArePlain'
<1> DEFINE Kept(x) == /\ prog'[x].doc = prog[x].doc
                      /\ prog'[x].pc \in {"send", "save"} => prog[x].pc \in {"send", "save"}
           Good(x) == /\ prog'[x].doc.mix \notin EmptyFixers
                      /\ prog'[x].doc.demucs # "old"
<1> USE RoleFacts
<1>0. prog \in [Programs -> Jobs]
  BY DEF Typed, JobsTyped
<1> SUFFICES ASSUME NEW x \in Ingesters \cup Ingests PROVE Kept(x) \/ Good(x)
  BY DEF GapInv, MadeArePlain, Plain
<1>1. ASSUME NEW i \in Ingesters, Load(i) PROVE Kept(x) \/ Good(x)
  <2>1. PICK made \in {i, "none"}, tags \in {"none", "tags"} :
           prog' = [prog EXCEPT ![i].pc = "send",
                              ![i].doc = [mix |-> made, demucs |-> made, tags |-> tags]]
    BY <1>1 DEF Load
  <2>2. x # i => Kept(x)
    BY <1>0, <2>1 DEF Jobs
  <2>3. x = i => prog'[x].doc = [mix |-> made, demucs |-> made, tags |-> tags]
    BY <1>0, <2>1 DEF Jobs
  <2>4. x = i => Good(x)
    BY <2>3, LibraryAssumption DEF Programs
  <2> QED
    BY <2>2, <2>4
<1>2. ASSUME NEW o \in Ingests, PreflightRow(o) PROVE Kept(x) \/ Good(x)
  <2>1. PICK made, deep \in {o, "none"} :
           prog' = [prog EXCEPT ![o].pc = "send",
                              ![o].doc = [mix |-> made, demucs |-> deep, tags |-> "full"],
                              ![o].read = SnapshotOf(prog[o].at)]
    BY <1>2 DEF PreflightRow
  <2>2. x # o => Kept(x)
    BY <1>0, <2>1 DEF Jobs
  <2>3. x = o => prog'[x].doc = [mix |-> made, demucs |-> deep, tags |-> "full"]
    BY <1>0, <2>1 DEF Jobs
  <2>4. x = o => Good(x)
    BY <2>3, LibraryAssumption DEF Programs
  <2> QED
    BY <2>2, <2>4
<1>3. ASSUME NEW a \in Programs, NEW pc, Goto(a, pc),
             pc \in {"send", "save"} => prog[a].pc \in {"send", "save"} \/ x # a
      PROVE  Kept(x)
  BY <1>3, GotoShrinks DEF Moved
<1>4. ASSUME NEW a \in Programs, NEW h, NEW pc \in {"replay", "list"}, Proceed(a, h, pc) PROVE Kept(x)
  BY <1>4, ProceedShrinks DEF Moved
<1>5. ASSUME NEW i \in Ingesters, Upsert(i) \/ UpsertFails(i) \/ RemoveResults(i) PROVE Kept(x)
  BY <1>3, <1>5 DEF Upsert, UpsertFails, RemoveResults
<1>6. ASSUME NEW a \in Ingesters \cup Ingests, SavePayload(a) \/ SaveFails(a) PROVE Kept(x)
  BY <1>3, <1>6 DEF SavePayload, SaveFails
<1>7. ASSUME NEW o \in Ingests, IngestDirectly(o) \/ IngestFails(o) PROVE Kept(x)
  BY <1>3, <1>7 DEF IngestDirectly, IngestFails
<1>8. ASSUME NEW r \in Replayers, ReadDLQ(r) \/ DeleteSent(r) \/ DeleteFails(r) PROVE Kept(x)
  BY <1>0, <1>4, <1>8 DEF ReadDLQ, DeleteSent, DeleteFails
<1>9. ASSUME NEW r \in Replayers, NEW h \in Audios, Resend(r, h) \/ ResendFails(r, h) PROVE Kept(x)
  BY <1>0, <1>4, <1>9 DEF Resend, ResendFails
<1>10. ASSUME NEW f \in EmptyFixers, ListEmpty(f) \/ \E h \in Audios : SelectRepair(f, h)
       PROVE  Kept(x)
  BY <1>0, <1>10 DEF ListEmpty, SelectRepair
<1>11. ASSUME NEW f \in EmptyFixers, RepairRow(f) \/ RepairFails(f) \/ Verify(f) PROVE Kept(x)
  BY <1>3, <1>4, <1>11 DEF RepairRow, RepairFails, Verify
<1>12. ASSUME NEW b \in Batches, ReadRows(b) \/ \E h \in Audios : UpdateRow(b, h) \/ SkipRow(b, h)
       PROVE  Kept(x)
  BY <1>0, <1>12 DEF ReadRows, UpdateRow, SkipRow
<1>13. ASSUME NEW b \in Batches, CommitBatch(b) PROVE Kept(x)
  BY <1>3, <1>13 DEF CommitBatch
<1>14. ASSUME NEW a \in Programs, Quits(a) PROVE Kept(x)
  BY <1>3, <1>14 DEF Quits
<1> HIDE DEF Kept, Good
<1> QED
  BY <1>1, <1>2, <1>5, <1>6, <1>7, <1>8, <1>9, <1>10, <1>11, <1>12, <1>13, <1>14
     DEF LibraryNext, IngesterStep, SaveStep, IngestStep, ReplayStep, RepairStep, BatchStep

LEMMA ReadStep ==
    ASSUME Typed, GapInv, LibraryNext
    PROVE  ReadArePlain'
<1> USE RoleFacts
<1>0. prog \in [Programs -> Jobs] /\ HnrTools \subseteq Programs /\ HnrTools \subseteq Batches
  BY DEF Typed, JobsTyped, Batches
<1> DEFINE Good(x) == \A h \in DOMAIN prog'[x].read : prog'[x].read[h].mix \notin EmptyFixers
<1> SUFFICES ASSUME NEW x \in Replayers \cup HnrTools PROVE Shrunk(x) \/ Good(x)
  BY DEF GapInv, ReadArePlain, Plain, Shrunk
<1>1. ASSUME NEW r \in Replayers, ReadDLQ(r) PROVE Shrunk(x) \/ Good(x)
  <2>1. x # r => prog'[x].read = prog[x].read
    BY <1>0, <1>1 DEF ReadDLQ
  <2>2. x = r => prog'[x].read = [h \in {h \in Audios : dlq[h] # NoDoc} |-> dlq[h]]
    BY <1>0, <1>1 DEF ReadDLQ, Jobs
  <2> QED
    BY <2>1, <2>2 DEF Shrunk, GapInv, SavedArePlain, Plain
<1>2. ASSUME NEW b \in Batches, ReadRows(b) PROVE Shrunk(x) \/ Good(x)
  <2>1. x # b => prog'[x].read = prog[x].read
    BY <1>0, <1>2 DEF ReadRows
  <2>2. x = b => prog'[x].read = [h \in RowsWith(HasOld) |-> Converted(rows[h])]
    BY <1>0, <1>2 DEF ReadRows, Jobs
  <2>3. \A h \in RowsWith(HasOld) : Converted(rows[h]).mix \notin EmptyFixers
    BY OldIsPlain DEF RowsWith, Plain
  <2> QED
    BY <2>1, <2>2, <2>3 DEF Shrunk
<1>3. ASSUME NEW a \in Programs, NEW pc, Goto(a, pc) PROVE Shrunk(x)
  BY <1>0, <1>3, GotoShrinks
<1>4. ASSUME NEW a \in Programs, NEW h, NEW pc, Proceed(a, h, pc) PROVE Shrunk(x)
  BY <1>0, <1>4, ProceedShrinks
<1>5. ASSUME NEW i \in Ingesters, Load(i) PROVE Shrunk(x)
  BY <1>0, <1>5 DEF Load, Shrunk
<1>6. ASSUME NEW i \in Ingesters, Upsert(i) \/ UpsertFails(i) \/ RemoveResults(i) PROVE Shrunk(x)
  BY <1>3, <1>6 DEF Upsert, UpsertFails, RemoveResults
<1>7. ASSUME NEW a \in Ingesters \cup Ingests, SavePayload(a) \/ SaveFails(a) PROVE Shrunk(x)
  BY <1>3, <1>7 DEF SavePayload, SaveFails
<1>8. ASSUME NEW o \in Ingests, PreflightRow(o) PROVE Shrunk(x)
  BY <1>0, <1>8 DEF PreflightRow, Shrunk
<1>9. ASSUME NEW o \in Ingests, IngestDirectly(o) \/ IngestFails(o) PROVE Shrunk(x)
  BY <1>3, <1>9 DEF IngestDirectly, IngestFails
<1>10. ASSUME NEW r \in Replayers, DeleteSent(r) \/ DeleteFails(r) PROVE Shrunk(x)
  BY <1>4, <1>10 DEF DeleteSent, DeleteFails
<1>11. ASSUME NEW r \in Replayers, NEW h \in Audios, Resend(r, h) PROVE Shrunk(x)
  BY <1>0, <1>11 DEF Resend, Shrunk, Jobs
<1>12. ASSUME NEW r \in Replayers, NEW h \in Audios, ResendFails(r, h) PROVE Shrunk(x)
  BY <1>4, <1>12 DEF ResendFails
<1>13. ASSUME NEW f \in EmptyFixers, ListEmpty(f) \/ \E h \in Audios : SelectRepair(f, h)
       PROVE  Shrunk(x)
  BY <1>0, <1>13 DEF ListEmpty, SelectRepair, Shrunk
<1>14. ASSUME NEW f \in EmptyFixers, RepairRow(f) \/ RepairFails(f) \/ Verify(f) PROVE Shrunk(x)
  BY <1>3, <1>4, <1>14 DEF RepairRow, RepairFails, Verify
<1>15. ASSUME NEW b \in Batches, NEW h \in Audios, UpdateRow(b, h) \/ SkipRow(b, h) PROVE Shrunk(x)
  BY <1>0, <1>15 DEF UpdateRow, SkipRow, Shrunk, Without, Jobs
<1>16. ASSUME NEW b \in Batches, CommitBatch(b) PROVE Shrunk(x)
  BY <1>3, <1>16 DEF CommitBatch
<1>17. ASSUME NEW a \in Programs, Quits(a) PROVE Shrunk(x)
  BY <1>3, <1>17 DEF Quits
<1> HIDE DEF Good
<1> QED
  BY <1>1, <1>2, <1>5, <1>6, <1>7, <1>8, <1>9, <1>10, <1>11, <1>12, <1>13, <1>14, <1>15, <1>16,
     <1>17
     DEF LibraryNext, IngesterStep, SaveStep, IngestStep, ReplayStep, RepairStep, BatchStep

\* Whatever a batch holds, the next step leaves the row alone.
LEMMA LockedRows ==
    ASSUME Typed, GapInv, LibraryNext, NEW b \in Batches, NEW h \in Audios, h \in DOMAIN pending'[b]
    PROVE  rows'[h] = rows[h]
BY StepFits, WriteFacts DEF FittingWrite, Typed

LEMMA UpdateFits ==
    ASSUME Typed, GapInv, LibraryNext, NEW b \in Batches, NEW h \in Audios, UpdateRow(b, h)
    PROVE  BatchesFit'
<1> DEFINE doc == IF b \in HnrTools THEN [prog[b].read[h] EXCEPT !.tags = rows[h].tags]
                  ELSE [rows[h] EXCEPT !.tags = "tags"]
<1>1. /\ h \in DOMAIN prog[b].read /\ rows' = rows
      /\ \A other \in Batches \ {b} : h \notin DOMAIN pending[other]
      /\ pending' = [pending EXCEPT ![b] = With(pending[b], h, doc)]
  BY DEF UpdateRow, tables, Typed, TablesTyped
<1>2. /\ prog[b].read \in Reads /\ prog[b].read[h] \in Docs /\ rows[h] \in Docs /\ rows[h] # NoDoc
  BY <1>1, RoleFacts, ReadsOfAudios, ReadsHoldDocs DEF Typed, TablesTyped, Standing
<1>3. doc \in Docs
  BY <1>2 DEF Docs
<1>4. b \in HnrTools => Plain(doc)
  <2>1. b \in HnrTools => Plain(prog[b].read[h])
    BY <1>1 DEF GapInv, ReadArePlain
  <2> QED
    BY <1>2, <2>1 DEF Plain, Docs
<1>5. b \in MetaTools => doc.mix = rows[h].mix /\ doc.demucs = rows[h].demucs
  BY <1>2, LibraryAssumption DEF Docs
<1> HIDE DEF doc
<1>6. /\ DOMAIN With(pending[b], h, doc) = DOMAIN pending[b] \cup {h}
      /\ With(pending[b], h, doc)[h] = doc
      /\ \A x \in DOMAIN pending[b] \ {h} : With(pending[b], h, doc)[x] = pending[b][x]
  <2>1. pending[b] \in Reads
    BY DEF Typed, TablesTyped
  <2> QED
    BY <1>3, <2>1, WithIsRead
<1>7. /\ \A c \in Batches \ {b} : pending'[c] = pending[c]
      /\ DOMAIN pending'[b] = DOMAIN pending[b] \cup {h}
      /\ pending'[b][h] = doc
      /\ \A x \in DOMAIN pending[b] \ {h} : pending'[b][x] = pending[b][x]
  BY <1>1, <1>6 DEF Typed, TablesTyped
<1>8. \A c \in HnrTools : \A x \in DOMAIN pending'[c] : pending'[c][x].mix \notin EmptyFixers
  BY <1>4, <1>7 DEF GapInv, BatchesFit, Plain, Batches
<1>9. \A c \in MetaTools : \A x \in DOMAIN pending'[c] :
         /\ rows[x] # NoDoc
         /\ pending'[c][x].mix = rows[x].mix /\ pending'[c][x].demucs = rows[x].demucs
  BY <1>2, <1>5, <1>7 DEF GapInv, BatchesFit, Batches
<1>10. \A c, d \in Batches : c # d => DOMAIN pending'[c] \cap DOMAIN pending'[d] = {}
  BY <1>1, <1>7 DEF GapInv, BatchesFit
<1> QED
  BY <1>1, <1>8, <1>9, <1>10 DEF BatchesFit, Plain

LEMMA BatchesStep ==
    ASSUME Typed, GapInv, LibraryNext
    PROVE  BatchesFit'
<1>1. ASSUME \A b \in Batches : \/ pending'[b] = pending[b]
                                \/ DOMAIN pending'[b] = {}
      PROVE  BatchesFit'
  <2>1. \A c \in HnrTools : \A x \in DOMAIN pending'[c] : pending'[c][x].mix \notin EmptyFixers
    BY <1>1 DEF GapInv, BatchesFit, Plain, Batches
  <2>2. ASSUME NEW c \in MetaTools, NEW x \in DOMAIN pending'[c]
        PROVE  /\ rows'[x] # NoDoc
               /\ pending'[c][x].mix = rows'[x].mix /\ pending'[c][x].demucs = rows'[x].demucs
    <3>1. c \in Batches /\ pending'[c] = pending[c]
      BY <1>1, <2>2 DEF Batches
    <3>2. x \in Audios
      BY <2>2, <3>1, ReadsHoldDocs DEF Typed, TablesTyped
    <3>3. rows'[x] = rows[x]
      BY <2>2, <3>1, <3>2, LockedRows
    <3> QED
      BY <2>2, <3>1, <3>3 DEF GapInv, BatchesFit
  <2>3. \A c, d \in Batches : c # d => DOMAIN pending'[c] \cap DOMAIN pending'[d] = {}
    BY <1>1 DEF GapInv, BatchesFit
  <2> QED
    BY <2>1, <2>2, <2>3 DEF BatchesFit, Plain
<1>2. ASSUME NEW b \in Batches, CommitBatch(b) PROVE BatchesFit'
  BY <1>1, <1>2, NoRowsIsRead DEF CommitBatch, Typed, TablesTyped
<1>3. ASSUME NEW a \in Programs, Quits(a) PROVE BatchesFit'
  BY <1>1, <1>3, NoRowsIsRead DEF Quits
<1>4. CASE pending' = pending
  BY <1>1, <1>4
<1>5. \/ \E b \in Batches : CommitBatch(b) \/ \E h \in Audios : UpdateRow(b, h)
      \/ \E a \in Programs : Quits(a)
      \/ pending' = pending
  BY DEF LibraryNext, IngesterStep, SaveStep, IngestStep, ReplayStep, RepairStep, BatchStep,
     Load, Upsert, UpsertFails, RemoveResults, SavePayload, SaveFails, PreflightRow, IngestDirectly,
     IngestFails, ReadDLQ, Resend, DeleteSent, ResendFails, DeleteFails, ListEmpty, SelectRepair,
     RepairRow, RepairFails, Verify, ReadRows, SkipRow
<1> QED
  BY <1>2, <1>3, <1>4, <1>5, UpdateFits

LEMMA GapInit == LibraryInit => GapInv
<1> SUFFICES ASSUME LibraryInit PROVE GapInv
  OBVIOUS
<1>1. Plain(Old)
  BY LibraryAssumption DEF Plain, Old, Programs
<1>2. RowsFit /\ SavedArePlain
  <2>1. rows \in [Audios -> {NoDoc, Old, Blank, Half}] /\ dlq \in [Audios -> {NoDoc, Old}]
    BY DEF LibraryInit
  <2>2. Blank.demucs # "old" /\ Half.demucs # "old"
    BY DEF Blank, Half
  <2> QED
    BY <1>1, <2>1, <2>2 DEF RowsFit, SavedArePlain
<1>3. MadeArePlain /\ ReadArePlain
  <2>1. \A a \in Programs : prog[a].pc \in {"start", "done"} /\ prog[a].read = NoRows
    BY DEF LibraryInit
  <2> QED
    BY <2>1, RoleFacts, NoRowsIsRead DEF MadeArePlain, ReadArePlain, Batches
<1>4. BatchesFit
  BY NoRowsIsRead DEF LibraryInit, BatchesFit, Batches
<1> QED
  BY <1>2, <1>3, <1>4 DEF GapInv

LEMMA GapStep == Typed /\ GapInv /\ [LibraryNext]_libraryVars => GapInv'
<1> SUFFICES ASSUME Typed, GapInv, [LibraryNext]_libraryVars PROVE GapInv'
  OBVIOUS
<1>1. CASE UNCHANGED libraryVars
  BY <1>1 DEF libraryVars, GapInv, RowsFit, SavedArePlain, MadeArePlain, ReadArePlain,
     BatchesFit, Plain
<1>2. CASE LibraryNext
  BY <1>2, RowsFitStep, SavedStep, MadeStep, ReadStep, BatchesStep DEF GapInv
<1> QED
  BY <1>1, <1>2

LEMMA StepFillsGaps ==
    ASSUME Typed, GapInv, [LibraryNext]_libraryVars, NEW h \in Audios, NEW f \in EmptyFixers,
           rows'[h] # NoDoc, rows'[h].mix = f
    PROVE  rows[h] # NoDoc /\ (rows[h].mix = f \/ IsEmpty(rows[h]))
<1>1. CASE rows' = rows
  BY <1>1
<1>2. CASE FittingWrite
  <2>1. PICK docs \in Reads : Write(docs) /\ \A x \in DOMAIN docs : Fits(x, docs[x])
    BY <1>2 DEF FittingWrite
  <2>2. CASE h \in DOMAIN docs
    BY <2>1, <2>2, WriteFacts DEF Typed, Fits, Plain
  <2>3. CASE h \notin DOMAIN docs
    BY <2>1, <2>3, WriteFacts DEF Typed
  <2> QED
    BY <2>2, <2>3
<1> QED
  BY <1>1, <1>2, StepFits DEF libraryVars

\* A repair never replaces what another program stored since the record was found empty: its
\* update is guarded by the empty features, and nobody carries its document to another row.
THEOREM RepairsAreGuarded == LibrarySpec => RepairsFillGaps
<1>1. Typed /\ GapInv /\ [LibraryNext]_libraryVars =>
        [\A h \in Audios, f \in EmptyFixers :
           rows'[h] # NoDoc /\ rows'[h].mix = f =>
              rows[h] # NoDoc /\ (rows[h].mix = f \/ IsEmpty(rows[h]))]_libraryVars
  BY StepFillsGaps
<1> QED
  BY <1>1, GapInit, GapStep, SpecTyped, PTL DEF LibrarySpec, RepairsFillGaps
=============================================================================
