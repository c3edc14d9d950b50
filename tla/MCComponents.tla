---------------------------- MODULE MCComponents ----------------------------
(***************************************************************************)
(* The components that share no variable, side by side: the GPU lock, the  *)
(* pool of feature daemons, the Demucs pool with its slots, the books of   *)
(* admission, the writers of tags, the decoding of a file, and the writers *)
(* of the library.  Each is explored alone: a behaviour belongs to one of  *)
(* them, its part, and the others stay as they began.                      *)
(***************************************************************************)
EXTENDS GPUArbiter, WorkerPool, DemucsPool, Admission, FlacTagger, FlacDecode, Library

CONSTANTS
    Parts,                      \* the components a run explores
    c1, c2, c3, c4,             \* a Demucs stage, a lane, a cleanup, and one more caller
    l1, l2, l3, p1, d1, d2,     \* lanes, a warmer, daemons
    s1, s2, m1,                 \* separations, a mix-only decode
    r1, r2, k1, k2,             \* runs and keys of admission
    t1, t2, q1, h1, ka, kh,     \* taggers, a repair tool, the migration, two tags
    a1, i1, o1, x1, f1, b1, b2  \* an audio, its writers, a replay, a repair, batches

OneAudio == [w \in {i1, o1} |-> a1]

VARIABLE part

allVars ==
    <<vars, poolVars, demucsVars, admissionVars, taggerVars, decodeVars, libraryVars>>

\* Cue sheets of up to two tracks: in and out of order, past the end of the file, without
\* an index, with the same number, and an index that has no track.
Track(n, start) == <<[line |-> "TRACK", n |-> n], [line |-> "INDEX", n |-> start]>>
Tracks == {Track(n, s) : n \in {1, 2}, s \in {0, 1, 3, 5}} \cup {<<[line |-> "TRACK", n |-> 2]>>}
CueSheets ==
    {<<>>, <<[line |-> "INDEX", n |-> 1]>>} \cup Tracks \cup {a \o b : a, b \in Tracks}

\* A file that is not explored has no cue sheet and no tag, and such a library no row and no
\* program.
ComponentsInit ==
    /\ part \in Parts
    /\ part = "tagger" \/ flac = [tags |-> NoTags, whole |-> TRUE]
    /\ \/ part = "decode"
       \/ file = [text |-> <<>>, block |-> <<>>, bits |-> 16, readable |-> TotalSamples]
    /\ \/ part = "library"
       \/ /\ rows = [h \in Audios |-> NoDoc] /\ dlq = rows
          /\ faultsLeft = LibraryBudget
    /\ Init /\ PoolInit /\ DemucsInit /\ AdmissionInit /\ TaggerInit /\ DecodeInit
    /\ LibraryInit

GPUStep ==
    /\ part = "gpu" /\ Next
    /\ UNCHANGED <<part, poolVars, demucsVars, admissionVars, taggerVars, decodeVars, libraryVars>>
WorkersStep ==
    /\ part = "workers" /\ PoolNext
    /\ UNCHANGED <<part, vars, demucsVars, admissionVars, taggerVars, decodeVars, libraryVars>>
DemucsStep ==
    /\ part = "demucs" /\ DemucsNext
    /\ UNCHANGED <<part, vars, poolVars, admissionVars, taggerVars, decodeVars, libraryVars>>
AdmissionStep ==
    /\ part = "admission" /\ AdmissionNext
    /\ UNCHANGED <<part, vars, poolVars, demucsVars, taggerVars, decodeVars, libraryVars>>
TaggerStep ==
    /\ part = "tagger" /\ TaggerNext
    /\ UNCHANGED <<part, vars, poolVars, demucsVars, admissionVars, decodeVars, libraryVars>>
DecodeStep ==
    /\ part = "decode" /\ DecodeNext
    /\ UNCHANGED <<part, vars, poolVars, demucsVars, admissionVars, taggerVars, libraryVars>>

LibraryStep ==
    /\ part = "library" /\ LibraryNext
    /\ UNCHANGED <<part, vars, poolVars, demucsVars, admissionVars, taggerVars, decodeVars>>

ComponentsNext ==
    \/ GPUStep \/ WorkersStep \/ DemucsStep \/ AdmissionStep \/ TaggerStep \/ DecodeStep
    \/ LibraryStep

ComponentsSpec == ComponentsInit /\ [][ComponentsNext]_<<part, allVars>>

\* The fair actions of a component that does not move are disabled from the start.
FairComponentsSpec == ComponentsSpec /\ Fairness /\ PoolFairness

\* A waiting lane is not passed over again and again.
HandedOnSpec == FairComponentsSpec /\ PoolHandOff
=============================================================================
