----------------------------- MODULE FlacDecode -----------------------------
(***************************************************************************)
(* From a FLAC file to audio and hash (flac_decode.py, worker_hash.py):    *)
(* the slices that a cue sheet cuts a file into, the ways a slice is       *)
(* decoded when the flac program fails, and the hash that is the identity  *)
(* of a track in the library.                                              *)
(*                                                                         *)
(* Audio is the positions of its samples, and what is hashed is the set of *)
(* positions of its bytes in one sample format, of one channel.  The       *)
(* fallback that reads the whole stream does so byte by byte position;     *)
(* what the flac program and libsndfile return is taken from how the code  *)
(* calls them.                                                             *)
(***************************************************************************)
EXTENDS Integers, FiniteSets, SequencesExt

CONSTANTS
    Sheets,         \* cue sheets: sequences of lines
    TotalSamples,   \* of the file, by its STREAMINFO
    Readable,       \* where the stream of a file may end
    LongSlice,      \* 600 s, in samples
    HeaderBytes,    \* audio in the first buffer of a stream, behind its WAV header
    ChunkBytes,     \* chunk_size
    Decodings       \* bound: how often a slice is hashed

\* A line that matters is TRACK n AUDIO or INDEX 01 at a sample; titles are left out.
Lines == [line : {"TRACK", "INDEX"}, n : Nat]
ASSUME FlacDecodeAssumption ==
    /\ Sheets \subseteq Seq(Lines)
    /\ TotalSamples \in Nat \ {0} /\ LongSlice \in Nat /\ Decodings \in Nat
    /\ Readable \subseteq 0..TotalSamples /\ TotalSamples \in Readable
    /\ HeaderBytes \in Nat /\ ChunkBytes \in Nat \ {0}

Slices == [track : Nat, start : Nat, end : Nat]
Formats == {"pcm16", "pcm24", "int32", "float32"}
Hashes == [bytes : SUBSET Nat, format : Formats \cup {"none"}]

VARIABLES
    file,       \* [text, block, bits, readable]: the two cue sheets and the audio
    slices,     \* handle.slices
    decodeAt,   \* where the decoding is
    slice,      \* the slice being decoded
    tries,      \* attempts of decode_flac_range
    stream,     \* [at, skip, left, kept]: where the stream fallback is in its stream, the
                \* bytes it has still to skip and to read, and those in read_buf
    hashes,     \* hashes[i]: the hashes computed for slice i
    rounds
decodeVars == <<file, slices, decodeAt, slice, tries, stream, hashes, rounds>>

DecodeAt == {"opening", "ready", "flac", "soundfile", "stream", "skipping", "reading",
             "streaming", "failed"}
NoStream == [at |-> 0, skip |-> 0, left |-> 0, kept |-> {}]

(***************************************************************************)
(* parse_cue_text_to_slices and build_flac_handle.                         *)
(***************************************************************************)
NoTrack == [track |-> -1, start |-> -1]
\* A track that had no INDEX 01 before the next TRACK is dropped.
Kept(s) == IF s.now = NoTrack \/ s.now.start = -1 THEN s.tracks ELSE Append(s.tracks, s.now)
ReadLine(s, l) ==
    IF l.line = "TRACK" THEN [tracks |-> Kept(s), now |-> [track |-> l.n, start |-> -1]]
    ELSE IF s.now = NoTrack THEN s
    ELSE [s EXCEPT !.now.start = l.n]
TracksOf(sheet) == Kept(FoldLeft(ReadLine, [tracks |-> <<>>, now |-> NoTrack], sheet))

\* The members of S in the order of its pairs, a strict total order.
InOrder(S, before) ==
    CHOOSE order \in [1..Cardinality(S) -> S] :
        \A i, j \in 1..Cardinality(S) : i < j => <<order[i], order[j]>> \in before

\* list.sort is stable.
ByTrack(tracks) ==
    LET before == {p \in (DOMAIN tracks) \X (DOMAIN tracks) :
                      \/ tracks[p[1]].track < tracks[p[2]].track
                      \/ tracks[p[1]].track = tracks[p[2]].track /\ p[1] < p[2]}
        order == InOrder(DOMAIN tracks, before)
    IN [i \in DOMAIN tracks |-> tracks[order[i]]]

\* What begins beyond the file, or is empty, is left out.
Proper(all) ==
    LET kept == {i \in DOMAIN all : all[i].start < TotalSamples /\ all[i].start < all[i].end}
        order == InOrder(kept, {p \in kept \X kept : p[1] < p[2]})
    IN [k \in 1..Cardinality(kept) |-> all[order[k]]]

EndOf(t, i) == IF i < Len(t) THEN t[i + 1].start ELSE TotalSamples
\* mutant: the end of a slice is not cut at the end of the file
CutUnclamped(tracks) ==
    LET t == ByTrack(tracks)
    IN Proper([i \in DOMAIN t |-> [track |-> t[i].track, start |-> t[i].start, end |-> EndOf(t, i)]])

\* A slice ends where the next track begins, or the file.
Cut(tracks) ==
    LET t == ByTrack(tracks)
    IN Proper([i \in DOMAIN t |->
                  [track |-> t[i].track, start |-> t[i].start,
                   end |-> IF EndOf(t, i) < TotalSamples THEN EndOf(t, i) ELSE TotalSamples]])

WholeFile == <<[track |-> 1, start |-> 0, end |-> TotalSamples]>>

\* The text of the cuesheet tag, else the CUESHEET block, else the whole file, also when the
\* sheet yields no slice.
OpenFlac ==
    /\ decodeAt = "opening" /\ decodeAt' = "ready"
    /\ LET cut == Cut(TracksOf(IF file.text # <<>> THEN file.text ELSE file.block))
       IN /\ slices' = IF cut = <<>> THEN WholeFile ELSE cut
          /\ hashes' = [i \in DOMAIN slices' |-> {}]
    /\ UNCHANGED <<file, slice, tries, stream, rounds>>

(***************************************************************************)
(* decode_flac_range, its fallbacks, and process_slice_with_seq_safety.    *)
(***************************************************************************)
Now == slices[slice]
Packed == IF file.bits = 16 THEN "pcm16" ELSE "pcm24"
Least(a, b) == IF a < b THEN a ELSE b

FrameOf(format) == IF format = "pcm16" THEN 2 ELSE IF format = "pcm24" THEN 3 ELSE 4
BytesOf(start, end, format) == (start * FrameOf(format))..(end * FrameOf(format) - 1)

\* No bytes have one hash, whatever slice they are not of.
HashOf(bytes, format) ==
    [bytes |-> bytes, format |-> IF bytes = {} THEN "none" ELSE format]
Decoded(bytes, format) ==
    /\ hashes' = [hashes EXCEPT ![slice] = @ \cup {HashOf(bytes, format)}]
    /\ decodeAt' = "ready" /\ stream' = NoStream
    /\ UNCHANGED <<file, slices, slice, tries, rounds>>
\* A decoder that is asked for the slice ends where the file does.
DecodedThere(format) ==
    Decoded(BytesOf(Now.start, Least(Now.end, file.readable), format), format)
Turns(there) ==
    /\ decodeAt' = there
    /\ UNCHANGED <<file, slices, slice, tries, stream, hashes, rounds>>

Attempted ==
    /\ tries < 3 /\ tries' = tries + 1
    /\ decodeAt' = IF tries < 2 THEN "flac" ELSE "soundfile"
    /\ UNCHANGED <<file, slices, slice, stream, hashes, rounds>>

\* A slice of ten minutes or more is streamed; a shorter one is decoded in one call.
Choose ==
    /\ decodeAt = "ready" /\ rounds < Decodings * Len(slices)
    /\ \E i \in DOMAIN slices :
          /\ slice' = i
          /\ decodeAt' = IF slices[i].end - slices[i].start < LongSlice THEN "flac" ELSE "streaming"
    /\ tries' = 0 /\ rounds' = rounds + 1
    /\ UNCHANGED <<file, slices, stream, hashes>>

\* The flac program decodes through errors (-F).  A good exit and 44 bytes are enough: how
\* much audio came is not compared with how much was asked for.
FlacSucceeds == decodeAt = "flac" /\ DecodedThere(Packed)

\* A seek error goes to the fallback at once; any other error is tried again, and after the
\* third the fallback is tried too.
FlacFails ==
    /\ decodeAt = "flac"
    /\ \/ Turns("soundfile")
       \/ Attempted

\* mutant: every file is read as 32 bits
SoundfileSucceedsWide ==
    decodeAt = "soundfile" /\ Now.start < file.readable /\ DecodedThere("int32")

\* libsndfile clamps the range to the length it knows; 24 bits are read as 32.
SoundfileSucceeds ==
    /\ decodeAt = "soundfile" /\ Now.start < file.readable
    /\ DecodedThere(IF file.bits = 16 THEN "pcm16" ELSE "int32")

SoundfileFails == decodeAt = "soundfile" /\ Turns("stream")

(***************************************************************************)
(* decode_flac_range_stream_fallback reads the stream from its beginning   *)
(* and skips to the slice.  Where the stream ends early the bytes are      *)
(* fewer, perhaps none, and that is no error.                              *)
(***************************************************************************)
StreamBytes == file.readable * FrameOf(Packed)
SkipBytes == Now.start * FrameOf(Packed)
TargetBytes == (Now.end - Now.start) * FrameOf(Packed)
Header == Least(HeaderBytes, StreamBytes)

StreamStep(here) ==
    decodeAt = here /\ UNCHANGED <<file, slices, slice, tries, hashes, rounds>>

\* mutant: the audio of the first buffer is thrown away and skipped once more
ReadHeaderForgotten ==
    /\ StreamStep("stream")
    /\ \/ /\ SkipBytes <= Header
          /\ LET take == Least(TargetBytes, Header - SkipBytes)
             IN stream' = [at |-> Header, skip |-> 0, left |-> TargetBytes - take,
                           kept |-> SkipBytes..(SkipBytes + take - 1)]
          /\ decodeAt' = "reading"
       \/ /\ SkipBytes > Header
          /\ stream' = [at |-> Header, skip |-> SkipBytes, left |-> TargetBytes, kept |-> {}]
          /\ decodeAt' = "skipping"

\* The first buffer, with the WAV header, holds the beginning of the slice or nothing of it.
ReadHeader ==
    /\ StreamStep("stream")
    /\ \/ /\ SkipBytes <= Header
          /\ LET take == Least(TargetBytes, Header - SkipBytes)
             IN stream' = [at |-> Header, skip |-> 0, left |-> TargetBytes - take,
                           kept |-> SkipBytes..(SkipBytes + take - 1)]
          /\ decodeAt' = "reading"
       \/ /\ SkipBytes > Header
          /\ stream' = [at |-> Header, skip |-> SkipBytes - Header, left |-> TargetBytes,
                        kept |-> {}]
          /\ decodeAt' = "skipping"

\* What read returns of a chunk: less than asked for only at the end of the stream.
Got(wanted) == Least(Least(ChunkBytes, wanted), StreamBytes - stream.at)

SkipChunk ==
    /\ StreamStep("skipping")
    /\ LET n == Got(stream.skip)
       IN /\ stream' = [stream EXCEPT !.at = @ + n, !.skip = @ - n]
          /\ decodeAt' = IF n = 0 \/ n = stream.skip THEN "reading" ELSE "skipping"

ReadChunk ==
    /\ StreamStep("reading") /\ UNCHANGED decodeAt
    /\ stream.left > 0 /\ stream.at < StreamBytes
    /\ LET n == Got(stream.left)
       IN stream' = [stream EXCEPT !.at = @ + n, !.left = @ - n,
                                   !.kept = @ \cup stream.at..(stream.at + n - 1)]

StreamEnds ==
    /\ decodeAt = "reading" /\ (stream.left = 0 \/ stream.at = StreamBytes)
    /\ Decoded(stream.kept, Packed)

\* No WAV header, or no flac program: the next attempt, and after the last the caller fails.
StreamFails ==
    /\ decodeAt = "stream"
    /\ Attempted \/ (tries = 3 /\ Turns("failed"))

\* The streamed decoding of a long slice hashes whatever flac writes.
LongSucceeds == decodeAt = "streaming" /\ DecodedThere(Packed)

\* Its fallback hashes samples as float32, whatever the bits of the file.
LongFallsBack == decodeAt = "streaming" /\ DecodedThere("float32")

LongFails == decodeAt = "streaming" /\ Turns("failed")

\* worker_hash.py ends; the track is given up or tried again by another process.
StartAgain == decodeAt = "failed" /\ Turns("ready")

DecodeInit ==
    /\ \E text, block \in Sheets, bits \in {16, 24}, readable \in Readable :
          /\ text = <<>> \/ block = <<>>
          /\ file = [text |-> text, block |-> block, bits |-> bits, readable |-> readable]
    /\ slices = <<>> /\ decodeAt = "opening" /\ slice = 1 /\ tries = 0
    /\ stream = NoStream /\ hashes = <<>> /\ rounds = 0

DecodeNext ==
    \/ OpenFlac \/ Choose \/ FlacSucceeds \/ FlacFails \/ SoundfileSucceeds \/ SoundfileFails
    \/ ReadHeader \/ SkipChunk \/ ReadChunk \/ StreamEnds \/ StreamFails
    \/ LongSucceeds \/ LongFallsBack \/ LongFails \/ StartAgain

DecodeSpec == DecodeInit /\ [][DecodeNext]_decodeVars

(***************************************************************************)
(* Properties.                                                             *)
(***************************************************************************)
Opened == decodeAt # "opening"
Ascending(s) == \A i, j \in DOMAIN s : i < j => s[i].start < s[j].start

\* The cut against its definition: a file has a slice; each is inside the file and not
\* empty, in the order of the tracks; and when the starts ascend with the track numbers, a
\* sample belongs to the slice of the last track that starts at or before it
\* (flac_decode.py:215-243).
SlicesPartitionTheFile ==
    Opened =>
        /\ slices # <<>>
        /\ \A i \in DOMAIN slices : slices[i].start < slices[i].end /\ slices[i].end <= TotalSamples
        /\ \A i, j \in DOMAIN slices : i < j => slices[i].track <= slices[j].track
        /\ LET t == ByTrack(TracksOf(IF file.text # <<>> THEN file.text ELSE file.block))
           IN Ascending(t) =>
                 \A x \in 0..(TotalSamples - 1), k \in DOMAIN t :
                     t[k].start <= x /\ (k < Len(t) => x < t[k + 1].start) =>
                         {s \in Range(slices) : s.start <= x /\ x < s.end} =
                             {[track |-> t[k].track, start |-> t[k].start,
                               end |-> IF k < Len(t) /\ t[k + 1].start < TotalSamples
                                       THEN t[k + 1].start ELSE TotalSamples]}

\* Whichever way a slice was decoded, and wherever the file breaks off or a chunk splits a
\* sample, the hash is of all that can be read of the slice and of nothing else.  Two slices
\* therefore have a hash in common only where the same can be read of both, which may be
\* nothing (flac_decode.py:292-398, 433-436, 517, 525-604).
ReadableOf(i) == slices[i].start..(Least(slices[i].end, file.readable) - 1)
HashIsOfItsSlice ==
    Opened =>
        /\ \A i \in DOMAIN slices : \A h \in hashes[i] :
              h.bytes = BytesOf(slices[i].start, Least(slices[i].end, file.readable), h.format)
        /\ \A i, j \in DOMAIN slices :
              hashes[i] \cap hashes[j] # {} => ReadableOf(i) = ReadableOf(j)

\* A 16-bit slice that is short has one hash, whichever of the three decoders read it,
\* as long as all of it can be read: the library finds the track again
\* (flac_decode.py:372-398, 432-437).
HashIsStable ==
    Opened /\ file.bits = 16 /\ file.readable = TotalSamples =>
        \A i \in DOMAIN slices :
            slices[i].end - slices[i].start < LongSlice => Cardinality(hashes[i]) <= 1
=============================================================================
