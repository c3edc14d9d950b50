------------------------------- MODULE Shelf -------------------------------
(***************************************************************************)
(* What the durable task queue promises to whoever posts a track: SQLite   *)
(* is the acceptance boundary.  An accepted track is never forgotten, it   *)
(* is reported done only when the library holds a result for its audio,    *)
(* the library never loses a result, and an open track is settled.         *)
(***************************************************************************)
CONSTANTS Tracks, Hashes, Hash     \* Hash \in [Tracks -> Hashes]

VARIABLES
    state,      \* state[t]: "absent", "open", "done" or "failed"
    library     \* the audio hashes that have a row

Init ==
    /\ state = [t \in Tracks |-> "absent"]
    /\ library \in SUBSET Hashes

\* Tracks of one request become visible together.
Open(ts) ==
    /\ ts # {}
    /\ state' = [t \in Tracks |-> IF t \in ts THEN "open" ELSE state[t]]
    /\ UNCHANGED library

Store(h) == library' = library \cup {h} /\ UNCHANGED state

Finish(t) ==
    /\ state[t] # "absent" /\ Hash[t] \in library
    /\ state' = [state EXCEPT ![t] = "done"]
    /\ UNCHANGED library

Fail(t) ==
    /\ state[t] # "absent"
    /\ state' = [state EXCEPT ![t] = "failed"]
    /\ UNCHANGED library

Next ==
    \/ \E ts \in SUBSET Tracks : Open(ts)
    \/ \E h \in Hashes : Store(h)
    \/ \E t \in Tracks : Finish(t) \/ Fail(t)

vars == <<state, library>>
Spec == Init /\ [][Next]_vars
FairSpec == Spec /\ \A t \in Tracks : WF_vars(state[t] = "open" /\ (Finish(t) \/ Fail(t)))
=============================================================================
