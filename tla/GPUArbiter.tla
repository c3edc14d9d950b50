----------------------------- MODULE GPUArbiter -----------------------------
(***************************************************************************)
(* The FIFO, cancellation-aware lock that serialises the GPU between       *)
(* Demucs separation, the GPU feature lane and GPU cache cleanup           *)
(* (dispatcher/gpu_arbiter.go, with its callers in pipeline_demucs.go and  *)
(* pipeline_features.go).                                                  *)
(*                                                                         *)
(* A caller that finds the GPU owned appends a channel to waiters and      *)
(* selects on it and on its context.  A release closes the channel of the  *)
(* oldest waiter without giving up ownership; the grant may race with the  *)
(* cancellation of that waiter.                                            *)
(***************************************************************************)
EXTENDS Naturals, Sequences

CONSTANT Callers

VARIABLES
    owner,      \* the owner flag
    waiters,    \* the callers whose channels are queued
    granted,    \* callers whose channel has been closed and who have not seen it
    cancelled,  \* callers whose context is done
    pc          \* pc[c]: where the caller is
vars == <<owner, waiters, granted, cancelled, pc>>

CallerPC == {"idle", "waiting", "releasing", "aborting", "owning"}

Init ==
    /\ owner = FALSE
    /\ waiters = <<>>
    /\ granted = {}
    /\ cancelled = {}
    /\ pc = [c \in Callers |-> "idle"]

At(c, here, there) == pc[c] = here /\ pc' = [pc EXCEPT ![c] = there]

Listed(c) == \E i \in 1..Len(waiters) : waiters[i] = c
Removed(i) == [j \in 1..(Len(waiters) - 1) |-> waiters[IF j < i THEN j ELSE j + 1]]

\* mutant: ownership is dropped although the head of the queue gets the GPU
PassOnAndFree(returned) ==
    /\ owner' = FALSE
    /\ \/ /\ waiters # <<>>
          /\ granted' = (granted \ returned) \cup {Head(waiters)}
          /\ waiters' = Tail(waiters)
       \/ /\ waiters = <<>>
          /\ granted' = granted \ returned
          /\ UNCHANGED waiters

\* The body shared by Release and the last branch of Acquire, which gives back a grant
\* that its caller has not seen.
PassOn(returned) ==
    \/ /\ waiters # <<>>
       /\ granted' = (granted \ returned) \cup {Head(waiters)}
       /\ waiters' = Tail(waiters)
       /\ UNCHANGED owner
    \/ /\ waiters = <<>>
       /\ owner' = FALSE
       /\ granted' = granted \ returned
       /\ UNCHANGED waiters

AcquireFree(c) ==
    /\ ~owner
    /\ At(c, "idle", "owning")
    /\ owner' = TRUE
    /\ UNCHANGED <<waiters, granted, cancelled>>

Enqueue(c) ==
    /\ owner
    /\ At(c, "idle", "waiting")
    /\ waiters' = Append(waiters, c)
    /\ UNCHANGED <<owner, granted, cancelled>>

\* mutant: a grant that raced with the cancellation is not released
SeeGrantAndForget(c) ==
    /\ c \in granted
    /\ At(c, "waiting", IF c \in cancelled THEN "idle" ELSE "owning")
    /\ granted' = granted \ {c}
    /\ UNCHANGED <<owner, waiters, cancelled>>

\* The select takes the closed channel; a context that is done as well gives it back.
SeeGrant(c) ==
    /\ c \in granted
    /\ At(c, "waiting", IF c \in cancelled THEN "releasing" ELSE "owning")
    /\ granted' = granted \ {c}
    /\ UNCHANGED <<owner, waiters, cancelled>>

\* The select takes ctx.Done, perhaps with the grant already made.
SeeCancel(c) ==
    /\ c \in cancelled
    /\ At(c, "waiting", "aborting")
    /\ UNCHANGED <<owner, waiters, granted, cancelled>>

\* Under the mutex again: leave the queue, or hand on the grant that was already made.
LeaveQueue(c) ==
    /\ At(c, "aborting", "idle")
    /\ \E i \in 1..Len(waiters) : waiters[i] = c /\ waiters' = Removed(i)
    /\ cancelled' = cancelled \ {c}
    /\ UNCHANGED <<owner, granted>>

\* mutant: a cancelled caller that is not queued simply returns
HandOnNothing(c) ==
    /\ At(c, "aborting", "idle")
    /\ ~Listed(c)
    /\ cancelled' = cancelled \ {c}
    /\ UNCHANGED <<owner, waiters, granted>>

\* mutant: so, and the owner flag is dropped whoever waits
HandOnToNobody(c) ==
    /\ At(c, "aborting", "idle")
    /\ ~Listed(c)
    /\ owner' = FALSE /\ granted' = granted \ {c}
    /\ cancelled' = cancelled \ {c}
    /\ UNCHANGED waiters

HandOn(c) ==
    /\ At(c, "aborting", "idle")
    /\ ~Listed(c)
    /\ PassOn({c})
    /\ cancelled' = cancelled \ {c}

\* Release by the owner, or by a caller whose grant raced with its cancellation.
Release(c) ==
    /\ \/ At(c, "owning", "idle")
       \/ At(c, "releasing", "idle")
    /\ PassOn({})
    /\ cancelled' = cancelled \ {c}

\* The context of a call expires at any time; the next call has a context of its own.
Cancel(c) ==
    /\ pc[c] # "idle" /\ c \notin cancelled
    /\ cancelled' = cancelled \cup {c}
    /\ UNCHANGED <<owner, waiters, granted, pc>>

Return(c) == SeeGrant(c) \/ SeeCancel(c) \/ LeaveQueue(c) \/ HandOn(c) \/ Release(c)

Next == \E c \in Callers : AcquireFree(c) \/ Enqueue(c) \/ Return(c) \/ Cancel(c)

Spec == Init /\ [][Next]_vars

\* A goroutine inside Acquire runs, and an owner releases: every stage that holds the
\* GPU has a deadline and a deferred Release.  Nobody has to call Acquire.
Fairness == \A c \in Callers : WF_vars(Return(c))
FairSpec == Spec /\ Fairness

-----------------------------------------------------------------------------
\* Types; a grant that has not been seen belongs to a caller inside Acquire.
TypeOK ==
    /\ owner \in BOOLEAN
    /\ waiters \in Seq(Callers)
    /\ pc \in [Callers -> CallerPC]
    /\ granted \in SUBSET {c \in Callers : pc[c] \in {"waiting", "aborting"}}
    /\ cancelled \in SUBSET {c \in Callers : pc[c] # "idle"}

\* At most one caller has the GPU or a grant for it, and one exactly when the owner flag
\* is set: a grant that races with a cancellation is neither lost, which would leave the
\* GPU owned by nobody, nor doubled.
Holds(c) == pc[c] \in {"owning", "releasing"} \/ c \in granted
OneHolder ==
    /\ \A c, d \in Callers : Holds(c) /\ Holds(d) => c = d
    /\ owner <=> \E c \in Callers : Holds(c)

\* A queue forms only while somebody holds the GPU, and it lists exactly the callers
\* inside Acquire that have no grant, each once: a cancelled caller leaves no channel
\* behind for a release to close.
NoLostWaiter ==
    /\ waiters # <<>> => owner
    /\ \A c \in Callers :
          Listed(c) <=> pc[c] \in {"waiting", "aborting"} /\ c \notin granted
    /\ \A i, j \in 1..Len(waiters) : waiters[i] = waiters[j] => i = j

\* A caller that waits gets the GPU unless its context expires, and one whose context
\* expires while it waits returns.
NoStarvation ==
    \A c \in Callers :
        /\ pc[c] = "waiting" /\ c \notin cancelled ~> pc[c] = "owning" \/ c \in cancelled
        /\ pc[c] = "waiting" /\ c \in cancelled ~> pc[c] = "idle"
=============================================================================
