------------------------- MODULE SpeculativePrefetcher -------------------------
(***************************************************************************)
(* The speculative prefetcher of src/src/prefetcher/speculative_prefetcher *)
(* .cpp: prefetch() turns the adaptive depth into requests pushed on the   *)
(* outstanding FIFO, and update_prediction_accuracy() moves the depth from *)
(* the last observations.  adaptive_depth_ is a std::atomic, but the       *)
(* controller loads it and increments it in two separate atomic steps, so  *)
(* each caller thread of update_prediction_accuracy has a program counter. *)
(* prefetch and set_prefetch_depth are one step each: prefetch reads the  *)
(* depth once and pushes under prefetch_queue_mutex_.  The statistics      *)
(* (stats_, under stats_mutex_) are not modelled: no decision reads them.  *)
(***************************************************************************)
EXTENDS Integers, FiniteSets, Sequences, SequencesExt

CONSTANTS
    Threads,    \* threads calling update_prediction_accuracy
    Layers,     \* layer ids passed to prefetch
    Resident,   \* kv addresses the memory manager holds in L1 or L2
    InitDepth,  \* the constructor's prefetch_depth (4 by default)
    SetDepths,  \* arguments passed to set_prefetch_depth
    QueueCap,   \* the literal 16 of issue_dma_prefetch
    RecentN,    \* the literal 10: observations averaged by the controller
    SizeMod,    \* 2^w for size_t, scaled down: the modulus of ++ and --
    MaxIssued   \* bound on requests issued, for TLC

ASSUME InitDepth \in 0 .. SizeMod - 1 /\ SetDepths \subseteq 0 .. SizeMod - 1

\* The literals of the controller's guards.
MaxDepth == 8
MinDepth == 2

VARIABLES
    depth,          \* adaptive_depth_
    prefetchDepth,  \* prefetch_depth_
    window,         \* the last RecentN entries of accuracy_history_
    pc,             \* where each controller thread is
    fifo,           \* outstanding_prefetches_
    issued          \* history: requests ever pushed, numbering them

vars == <<depth, prefetchDepth, window, pc, fifo, issued>>

Init ==
    /\ depth = InitDepth
    /\ prefetchDepth = InitDepth
    /\ window = <<>>
    /\ pc = [t \in Threads |-> "idle"]
    /\ fifo = <<>>
    /\ issued = 0

-----------------------------------------------------------------------------
(* prefetch() and issue_dma_prefetch()                                     *)

\* compute_kv_address(0, layer, i + 1): the address depends on the layer and
\* the rank only, never on the predicted token.
KvAddress(l, i) == <<l, i>>

\* The requests of one call: predict_top_k returns actual_depth candidates
\* (the vocabulary is far larger than any depth); those whose address is in
\* L1 or L2 are skipped.
Candidates(l, d) ==
    SelectSeq([i \in 1 .. d |-> KvAddress(l, i)], LAMBDA a : a \notin Resident)

\* issue_dma_prefetch: push, then drop the oldest once over 16.
Trim(q) == IF Len(q) > QueueCap THEN Tail(q) ELSE q

RECURSIVE PushAll(_, _)
PushAll(q, rs) ==
    IF rs = <<>> THEN q ELSE PushAll(Trim(Append(q, Head(rs))), Tail(rs))

\* The facade's prefetch_hint passes no depth, so actual_depth is the atomic
\* load of adaptive_depth_.
Prefetch(l) ==
    /\ issued < MaxIssued
    /\ LET addrs == Candidates(l, depth)
           reqs  == [i \in DOMAIN addrs |-> [addr |-> addrs[i], serial |-> issued + i]]
       IN  /\ fifo' = PushAll(fifo, reqs)
           /\ issued' = issued + Len(reqs)
    /\ UNCHANGED <<depth, prefetchDepth, window, pc>>

-----------------------------------------------------------------------------
(* update_prediction_accuracy()                                            *)

ObserveNoDrop(w, c) == Append(w, c)

\* push_back, dropping the oldest past the window.  Only the last RecentN
\* entries are ever read, and the vector never shrinks below RecentN.
Observe(w, c) == IF Len(w) = RecentN THEN Append(Tail(w), c) ELSE Append(w, c)

CorrectCount(w) == Cardinality({i \in DOMAIN w : w[i]})

\* The first step: record the observation and compute the recent mean.
\* mean > 0.95 and mean < 0.85 are compared in hundredths.
UpdateWindow(t, c) ==
    /\ pc[t] = "idle"
    /\ LET w == Observe(window, c)
           n == CorrectCount(w)
       IN  /\ window' = w
           /\ pc' = [pc EXCEPT ![t] =
                       CASE Len(w) < RecentN           -> "idle"
                         [] 100 * n > 95 * RecentN     -> "checkInc"
                         [] 100 * n < 85 * RecentN     -> "checkDec"
                         [] OTHER                      -> "idle"]
    /\ UNCHANGED <<depth, prefetchDepth, fifo, issued>>

CheckIncrementUnbounded(t) ==
    /\ pc[t] = "checkInc"
    /\ pc' = [pc EXCEPT ![t] = "inc"]
    /\ UNCHANGED <<depth, prefetchDepth, window, fifo, issued>>

\* adaptive_depth_.load() < 8
CheckIncrement(t) ==
    /\ pc[t] = "checkInc"
    /\ pc' = [pc EXCEPT ![t] = IF depth < MaxDepth THEN "inc" ELSE "idle"]
    /\ UNCHANGED <<depth, prefetchDepth, window, fifo, issued>>

\* adaptive_depth_.load() > 2
CheckDecrement(t) ==
    /\ pc[t] = "checkDec"
    /\ pc' = [pc EXCEPT ![t] = IF depth > MinDepth THEN "dec" ELSE "idle"]
    /\ UNCHANGED <<depth, prefetchDepth, window, fifo, issued>>

\* adaptive_depth_++ and adaptive_depth_--: atomic read-modify-writes of a
\* size_t, acting on the value at the time of the write.
Increment(t) ==
    /\ pc[t] = "inc"
    /\ depth' = (depth + 1) % SizeMod
    /\ pc' = [pc EXCEPT ![t] = "idle"]
    /\ UNCHANGED <<prefetchDepth, window, fifo, issued>>

Decrement(t) ==
    /\ pc[t] = "dec"
    /\ depth' = (depth + SizeMod - 1) % SizeMod
    /\ pc' = [pc EXCEPT ![t] = "idle"]
    /\ UNCHANGED <<prefetchDepth, window, fifo, issued>>

-----------------------------------------------------------------------------
(* set_prefetch_depth()                                                    *)

SetPrefetchDepth(d) ==
    /\ prefetchDepth' = d
    /\ depth' = d
    /\ UNCHANGED <<window, pc, fifo, issued>>

Next ==
    \/ \E l \in Layers : Prefetch(l)
    \/ \E t \in Threads :
          \/ \E c \in BOOLEAN : UpdateWindow(t, c)
          \/ CheckIncrement(t) \/ CheckDecrement(t)
          \/ Increment(t) \/ Decrement(t)
    \/ \E d \in SetDepths : SetPrefetchDepth(d)

Spec == Init /\ [][Next]_vars

-----------------------------------------------------------------------------
(* Properties                                                              *)

TypeOK ==
    /\ depth \in 0 .. SizeMod - 1
    /\ prefetchDepth \in 0 .. SizeMod - 1
    /\ window \in Seq(BOOLEAN) /\ Len(window) <= RecentN
    /\ pc \in [Threads -> {"idle", "checkInc", "checkDec", "inc", "dec"}]
    /\ Len(fifo) <= QueueCap

\* Spec invariant (spec.md §8): whatever the sequence of
\* update_prediction_accuracy calls, 2 <= adaptive_depth <= 8.  The
\* controller checks the bound with one atomic load and moves the depth with
\* a second atomic operation.
DepthBounds == depth \in MinDepth .. MaxDepth

\* What the check-then-act controller does guarantee: each of its threads
\* overshoots a bound by at most one step past a check it passed, so the
\* depth stays within |Threads| of [2, 8], set_prefetch_depth racing the
\* decrements included.  (With two threads that is 0 at the least; the
\* size_t wrap below 0 needs a third thread.)
DepthWithinRaceBound ==
    depth \in (MinDepth - Cardinality(Threads)) .. (MaxDepth + Cardinality(Threads))

=============================================================================
