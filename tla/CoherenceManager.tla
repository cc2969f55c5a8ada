-------------------------- MODULE CoherenceManager --------------------------
(***************************************************************************)
(* The host-side shadow MESI directory of                                 *)
(* src/src/cxl_memory/coherence_manager.cpp.  Every public operation holds *)
(* directory_mutex_ for its whole body, transport calls included, so each  *)
(* is one atomic step here; statistics are updated under stats_mutex_      *)
(* nested inside it.  Addresses are abstracted to cache lines (the model   *)
(* values of Lines), so align_to_cache_line is not modelled.               *)
(* last_access_time and access_count are left out: nothing reads them.    *)
(*                                                                         *)
(* send_coherence_op_to_fpga fails exactly when driver_ is null:           *)
(* wait_for_fpga_completion is a stub that returns true.  DriverPresent    *)
(* says which of the two the manager was constructed with.                 *)
(***************************************************************************)
EXTENDS Naturals, FiniteSets, Sequences, SequencesExt, Functions

CONSTANTS Lines,          \* cache-line addresses
          DriverPresent,  \* driver_ != nullptr
          MaxStat,        \* bound on every statistics counter (model only)
          MaxBatch        \* bound on the length of a batch (model only)

ASSUME DriverPresent \in BOOLEAN /\ MaxStat \in Nat /\ MaxBatch \in Nat

VARIABLES directory,   \* directory_: line -> [state, tier], lines with entries
          stats,       \* stats_
          lastResult,  \* the bool the last operation returned
          unwritten,   \* history: lines whose last write the home agent lacks
          lastOp       \* history: the operation last called, and its lines

vars == <<directory, stats, lastResult, unwritten, lastOp>>

MESI  == {"INVALID", "SHARED", "EXCLUSIVE", "MODIFIED"}
Tiers == {"L1_GPU", "L2_PREFETCH", "L3_CXL"}
StatFields == {"total_reads", "total_writes", "coherence_ops",
               "invalidations_sent", "writebacks_performed",
               "directory_hits", "directory_misses"}
ZeroStats == [f \in StatFields |-> 0]

(* A mutation of DirectoryEntry(): the state is left uninitialised. *)
NewEntryNoState == [state |-> "UNINITIALISED", tier |-> "L3_CXL"]

(* DirectoryEntry(): a new entry is INVALID in tier L3_CXL. *)
NewEntry == [state |-> "INVALID", tier |-> "L3_CXL"]

(* get_or_create_entry: the directory once l has an entry. *)
GetOrCreate(l) == IF l \in DOMAIN directory THEN directory
                  ELSE (l :> NewEntry) @@ directory

(* get_state: a line without an entry reports INVALID. *)
StateOf(l) == IF l \in DOMAIN directory THEN directory[l].state ELSE "INVALID"

(* get_tier: a line without an entry reports L3_CXL. *)
TierOf(l) == IF l \in DOMAIN directory THEN directory[l].tier ELSE "L3_CXL"

Bump(s, f, n) == [s EXCEPT ![f] = @ + n]

(* A mutation of update_statistics: a write miss is not counted. *)
UpdateStatisticsNoWriteMiss(s, op, hit) ==
    CASE op = "READ"  -> Bump(Bump(s, "total_reads", 1),
                              IF hit THEN "directory_hits" ELSE "directory_misses", 1)
      [] op = "WRITE" -> IF hit THEN Bump(Bump(s, "total_writes", 1), "directory_hits", 1)
                         ELSE Bump(s, "total_writes", 1)
      [] OTHER        -> Bump(s, "coherence_ops", 1)

(* update_statistics: reads and writes count a hit or a miss, the other   *)
(* operations count as coherence operations.                              *)
UpdateStatistics(s, op, hit) ==
    CASE op \in {"READ", "WRITE"} ->
            Bump(Bump(s, IF op = "READ" THEN "total_reads" ELSE "total_writes", 1),
                 IF hit THEN "directory_hits" ELSE "directory_misses", 1)
      [] OTHER -> Bump(s, "coherence_ops", 1)

(* send_coherence_op_to_fpga: with no driver it returns false before it   *)
(* counts anything; otherwise it counts op as a hit and succeeds.         *)
Ok == DriverPresent
Send(s, op) == IF DriverPresent THEN UpdateStatistics(s, op, TRUE) ELSE s

(* n calls of send_coherence_op_to_fpga in a loop. *)
RECURSIVE SendTimes(_, _, _)
SendTimes(s, op, n) == IF n = 0 THEN s ELSE SendTimes(Send(s, op), op, n - 1)

(* A mutation of a writeback: the clean line becomes EXCLUSIVE. *)
CleanedExclusive == [state |-> "EXCLUSIVE", tier |-> "L3_CXL"]

(* A line once written back: "Transition to SHARED or EXCLUSIVE state     *)
(* (data is clean now)" -- the code picks SHARED in tier L3_CXL.          *)
Cleaned == [state |-> "SHARED", tier |-> "L3_CXL"]

(* The hit check of request_read. *)
ValidEntry(l) ==
    l \in DOMAIN directory /\ directory[l].state \in {"SHARED", "EXCLUSIVE", "MODIFIED"}

(* The record of a call of operation name on the lines S. *)
Called(name, S) == [name |-> name, lines |-> S]

(* No counter is at the model's bound (ResetStatistics is always enabled). *)
StatsRoom == \A f \in StatFields : stats[f] < MaxStat

-----------------------------------------------------------------------------
Init ==
    /\ directory = [l \in {} |-> NewEntry]
    /\ stats = ZeroStats
    /\ lastResult = TRUE
    /\ unwritten = {}
    /\ lastOp = Called("none", {})

(* request_read, the line is valid: a hit, nothing is sent. *)
ReadHit(l) ==
    /\ lastOp' = Called("read", {l})
    /\ StatsRoom /\ ValidEntry(l)
    /\ stats' = UpdateStatistics(stats, "READ", TRUE)
    /\ lastResult' = TRUE
    /\ UNCHANGED <<directory, unwritten>>

(* request_read, a miss: count the miss, send READ, and on success the   *)
(* line becomes SHARED in L1_GPU.                                         *)
ReadMiss(l) ==
    /\ lastOp' = Called("read", {l})
    /\ StatsRoom /\ ~ValidEntry(l)
    /\ stats' = Send(UpdateStatistics(stats, "READ", FALSE), "READ")
    /\ directory' = IF Ok THEN (l :> [state |-> "SHARED", tier |-> "L1_GPU"]) @@ directory
                    ELSE directory
    /\ lastResult' = Ok
    /\ UNCHANGED unwritten

(* request_write: a SHARED line counts an invalidation first; the write  *)
(* is a hit iff the line has an entry; on success the line is MODIFIED  *)
(* in L1_GPU.                                                            *)
RequestWrite(l) ==
    LET shared == l \in DOMAIN directory /\ directory[l].state = "SHARED"
        s1 == IF shared
              THEN Bump(UpdateStatistics(stats, "INVALIDATE", FALSE), "invalidations_sent", 1)
              ELSE stats
    IN /\ lastOp' = Called("write", {l})
       /\ StatsRoom
       /\ stats' = Send(UpdateStatistics(s1, "WRITE", l \in DOMAIN directory), "WRITE")
       /\ directory' = IF Ok THEN (l :> [state |-> "MODIFIED", tier |-> "L1_GPU"]) @@ directory
                       ELSE directory
       /\ unwritten' = IF Ok THEN unwritten \cup {l} ELSE unwritten
       /\ lastResult' = Ok

(* invalidate, no entry: already invalid. *)
InvalidateAbsent(l) ==
    /\ lastOp' = Called("invalidate", {l})
    /\ StatsRoom /\ l \notin DOMAIN directory
    /\ lastResult' = TRUE
    /\ UNCHANGED <<directory, stats, unwritten>>

(* invalidate: a MODIFIED line counts a writeback but none is sent; the  *)
(* line is marked INVALID before INVALIDATE is sent.                     *)
InvalidateEntry(l) ==
    LET s1 == IF directory[l].state = "MODIFIED"
              THEN Bump(stats, "writebacks_performed", 1) ELSE stats
    IN /\ lastOp' = Called("invalidate", {l})
       /\ StatsRoom /\ l \in DOMAIN directory
       /\ directory' = [directory EXCEPT ![l].state = "INVALID"]
       /\ stats' = Bump(Send(s1, "INVALIDATE"), "invalidations_sent", 1)
       /\ lastResult' = Ok
       /\ UNCHANGED unwritten

(* writeback, the line is not MODIFIED: nothing to write back. *)
WritebackNothing(l) ==
    /\ lastOp' = Called("writeback", {l})
    /\ StatsRoom /\ StateOf(l) # "MODIFIED"
    /\ lastResult' = TRUE
    /\ UNCHANGED <<directory, stats, unwritten>>

(* writeback of a MODIFIED line: send WRITEBACK; on success the line is  *)
(* SHARED in L3_CXL and the writeback is counted.                        *)
Writeback(l) ==
    /\ lastOp' = Called("writeback", {l})
    /\ StatsRoom /\ StateOf(l) = "MODIFIED"
    /\ stats' = IF Ok THEN Bump(Send(stats, "WRITEBACK"), "writebacks_performed", 1)
                ELSE Send(stats, "WRITEBACK")
    /\ directory' = IF Ok THEN [directory EXCEPT ![l] = Cleaned]
                    ELSE directory
    /\ unwritten' = IF Ok THEN unwritten \ {l} ELSE unwritten
    /\ lastResult' = Ok

(* Clean the lines of M: SHARED in L3_CXL. *)
CleanLines(M) ==
    [m \in DOMAIN directory |->
        IF m \in M THEN Cleaned ELSE directory[m]]

(* flush_all: every MODIFIED line is sent WRITEBACK, whose result is     *)
(* ignored, and cleaned; the flushed lines are counted; returns true.   *)
FlushAll ==
    LET M == {m \in DOMAIN directory : directory[m].state = "MODIFIED"}
    IN /\ lastOp' = Called("flush_all", Lines)
       /\ StatsRoom
       /\ directory' = CleanLines(M)
       /\ stats' = Bump(SendTimes(stats, "WRITEBACK", Cardinality(M)),
                        "writebacks_performed", Cardinality(M))
       /\ unwritten' = IF Ok THEN unwritten \ M ELSE unwritten
       /\ lastResult' = TRUE

(* promote_to_l1, the line (created if absent) is already in L1_GPU. *)
PromoteInL1(l) ==
    /\ lastOp' = Called("promote_to_l1", {l})
    /\ StatsRoom /\ GetOrCreate(l)[l].tier = "L1_GPU"
    /\ lastResult' = TRUE
    /\ UNCHANGED <<directory, stats, unwritten>>

(* promote_to_l1 otherwise: the entry is created if absent, READ is sent *)
(* and on success the tier becomes L1_GPU, the state is kept.            *)
PromoteToL1(l) ==
    LET d == GetOrCreate(l)
    IN /\ lastOp' = Called("promote_to_l1", {l})
       /\ StatsRoom /\ d[l].tier # "L1_GPU"
       /\ stats' = Send(stats, "READ")
       /\ directory' = IF Ok THEN [d EXCEPT ![l].tier = "L1_GPU"] ELSE d
       /\ lastResult' = Ok
       /\ UNCHANGED unwritten

(* demote_to_l3, no entry or already in L3_CXL: nothing to do. *)
DemoteNothing(l) ==
    /\ lastOp' = Called("demote_to_l3", {l})
    /\ StatsRoom /\ TierOf(l) = "L3_CXL"
    /\ lastResult' = TRUE
    /\ UNCHANGED <<directory, stats, unwritten>>

(* demote_to_l3: a MODIFIED line is sent WRITEBACK, whose result is      *)
(* ignored, becomes SHARED and the writeback is counted; then the tier  *)
(* is L3_CXL.  Always returns true.                                     *)
DemoteToL3(l) ==
    LET dirty == directory[l].state = "MODIFIED"
    IN /\ lastOp' = Called("demote_to_l3", {l})
       /\ StatsRoom
       /\ TierOf(l) # "L3_CXL"
       /\ directory' = [directory EXCEPT
                          ![l] = [state |-> IF dirty THEN "SHARED" ELSE @.state,
                                  tier  |-> "L3_CXL"]]
       /\ stats' = IF dirty THEN Bump(Send(stats, "WRITEBACK"), "writebacks_performed", 1)
                   ELSE stats
       /\ unwritten' = IF dirty /\ Ok THEN unwritten \ {l} ELSE unwritten
       /\ lastResult' = TRUE

(* update_tier: create the entry if absent and set its tier; void. *)
UpdateTier(l, t) ==
    /\ lastOp' = Called("update_tier", {l})
    /\ StatsRoom
    /\ directory' = [GetOrCreate(l) EXCEPT ![l].tier = t]
    /\ UNCHANGED <<stats, lastResult, unwritten>>

(* batch_invalidate: every listed line that has an entry is marked       *)
(* INVALID and sent INVALIDATE (once per occurrence in the list); every  *)
(* listed address counts as an invalidation sent.                        *)
BatchInvalidate(addrs) ==
    LET present == Cardinality({i \in DOMAIN addrs : addrs[i] \in DOMAIN directory})
    IN /\ lastOp' = Called("batch_invalidate", Range(addrs))
       /\ StatsRoom
       /\ directory' = [m \in DOMAIN directory |->
                          IF m \in Range(addrs) THEN [directory[m] EXCEPT !.state = "INVALID"]
                          ELSE directory[m]]
       /\ stats' = Bump(SendTimes(stats, "INVALIDATE", present),
                        "invalidations_sent", Len(addrs))
       /\ lastResult' = (present = 0 \/ Ok)
       /\ UNCHANGED unwritten

(* batch_writeback: every listed MODIFIED line is sent WRITEBACK and     *)
(* cleaned whatever the result; every listed pair counts as a writeback. *)
BatchWriteback(addrs) ==
    LET M == {m \in Range(addrs) \cap DOMAIN directory : directory[m].state = "MODIFIED"}
    IN /\ lastOp' = Called("batch_writeback", Range(addrs))
       /\ StatsRoom
       /\ directory' = CleanLines(M)
       /\ stats' = Bump(SendTimes(stats, "WRITEBACK", Cardinality(M)),
                        "writebacks_performed", Len(addrs))
       /\ unwritten' = IF Ok THEN unwritten \ M ELSE unwritten
       /\ lastResult' = (M = {} \/ Ok)

(* reset_statistics: zero every counter (and the call history with them). *)
ResetStatistics ==
    /\ lastOp' = Called("reset_statistics", {})
    /\ stats' = ZeroStats
    /\ UNCHANGED <<directory, lastResult, unwritten>>

Next ==
    \/ \E l \in Lines :
          \/ ReadHit(l) \/ ReadMiss(l) \/ RequestWrite(l)
          \/ InvalidateAbsent(l) \/ InvalidateEntry(l)
          \/ WritebackNothing(l) \/ Writeback(l)
          \/ PromoteInL1(l) \/ PromoteToL1(l)
          \/ DemoteNothing(l) \/ DemoteToL3(l)
          \/ \E t \in Tiers : UpdateTier(l, t)
    \/ FlushAll
    \/ \E addrs \in BoundedSeq(Lines, MaxBatch) :
          BatchInvalidate(addrs) \/ BatchWriteback(addrs)
    \/ ResetStatistics

Spec == Init /\ [][Next]_vars

-----------------------------------------------------------------------------
(* The abstract directory, seen through get_state and the call history. *)
Abs == INSTANCE CoherenceDirectory
           WITH state <- [l \in Lines |-> StateOf(l)], op <- lastOp

TypeOK ==
    /\ DOMAIN directory \subseteq Lines
    /\ \A l \in DOMAIN directory : directory[l] \in [state : MESI, tier : Tiers]
    /\ stats \in [StatFields -> Nat]
    /\ lastResult \in BOOLEAN
    /\ unwritten \subseteq Lines
    /\ lastOp \in [name : Abs!OpNames, lines : SUBSET Lines]

(* Spec invariant 9, about update_statistics and every caller of it:     *)
(* between resets, directory_hits + directory_misses equals total_reads  *)
(* + total_writes, although request_read/request_write and              *)
(* send_coherence_op_to_fpga count into these fields separately.         *)
StatsBalance ==
    stats["directory_hits"] + stats["directory_misses"]
        = stats["total_reads"] + stats["total_writes"]

(* The MESI states the directory reports follow the transition table of  *)
(* spec.md 4.E: each call of an operation takes that operation's row for *)
(* the lines it names (request_read I -> S, writeback and demote_to_l3    *)
(* M -> S, promote_to_l1 and update_tier keep the state, ...) and leaves  *)
(* every other line alone.                                                *)
Refinement == Abs!Spec

(* Spec invariant 5 and the row "invalidate | Modified | transport        *)
(* writeback; transport invalidate": a line whose last write has not been *)
(* sent back to the home agent is still MODIFIED in the directory, i.e.  *)
(* no operation of the manager drops dirty data.                          *)
NoLostWrite == \A l \in unwritten : StateOf(l) = "MODIFIED"
=============================================================================
