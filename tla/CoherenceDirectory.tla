------------------------- MODULE CoherenceDirectory -------------------------
(***************************************************************************)
(* What the host-side shadow MESI directory promises (spec.md 4.E): each   *)
(* operation, called on the lines it names, takes its row of the table for *)
(* those lines and leaves every other line alone.  op records which        *)
(* operation was called on which lines, so a step of one operation cannot *)
(* pass for a step of another.  Lines that were never touched are Invalid. *)
(* Tiers, statistics and transport failures are not part of this promise: *)
(* with a driver the transport never fails (its completion wait is a stub *)
(* that returns true).                                                     *)
(***************************************************************************)
CONSTANT Lines

VARIABLES state,   \* state[l]: the MESI state the host reports for line l
          op       \* the last operation called: its name and its lines

vars == <<state, op>>

MESI == {"INVALID", "SHARED", "EXCLUSIVE", "MODIFIED"}
OpNames == {"none", "read", "write", "invalidate", "writeback", "flush_all",
            "promote_to_l1", "demote_to_l3", "update_tier",
            "batch_invalidate", "batch_writeback", "reset_statistics"}

(* The per-line rows of the table in spec.md 4.E. *)
ReadNext(s)       == IF s = "INVALID" THEN "SHARED" ELSE s
WriteNext(s)      == "MODIFIED"
InvalidateNext(s) == "INVALID"
CleanNext(s)      == IF s = "MODIFIED" THEN "SHARED" ELSE s
Keep(s)           == s

(* The operation name called on the lines S takes the row f on S. *)
Op(name, S, f(_)) ==
    /\ state' = [l \in Lines |-> IF l \in S THEN f(state[l]) ELSE state[l]]
    /\ op' = [name |-> name, lines |-> S]

(* demote_to_l3 "mirrors" promote_to_l1, writing back a Modified line;   *)
(* a line already in L3 has nothing to demote, and tiers are not part of *)
(* this promise, so either row may be taken.                              *)
DemoteToL3(l) ==
    \/ Op("demote_to_l3", {l}, CleanNext)
    \/ Op("demote_to_l3", {l}, Keep)

Init ==
    /\ state = [l \in Lines |-> "INVALID"]
    /\ op = [name |-> "none", lines |-> {}]

Next ==
    \/ \E l \in Lines :
          \/ Op("read", {l}, ReadNext)
          \/ Op("write", {l}, WriteNext)
          \/ Op("invalidate", {l}, InvalidateNext)
          \/ Op("writeback", {l}, CleanNext)
          \/ Op("promote_to_l1", {l}, Keep)
          \/ DemoteToL3(l)
          \/ Op("update_tier", {l}, Keep)
    \/ \E S \in SUBSET Lines :
          \/ Op("batch_invalidate", S, InvalidateNext)
          \/ Op("batch_writeback", S, CleanNext)
    \/ Op("flush_all", Lines, CleanNext)
    \/ Op("reset_statistics", {}, Keep)

Spec == Init /\ [][Next]_vars

TypeOK ==
    /\ state \in [Lines -> MESI]
    /\ op \in [name : OpNames, lines : SUBSET Lines]
=============================================================================
