--------------------------- MODULE MemoryAllocator ---------------------------
(***************************************************************************)
(* The allocator facade of src/src/integration/memory_allocator.cpp,       *)
(* composed with the page manager it owns (CXLMemoryManager).              *)
(*                                                                         *)
(* cxl_free and cxl_access hold handle_map_mutex_ for their whole body, so *)
(* at most one of them runs at a time; cxl_access calls the manager        *)
(* several times, each call a separate step under page_table_mutex_, and   *)
(* pc records where it is.  cxl_malloc calls allocate outside the handle   *)
(* lock and only then inserts the handle; it is one step here, which may   *)
(* fall between the steps of an access (the access never looks the new    *)
(* handle up, so inserting it at once or after the access is the same).   *)
(*                                                                         *)
(* The facade only ever allocates in L3 (cxl_malloc passes no tier) and    *)
(* the manager moves pages only between L1 and L3, so the L2 branch of     *)
(* cxl_access (is_hot_page, promote if hot) is never taken and is left out.*)
(* initialize is assumed to have succeeded; the allocator statistics and   *)
(* prefetch_hint (the prefetcher) are not modelled here.                   *)
(***************************************************************************)
EXTENDS Naturals, Sequences, TLC

CONSTANTS PageSize, L1Size, HotThreshold, MaxAllocSize, VaLimit, MaxListLen,
          MaxOffset   \* largest offset passed to cxl_access (model only)

VARIABLES pageTable, l1Pages, l2Pages, l3Pages, lru, nextVa, blocked, allocs, freed,
          handles,    \* handle_map_: pointer (= base va) -> size_bytes
          pc,         \* where the cxl_access in progress is
          accVa       \* the address the cxl_access in progress works on

MM == INSTANCE CXLMemoryManager

mmVars == <<pageTable, l1Pages, l2Pages, l3Pages, lru, nextVa, blocked, allocs, freed>>
vars == <<mmVars, handles, pc, accVa>>

Init ==
    /\ MM!Init
    /\ handles = [h \in {} |-> 0]
    /\ pc = "idle"
    /\ accVa = 0

(* cxl_malloc: allocate in the default tier (L3), then record the handle *)
(* under its base address.                                               *)
CxlMalloc(size) ==
    /\ MM!Allocate(size, "L3_CXL_POOL")
    /\ handles' = (nextVa :> size) @@ handles
    /\ UNCHANGED <<pc, accVa>>

(* cxl_free: a known handle is deallocated through its base address and *)
(* erased; an unknown pointer is ignored (a stuttering step).             *)
CxlFree(p) ==
    /\ pc = "idle" /\ p \in DOMAIN handles
    /\ MM!Deallocate(p)
    /\ handles' = [h \in DOMAIN handles \ {p} |-> handles[h]]
    /\ UNCHANGED <<pc, accVa>>

(* cxl_access, first call: update_access_tracking(base + offset), which  *)
(* does nothing when no page holds that address (offset is not checked   *)
(* against the allocation's size).                                       *)
AccessTrack(p, off) ==
    LET va == p + off
    IN /\ pc = "idle" /\ p \in DOMAIN handles /\ va < VaLimit
       /\ \/ MM!UpdateAccessTracking(va)
          \/ ~MM!HasPage(va) /\ UNCHANGED mmVars
       /\ pc' = "tracked" /\ accVa' = va
       /\ UNCHANGED handles

(* cxl_access: is_in_cache(va, L1) holds, return. *)
AccessInL1 ==
    /\ pc = "tracked"
    /\ MM!HasPage(accVa) /\ pageTable[MM!PageOf(accVa)].tier = "L1_GPU_LOCAL"
    /\ pc' = "idle"
    /\ UNCHANGED <<mmVars, handles, accVa>>

(* cxl_access, not in L1 (nor L2): promote_to_l1(va).  When it evicts,   *)
(* the thread blocks for ever inside it, holding handle_map_mutex_.      *)
AccessPromote ==
    /\ pc = "tracked"
    /\ ~(MM!HasPage(accVa) /\ pageTable[MM!PageOf(accVa)].tier = "L1_GPU_LOCAL")
    /\ \/ MM!PromoteToL1(accVa) /\ pc' = "idle"
       \/ MM!PromoteEvict(accVa) /\ pc' = "promoting"
       \/ ~MM!HasPage(accVa) /\ pc' = "idle" /\ UNCHANGED mmVars
    /\ UNCHANGED <<handles, accVa>>

Next ==
    \/ \E size \in 0 .. MaxAllocSize : CxlMalloc(size)
    \/ \E p \in DOMAIN handles :
          \/ CxlFree(p)
          \/ \E off \in 0 .. MaxOffset : AccessTrack(p, off)
    \/ AccessInL1
    \/ AccessPromote

Spec == Init /\ [][Next]_vars

-----------------------------------------------------------------------------
TypeOK ==
    /\ MM!TypeOK
    /\ DOMAIN handles \subseteq MM!VAs \ {0}
    /\ \A h \in DOMAIN handles : handles[h] \in 0 .. MaxAllocSize
    /\ pc \in {"idle", "tracked", "promoting"}
    /\ accVa \in MM!VAs

(* spec.md 4.G: an access after free must be detectable by the handle    *)
(* lookup.  cxl_free and cxl_malloc keep handle_map_ and the page table in *)
(* step: every handle the map still holds names a live page.              *)
HandlesLive == \A h \in DOMAIN handles : h \in DOMAIN pageTable
=============================================================================
