-------------------------- MODULE CXLMemoryManager --------------------------
(***************************************************************************)
(* The tiered page allocator of src/src/cxl_memory/cxl_memory_manager.cpp. *)
(* Every public operation holds page_table_mutex_ for its whole body, so   *)
(* each is one step.  Virtual addresses are small naturals: PageSize bytes *)
(* per page, the allocation cursor starting one page above 0 (0 is the     *)
(* failure value of the facade, as 0x100000000 is never 0).  Operations    *)
(* take any address below VaLimit, aligned or not, allocated or not.       *)
(*                                                                         *)
(* promote_to_l1 calls evict_l1_lru, which calls demote_to_l3, which locks *)
(* page_table_mutex_ again on the same thread.  libstdc++'s std::mutex is  *)
(* a default (non-recursive) pthread mutex, so that lock never returns:    *)
(* the thread blocks for ever holding the page table.  "blocked" records   *)
(* it; every operation that takes page_table_mutex_ is then disabled.      *)
(*                                                                         *)
(* Physical addresses, layer_id, last_access_time and the statistics are   *)
(* left out: no control decision of the manager reads them.                *)
(***************************************************************************)
EXTENDS Naturals, FiniteSets, Sequences, SequencesExt, Functions

CONSTANTS PageSize,      \* page_size_
          L1Size,        \* l1_size_bytes_
          HotThreshold,  \* is_hot_page: access_count > 10
          MaxAllocSize,  \* largest size_bytes passed to allocate (model only)
          VaLimit,       \* the allocation cursor stays below this (model only)
          MaxListLen     \* bound on the length of each vector (model only)

ASSUME PageSize \in Nat \ {0} /\ L1Size \in Nat /\ HotThreshold \in Nat
       /\ MaxAllocSize \in Nat \ {0} /\ VaLimit \in Nat /\ MaxListLen \in Nat

VARIABLES pageTable,   \* page_table_: page-aligned va -> page
          l1Pages,     \* l1_pages_
          l2Pages,     \* l2_pages_
          l3Pages,     \* l3_pages_
          lru,         \* l1_lru_list_, front is least recently used
          nextVa,      \* next_virtual_addr_
          blocked,     \* a thread waits for ever on page_table_mutex_
          allocs,      \* history: base va -> the pages allocate created
          freed        \* history: the bases deallocate was called with

vars == <<pageTable, l1Pages, l2Pages, l3Pages, lru, nextVa, blocked, allocs, freed>>

Tiers == {"L1_GPU_LOCAL", "L2_PREFETCH", "L3_CXL_POOL"}
PageStates == {"INVALID", "SHARED", "EXCLUSIVE", "MODIFIED"}
VAs == 0 .. VaLimit - 1

(* access_count is counted up to one past the hot threshold: is_hot_page  *)
(* cannot tell larger values apart.                                       *)
CountCap == HotThreshold + 1

(* get_page: the page holding va, found by its page-aligned address. *)
PageOf(va) == (va \div PageSize) * PageSize
HasPage(va) == PageOf(va) \in DOMAIN pageTable

(* std::remove of every occurrence of va from a vector. *)
Erase(s, va) == SelectSeq(s, LAMBDA x : x # va)

(* The vector holding the pages of tier t. *)
TierList(t) == CASE t = "L1_GPU_LOCAL" -> l1Pages
                 [] t = "L2_PREFETCH"  -> l2Pages
                 [] OTHER              -> l3Pages

(* A mutation of update_lru: va is appended without erasing it first. *)
UpdateLruNoErase(va) == Append(lru, va)

(* update_lru: move va to the back (most recently used). *)
UpdateLru(va) == Append(Erase(lru, va), va)

(* can_fit_in_tier for L1: every entry of l1_pages_ counts one page. *)
CanFitL1(size) == Len(l1Pages) * PageSize + size <= L1Size

Free == ~blocked

(* A mutation of allocate: required_bytes is size_bytes, not rounded up. *)
RequiredBytesUnrounded(size) == size

(* allocate: the bytes the allocation takes, whole pages. *)
RequiredBytes(size) == ((size + PageSize - 1) \div PageSize) * PageSize

(* A mutation of the page loop of allocate: i <= num_pages. *)
AllocPagesOneMore(base, numPages) == {base + i * PageSize : i \in 0 .. numPages}

(* The loop of allocate: the page addresses of a new allocation. *)
AllocPages(base, numPages) == {base + i * PageSize : i \in 0 .. numPages - 1}

(* A vector within the model's length bound (the code grows it freely). *)
Fits(s) == Len(s) <= MaxListLen

-----------------------------------------------------------------------------
Init ==
    /\ pageTable = [p \in {} |-> {}]
    /\ l1Pages = <<>> /\ l2Pages = <<>> /\ l3Pages = <<>>
    /\ lru = <<>>
    /\ nextVa = PageSize
    /\ blocked = FALSE
    /\ allocs = [b \in {} |-> {}]
    /\ freed = {}

(* allocate: round up to whole pages; an L1 request that does not fit    *)
(* goes to L3; only the base address is pushed to the tier's vector; each *)
(* page is created EXCLUSIVE with no accesses; the cursor moves on.  A   *)
(* size of 0 creates no page and leaves the cursor, yet still pushes the *)
(* base, so the next allocation returns the same address.                *)
Allocate(size, preferred) ==
    LET numPages == (size + PageSize - 1) \div PageSize
        required == RequiredBytes(size)
        tier     == IF preferred = "L1_GPU_LOCAL" /\ ~CanFitL1(required)
                    THEN "L3_CXL_POOL" ELSE preferred
        pages    == AllocPages(nextVa, numPages)
        fresh    == [tier |-> tier, state |-> "EXCLUSIVE",
                     accessCount |-> 0, isHot |-> FALSE]
    IN /\ Free /\ nextVa < VaLimit /\ nextVa + required <= VaLimit
       /\ Len(TierList(tier)) < MaxListLen
       /\ pageTable' = [p \in pages |-> fresh] @@ pageTable
       /\ l1Pages' = IF tier = "L1_GPU_LOCAL" THEN Append(l1Pages, nextVa) ELSE l1Pages
       /\ l2Pages' = IF tier = "L2_PREFETCH" THEN Append(l2Pages, nextVa) ELSE l2Pages
       /\ l3Pages' = IF tier = "L3_CXL_POOL" THEN Append(l3Pages, nextVa) ELSE l3Pages
       /\ nextVa' = nextVa + required
       /\ allocs' = (nextVa :> pages) @@ allocs
       /\ UNCHANGED <<lru, blocked, freed>>

(* deallocate: look va up without aligning it; remove it from its tier's *)
(* vector (and from the LRU list if in L1) and erase that one entry.      *)
Deallocate(va) ==
    LET tier == pageTable[va].tier
    IN /\ Free /\ va \in DOMAIN pageTable
       /\ l1Pages' = IF tier = "L1_GPU_LOCAL" THEN Erase(l1Pages, va) ELSE l1Pages
       /\ l2Pages' = IF tier = "L2_PREFETCH" THEN Erase(l2Pages, va) ELSE l2Pages
       /\ l3Pages' = IF tier = "L3_CXL_POOL" THEN Erase(l3Pages, va) ELSE l3Pages
       /\ lru' = IF tier = "L1_GPU_LOCAL" THEN Erase(lru, va) ELSE lru
       /\ pageTable' = [p \in DOMAIN pageTable \ {va} |-> pageTable[p]]
       /\ freed' = IF va \in DOMAIN allocs THEN freed \cup {va} ELSE freed
       /\ UNCHANGED <<nextVa, blocked, allocs>>

(* promote_to_l1, L1 full and the LRU list not empty: evict_l1_lru pops   *)
(* the front of the list and calls demote_to_l3, which blocks for ever on *)
(* page_table_mutex_, already held by this thread.                        *)
PromoteEvict(va) ==
    /\ Free /\ HasPage(va) /\ pageTable[PageOf(va)].tier # "L1_GPU_LOCAL"
    /\ ~CanFitL1(PageSize) /\ lru # <<>>
    /\ lru' = Tail(lru)
    /\ blocked' = TRUE
    /\ UNCHANGED <<pageTable, l1Pages, l2Pages, l3Pages, nextVa, allocs, freed>>

(* promote_to_l1 otherwise (L1 has room, or the LRU list is empty so      *)
(* nothing is evicted): the page moves to L1; va itself, not the page     *)
(* address, is erased from the L2/L3 vector, pushed to l1_pages_ and made *)
(* most recently used.                                                     *)
PromoteToL1(va) ==
    LET old == pageTable[PageOf(va)].tier
    IN /\ Free /\ HasPage(va) /\ old # "L1_GPU_LOCAL"
       /\ CanFitL1(PageSize) \/ lru = <<>>
       /\ Len(l1Pages) < MaxListLen /\ Fits(UpdateLru(va))
       /\ pageTable' = [pageTable EXCEPT ![PageOf(va)].tier = "L1_GPU_LOCAL"]
       /\ l2Pages' = IF old = "L2_PREFETCH" THEN Erase(l2Pages, va) ELSE l2Pages
       /\ l3Pages' = IF old = "L3_CXL_POOL" THEN Erase(l3Pages, va) ELSE l3Pages
       /\ l1Pages' = Append(l1Pages, va)
       /\ lru' = UpdateLru(va)
       /\ UNCHANGED <<nextVa, blocked, allocs, freed>>

(* demote_to_l3: the page moves to L3 with no writeback whatever its      *)
(* state; va is erased from the L1 vector and the LRU list, or from the   *)
(* L2 vector, and pushed to l3_pages_.                                     *)
DemoteToL3(va) ==
    LET old == pageTable[PageOf(va)].tier
    IN /\ Free /\ HasPage(va) /\ old # "L3_CXL_POOL" /\ Len(l3Pages) < MaxListLen
       /\ pageTable' = [pageTable EXCEPT ![PageOf(va)].tier = "L3_CXL_POOL"]
       /\ l1Pages' = IF old = "L1_GPU_LOCAL" THEN Erase(l1Pages, va) ELSE l1Pages
       /\ lru' = IF old = "L1_GPU_LOCAL" THEN Erase(lru, va) ELSE lru
       /\ l2Pages' = IF old = "L2_PREFETCH" THEN Erase(l2Pages, va) ELSE l2Pages
       /\ l3Pages' = Append(l3Pages, va)
       /\ UNCHANGED <<nextVa, blocked, allocs, freed>>

(* invalidate_page / mark_modified: set the state of the page, if any. *)
SetPageState(va, st) ==
    /\ Free /\ HasPage(va)
    /\ pageTable' = [pageTable EXCEPT ![PageOf(va)].state = st]
    /\ UNCHANGED <<l1Pages, l2Pages, l3Pages, lru, nextVa, blocked, allocs, freed>>
InvalidatePage(va) == SetPageState(va, "INVALID")
MarkModified(va) == SetPageState(va, "MODIFIED")

(* update_access_tracking: count the access and make va most recently    *)
(* used in the L1 LRU list, whatever the tier of the page.                *)
UpdateAccessTracking(va) ==
    /\ Free /\ HasPage(va) /\ Fits(UpdateLru(va))
    /\ pageTable' = [pageTable EXCEPT ![PageOf(va)].accessCount =
                         IF @ < CountCap THEN @ + 1 ELSE @]
    /\ lru' = UpdateLru(va)
    /\ UNCHANGED <<l1Pages, l2Pages, l3Pages, nextVa, blocked, allocs, freed>>

(* is_hot_page: recompute is_hot from the access count. *)
IsHotPage(va) ==
    /\ Free /\ HasPage(va)
    /\ pageTable' = [pageTable EXCEPT ![PageOf(va)].isHot =
                         pageTable[PageOf(va)].accessCount > HotThreshold]
    /\ UNCHANGED <<l1Pages, l2Pages, l3Pages, lru, nextVa, blocked, allocs, freed>>

Next ==
    \/ \E size \in 0 .. MaxAllocSize, t \in Tiers : Allocate(size, t)
    \/ \E va \in VAs :
          \/ Deallocate(va)
          \/ PromoteEvict(va) \/ PromoteToL1(va)
          \/ DemoteToL3(va)
          \/ InvalidatePage(va) \/ MarkModified(va)
          \/ UpdateAccessTracking(va) \/ IsHotPage(va)

Spec == Init /\ [][Next]_vars

-----------------------------------------------------------------------------
TypeOK ==
    /\ DOMAIN pageTable \subseteq VAs
    /\ \A p \in DOMAIN pageTable :
          pageTable[p] \in [tier : Tiers, state : PageStates,
                            accessCount : 0 .. CountCap, isHot : BOOLEAN]
    /\ \A s \in {l1Pages, l2Pages, l3Pages, lru} : s \in Seq(VAs)
    /\ nextVa \in VAs \cup {VaLimit}
    /\ blocked \in BOOLEAN
    /\ freed \subseteq DOMAIN allocs

(* Spec invariant 7, half of it: update_lru, evict_l1_lru, demote_to_l3   *)
(* and deallocate together keep every address at most once in the L1 LRU *)
(* list, so a single eviction removes an address for good.                *)
LruNoDuplicates == IsInjective(lru)

(* Spec invariant 2: allocate never hands out an address of a live page:  *)
(* every page of the table is page-aligned (so get_page finds it) and     *)
(* lies below the allocation cursor.                                      *)
NoAliasing ==
    \A p \in DOMAIN pageTable : p % PageSize = 0 /\ p < nextVa

(* No call of promote_to_l1 leaves its thread blocked for ever on         *)
(* page_table_mutex_ (through evict_l1_lru and demote_to_l3).             *)
NoSelfDeadlock == ~blocked

(* Spec testable property 1: after deallocate(base) the page table holds *)
(* no page of the allocation that base started.                           *)
DeallocateRemovesAllocation ==
    \A b \in freed : allocs[b] \cap DOMAIN pageTable = {}

(* Spec invariant 6 for L1: the pages in L1 never take more than          *)
(* l1_size_bytes_.                                                         *)
L1WithinCapacity ==
    Cardinality({p \in DOMAIN pageTable : pageTable[p].tier = "L1_GPU_LOCAL"}) * PageSize
        <= L1Size
=============================================================================
