--------------------------- MODULE CXLSpecKVSystem ---------------------------
(***************************************************************************)
(* The system object of src/src/cxl_speckv_system.cpp, composed with the   *)
(* allocator facade it owns (MemoryAllocator, which owns the page manager) *)
(* and the facade's speculative prefetcher (SpeculativePrefetcher).        *)
(*                                                                         *)
(* One inference thread calls process_tokens and generate_next_token, as   *)
(* main.cpp does.  process_tokens runs, for every layer of a batch,        *)
(* prefetch_hint (when the batch has more than 16 tokens), cxl_malloc of   *)
(* the layer's KV buffer and cxl_access of it at offset 0; each facade     *)
(* call is its own step, and cxl_access is the facade's multi-step access. *)
(* Other clients of the facade may free or access any handle meanwhile.    *)
(* initialize is assumed to have succeeded (initialized_ is true).         *)
(*                                                                         *)
(* The facade's prefetcher is built with depth 4 (memory_allocator.cpp     *)
(* line 29) and nothing reaches its set_prefetch_depth or                  *)
(* update_prediction_accuracy through the facade, so its adaptive depth    *)
(* stays 4.  compute_kv_address packs (0, layer, position) into at most    *)
(* 32 bits, below 0x100000000 where allocate's cursor starts, so no page   *)
(* of the manager ever holds a candidate address: is_in_cache is false for *)
(* every candidate and the set of resident candidates is empty.            *)
(***************************************************************************)
EXTENDS Naturals, Sequences

CONSTANTS PageSize, L1Size, HotThreshold, MaxAllocSize, VaLimit, MaxListLen,
          MaxOffset,
          NumLayers,   \* config_.num_layers (80)
          QueueCap,    \* the literal 16 of issue_dma_prefetch
          MaxIssued,   \* bound on prefetch requests issued (model only)
          MaxCalls,    \* bound on calls of the inference thread (model only)
          MaxClientCalls \* bound on calls of the other clients (model only)

VARIABLES pageTable, l1Pages, l2Pages, l3Pages, lru, nextVa, blocked, allocs, freed,
          handles, pc, accVa,
          pfDepth, pfPrefetchDepth, pfWindow, pfPc,
                          \* the facade prefetcher's depth and controller state
          fifo, issued,   \* its outstanding FIFO and the requests issued
          sysPc,          \* where the inference thread is
          batch,          \* the batch process_tokens is working on
          layer,          \* layer_id of the loop
          kvPtr,          \* kv_ptr of the current layer
          calls,          \* calls made by the inference thread (model only)
          clientCalls     \* calls made by the other clients (model only)

FacadeDepth == 4

FA == INSTANCE MemoryAllocator

PF == INSTANCE SpeculativePrefetcher
        WITH Threads <- {}, Layers <- 0 .. NumLayers - 1, Resident <- {},
             InitDepth <- FacadeDepth, SetDepths <- {}, RecentN <- 10,
             SizeMod <- 16, depth <- pfDepth, prefetchDepth <- pfPrefetchDepth,
             window <- pfWindow, pc <- pfPc

faVars == <<pageTable, l1Pages, l2Pages, l3Pages, lru, nextVa, blocked, allocs,
            freed, handles, pc, accVa>>
pfVars == <<pfDepth, pfPrefetchDepth, pfWindow, pfPc, fifo, issued>>
sysVars == <<sysPc, batch, layer, kvPtr, calls>>
clientVars == <<clientCalls>>
vars == <<faVars, pfVars, sysVars, clientVars>>

(* A batch as process_tokens sees it: whether tokens.size() > 16, and      *)
(* kv_size = tokens.size() * hidden_dim * sizeof(float) * 2, in bytes of   *)
(* the model's pages.  An empty batch has kv_size 0.                       *)
BatchKinds == {[long |-> FALSE, size |-> 0]}
                \cup [long : BOOLEAN, size : 1 .. MaxAllocSize]

(* Lengths of the history passed to generate_next_token: empty, one short *)
(* of the window, and a full window.                                      *)
HistoryLens == {0, 15, 16}

Init ==
    /\ FA!Init
    /\ PF!Init
    /\ sysPc = "idle"
    /\ batch = [long |-> FALSE, size |-> 1]
    /\ layer = 0 /\ kvPtr = 0 /\ calls = 0
    /\ clientCalls = 0

(* prefetch_hint: the facade calls prefetcher_->prefetch(history, layer)  *)
(* with no depth, and then reads the prefetcher's statistics (left out).  *)
PrefetchHint(l) == PF!Prefetch(l)

-----------------------------------------------------------------------------
(* process_tokens, one batch.  A call with several batches runs the same *)
(* per-layer loop once per batch.                                         *)
ProcessTokens(b) ==
    /\ sysPc = "idle" /\ calls < MaxCalls
    /\ sysPc' = "layer" /\ batch' = b /\ layer' = 0 /\ calls' = calls + 1
    /\ UNCHANGED <<faVars, pfVars, kvPtr, clientCalls>>

(* ++layer_id *)
NextLayer(l) == l + 1

(* The loop head: a batch of more than 16 tokens issues prefetch_hint for *)
(* the layer first.                                                       *)
LayerHint ==
    /\ sysPc = "layer" /\ layer < NumLayers /\ batch.long
    /\ PrefetchHint(layer)
    /\ sysPc' = "malloc"
    /\ UNCHANGED <<faVars, batch, layer, kvPtr, calls, clientCalls>>

LayerNoHint ==
    /\ sysPc = "layer" /\ layer < NumLayers /\ ~batch.long
    /\ sysPc' = "malloc"
    /\ UNCHANGED <<faVars, pfVars, batch, layer, kvPtr, calls, clientCalls>>

(* The loop ends: process_tokens returns true. *)
LayersDone ==
    /\ sysPc = "layer" /\ layer >= NumLayers
    /\ sysPc' = "idle"
    /\ UNCHANGED <<faVars, pfVars, batch, layer, kvPtr, calls, clientCalls>>

(* kv_ptr = cxl_malloc(kv_size, layer_id).  allocate never returns 0 (its *)
(* cursor starts at 0x100000000), so the nullptr return is never taken.   *)
LayerMalloc ==
    /\ sysPc = "malloc"
    /\ FA!CxlMalloc(batch.size)
    /\ kvPtr' = nextVa
    /\ sysPc' = "access"
    /\ UNCHANGED <<pfVars, batch, layer, calls, clientCalls>>

(* cxl_access(kv_ptr, 0, kv_size): it waits for handle_map_mutex_; the    *)
(* pointer is found unless another client freed it, and then the access   *)
(* returns nullptr at once (process_tokens ignores the result).           *)
LayerAccess ==
    /\ sysPc = "access"
    /\ \/ FA!AccessTrack(kvPtr, 0) /\ sysPc' = "accessing" /\ UNCHANGED layer
       \/ /\ pc = "idle" /\ kvPtr \notin DOMAIN handles
          /\ sysPc' = "layer" /\ layer' = NextLayer(layer)
          /\ UNCHANGED faVars
    /\ UNCHANGED <<pfVars, batch, kvPtr, calls, clientCalls>>

(* The rest of an access, run by whichever thread holds handle_map_mutex_. *)
AccessStep == FA!AccessInL1 \/ FA!AccessPromote

(* The rest of the inference thread's own access (no other access starts *)
(* while it holds handle_map_mutex_); when cxl_access returns, the loop   *)
(* goes on with the next layer.                                            *)
LayerAccessRest ==
    /\ sysPc = "accessing"
    /\ AccessStep
    /\ IF pc' = "idle" THEN sysPc' = "layer" /\ layer' = NextLayer(layer)
                       ELSE UNCHANGED <<sysPc, layer>>
    /\ UNCHANGED <<pfVars, batch, kvPtr, calls, clientCalls>>

(* generate_next_token: an empty history returns 0; a history of 16 or   *)
(* more tokens issues prefetch_hint for the layer; it is one step.        *)
GenerateNextToken(n, l) ==
    /\ sysPc = "idle" /\ calls < MaxCalls
    /\ IF n >= 16 THEN PrefetchHint(l) ELSE UNCHANGED pfVars
    /\ calls' = calls + 1
    /\ UNCHANGED <<faVars, sysPc, batch, layer, kvPtr, clientCalls>>

-----------------------------------------------------------------------------
(* Other clients: cxl_free and the start of cxl_access on any handle.    *)
(* Their number of calls is bounded (model only).                        *)
Client ==
    /\ clientCalls < MaxClientCalls
    /\ clientCalls' = clientCalls + 1
    /\ UNCHANGED <<pfVars, sysVars>>
    /\ \E p \in DOMAIN handles :
        \/ FA!CxlFree(p)
        \/ \E off \in 0 .. MaxOffset : FA!AccessTrack(p, off)

(* The rest of another client's access. *)
ClientAccessRest ==
    /\ sysPc # "accessing"
    /\ AccessStep
    /\ UNCHANGED <<pfVars, sysVars, clientVars>>

(* The steps the inference thread takes by itself. *)
SystemStep ==
    \/ LayerHint \/ LayerNoHint \/ LayersDone
    \/ LayerMalloc \/ LayerAccess \/ LayerAccessRest

Next ==
    \/ \E b \in BatchKinds : ProcessTokens(b)
    \/ \E n \in HistoryLens, l \in 0 .. NumLayers - 1 : GenerateNextToken(n, l)
    \/ SystemStep
    \/ ClientAccessRest
    \/ Client

Spec == Init /\ [][Next]_vars

-----------------------------------------------------------------------------
TypeOK ==
    /\ FA!TypeOK
    /\ sysPc \in {"idle", "layer", "malloc", "access", "accessing"}
    /\ batch \in BatchKinds
    /\ layer \in 0 .. NumLayers
    /\ calls \in 0 .. MaxCalls
    /\ Len(fifo) <= QueueCap

(* spec.md 4.G: a handle's lifetime begins at alloc and ends at free, and *)
(* an access after free is caught by the handle lookup.  For that, every  *)
(* handle the facade holds must name a live page: process_tokens on an    *)
(* empty batch calls cxl_malloc(0), which stores a handle for an address  *)
(* allocate(0) gave no page (and will hand out again).                    *)
HandlesLive == FA!HandlesLive
=============================================================================
