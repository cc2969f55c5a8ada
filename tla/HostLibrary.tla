------------------------------ MODULE HostLibrary ------------------------------
(***************************************************************************)
(* The user-space library of src/host/src (SpeckvAllocator over           *)
(* SpeckvDriver) in each of several processes, composed with the kernel   *)
(* driver and the device of KernelDriver.  The C API holds g_mutex around *)
(* every call, the busy-wait of sync_fetch_page included, so a process    *)
(* runs one library call at a time; hpc[p] says which part of it.         *)
(* Processes share nothing but the driver's globals and the device.       *)
(***************************************************************************)
EXTENDS Integers, Sequences, FiniteSets, TLC

CONSTANTS
    Procs,       \* processes using the library
    RingSize,    \* DMA_RING_SIZE
    MaxBatch,    \* the driver's 4096-descriptor limit
    NoDesc,      \* an empty ring slot
    KmallocFails,\* whether the driver's kmalloc may fail
    PageCounts,  \* pages per alloc: ceil(bytes / 4096)
    MaxHandles   \* bound on next_handle_, for TLC

VARIABLES
    wrPtr, rdPtr, pending, ring, regWr, regComplete, devRd, prefetchReg,
    kpc, kdescs, kslot, kdone, kret, consumed,
    allocs,      \* allocs_: handle -> number of pages, per process
    inL2,        \* page_table_: virtual page -> flags bit 1, per process
    nextHandle,  \* next_handle_
    hpc,         \* the part of the current library call
    fetching     \* sync_fetch_page: the page being fetched

KD == INSTANCE KernelDriver

kvars == <<wrPtr, rdPtr, pending, ring, regWr, regComplete, devRd, prefetchReg,
           kpc, kdescs, kslot, kdone, kret, consumed>>
hvars == <<allocs, inL2, nextHandle, hpc, fetching>>
vars == <<kvars, hvars>>

\* A virtual page: (handle << 32) | (i << 12), qualified by its process,
\* which is also the identity of the descriptor that fetches it.
Page(p, h, i) == <<p, h, i>>

Init ==
    /\ KD!KInit
    /\ allocs = [p \in Procs |-> <<>>]
    /\ inL2 = [p \in Procs |-> <<>>]
    /\ nextHandle = [p \in Procs |-> 1]
    /\ hpc = [p \in Procs |-> "idle"]
    /\ fetching = [p \in Procs |-> NoDesc]

Idle(p) == hpc[p] = "idle" /\ kpc[p] = "idle"

-----------------------------------------------------------------------------
(* SpeckvAllocator                                                         *)

\* alloc: a fresh handle, its pages enter page_table_ with flags 0.
Alloc(p, n) ==
    /\ Idle(p)
    /\ nextHandle[p] < MaxHandles
    /\ LET h == nextHandle[p]
       IN  /\ allocs' = [allocs EXCEPT ![p] = @ @@ (h :> n)]
           /\ inL2' = [inL2 EXCEPT ![p] =
                          @ @@ [pg \in {Page(p, h, i) : i \in 0 .. n - 1} |-> FALSE]]
           /\ nextHandle' = [nextHandle EXCEPT ![p] = h + 1]
    /\ UNCHANGED <<kvars, hpc, fetching>>

\* free: an unknown handle returns at once; otherwise its pages and the
\* allocation are erased.
Free(p, h) ==
    /\ Idle(p)
    /\ h \in DOMAIN allocs[p]
    /\ LET gone == {Page(p, h, i) : i \in 0 .. allocs[p][h] - 1}
       IN  /\ inL2' = [inL2 EXCEPT ![p] = [pg \in DOMAIN @ \ gone |-> @[pg]]]
           /\ allocs' = [allocs EXCEPT ![p] = [k \in DOMAIN @ \ {h} |-> @[k]]]
    /\ UNCHANGED <<kvars, nextHandle, hpc, fetching>>

\* access of page i of a live handle.  A page already flagged L2 returns its
\* pointer; otherwise sync_fetch_page builds one descriptor and calls
\* submit_dma_batch.  An unknown handle or an offset past the allocation
\* returns nullptr without touching state.
Access(p, h, i) ==
    /\ Idle(p)
    /\ h \in DOMAIN allocs[p]
    /\ i < allocs[p][h]
    /\ ~inL2[p][Page(p, h, i)]
    /\ KD!IoctlDmaBatch(p, <<Page(p, h, i)>>)
    /\ hpc' = [hpc EXCEPT ![p] = "dma"]
    /\ fetching' = [fetching EXCEPT ![p] = Page(p, h, i)]
    /\ UNCHANGED <<allocs, inL2, nextHandle>>

\* submit_dma_batch's result is ignored: sync_fetch_page goes on to poll
\* whether the batch was written, dropped on a full ring, or refused.
FetchPoll(p) ==
    /\ hpc[p] = "dma"
    /\ kpc[p] = "idle"
    /\ KD!IoctlPollDone(p)
    /\ hpc' = [hpc EXCEPT ![p] = "poll"]
    /\ UNCHANGED <<allocs, inL2, nextHandle, fetching>>

\* while (poll_complete() == 0) {}: a zero count polls again; any other
\* value, an error included, ends the wait and flags the page as in L2.
FetchRepoll(p) ==
    /\ hpc[p] = "poll"
    /\ kpc[p] = "idle"
    /\ kret[p] = 0
    /\ KD!IoctlPollDone(p)
    /\ UNCHANGED hvars

FetchDone(p) ==
    /\ hpc[p] = "poll"
    /\ kpc[p] = "idle"
    /\ kret[p] # 0
    /\ inL2' = [inL2 EXCEPT ![p][fetching[p]] = TRUE]
    /\ hpc' = [hpc EXCEPT ![p] = "idle"]
    /\ fetching' = [fetching EXCEPT ![p] = NoDesc]
    /\ UNCHANGED <<kvars, allocs, nextHandle>>

\* prefetch and set_prefetch_depth / set_compression_scheme pass straight
\* to the driver, and their results are dropped or mapped to a status.
Prefetch(p) ==
    /\ Idle(p)
    /\ KD!IoctlPrefetch(p)
    /\ UNCHANGED hvars

SetParam(p, key) ==
    /\ Idle(p)
    /\ KD!IoctlSetParam(p, key)
    /\ UNCHANGED hvars

-----------------------------------------------------------------------------

\* A process that is inside a handler or a fetch keeps being scheduled.
Continue(p) ==
    \/ KD!HandlerStep(p) /\ UNCHANGED hvars
    \/ FetchPoll(p) \/ FetchRepoll(p) \/ FetchDone(p)

Device ==
    \/ KD!DeviceConsume /\ UNCHANGED hvars
    \/ KD!DevicePrefetch /\ UNCHANGED hvars

Next ==
    \/ \E p \in Procs :
          \/ \E n \in PageCounts : Alloc(p, n)
          \/ \E h \in 1 .. MaxHandles : Free(p, h)
          \/ \E h \in 1 .. MaxHandles, i \in 0 .. 1 : Access(p, h, i)
          \/ Prefetch(p)
          \/ \E key \in {"depth", "scheme", "other"} : SetParam(p, key)
          \/ Continue(p)
    \/ Device

\* The device keeps transferring what the ring holds, and a process inside
\* a call keeps running; starting a call is the user's choice, never forced.
Fairness ==
    /\ WF_vars(KD!DeviceConsume /\ UNCHANGED hvars)
    /\ \A p \in Procs : WF_vars(Continue(p))

Spec == Init /\ [][Next]_vars /\ Fairness

-----------------------------------------------------------------------------
(* Properties                                                              *)

\* Every access that starts a synchronous fetch eventually returns its
\* pointer: sync_fetch_page waits for poll_complete to report a completion,
\* and the DMA ring and the completion register must deliver one.
FetchReturns == \A p \in Procs : hpc[p] # "idle" ~> hpc[p] = "idle"

=============================================================================
