------------------------------ MODULE KernelDriver ------------------------------
(***************************************************************************)
(* The character-device driver src/driver/speckv_kernel_module.c and the   *)
(* FPGA behind its MMIO registers.  An ioctl runs in the calling process   *)
(* and takes no lock, so each process p has its own handler program        *)
(* counter kpc[p] and the handler's locals; the steps of one handler are   *)
(* the points where it reads or writes shared state (the driver's globals  *)
(* or a device register).  The device is a process of its own: it consumes *)
(* the DMA ring up to the write-pointer register and counts completions.   *)
(* A caller starts a handler with one of the Ioctl... actions and reads    *)
(* kret[p] once kpc[p] is "idle" again.                                    *)
(***************************************************************************)
EXTENDS Integers, Sequences

CONSTANTS
    Procs,      \* processes issuing ioctls on /dev/speckv0
    RingSize,   \* DMA_RING_SIZE (1024)
    MaxBatch,   \* the 4096 descriptors a batch may hold
    NoDesc,     \* an empty ring slot
    KmallocFails \* whether kmalloc(GFP_KERNEL) may return NULL

VARIABLES
    wrPtr,      \* dma_ring_wr_ptr
    rdPtr,      \* dma_ring_rd_ptr
    pending,    \* dma_pending
    ring,       \* the descriptor slots of the MMIO ring
    regWr,      \* SPECKV_REG_DMA_RING_WR as the device sees it
    regComplete,\* SPECKV_REG_DMA_COMPLETE
    devRd,      \* the device's own consumer index
    prefetchReg,\* SPECKV_REG_PREFETCH_STATUS: [full, start]
    kpc,        \* where each process's handler is
    kdescs,     \* handle_dma_batch: the descriptors still to write
    kslot,      \* handle_dma_batch: the slot being written
    kdone,      \* handle_poll_done: the count read from the device
    kret,       \* the value the last handler returned
    consumed    \* history: descriptors the device has transferred

kvars == <<wrPtr, rdPtr, pending, ring, regWr, regComplete, devRd, prefetchReg,
           kpc, kdescs, kslot, kdone, kret, consumed>>

deviceVars == <<ring, regWr, regComplete, devRd, prefetchReg>>
localVars == <<kpc, kdescs, kslot, kdone, kret>>

\* speckv_init: a module whose MMIO mapping failed never creates the device
\* node, so every ioctl runs with mmio_base mapped.
KInit ==
    /\ wrPtr = 0 /\ rdPtr = 0 /\ pending = 0
    /\ ring = [i \in 0 .. RingSize - 1 |-> NoDesc]
    /\ regWr = 0 /\ regComplete = 0 /\ devRd = 0
    /\ prefetchReg = [full |-> FALSE, start |-> FALSE]
    /\ kpc = [p \in Procs |-> "idle"]
    /\ kdescs = [p \in Procs |-> <<>>]
    /\ kslot = [p \in Procs |-> 0]
    /\ kdone = [p \in Procs |-> 0]
    /\ kret = [p \in Procs |-> 0]
    /\ consumed = {}

\* The errno values the handlers return, negated.
EINVAL == 22
ENOMEM == 12
EBUSY == 16

Return(p, v) ==
    /\ kpc' = [kpc EXCEPT ![p] = "idle"]
    /\ kret' = [kret EXCEPT ![p] = v]

-----------------------------------------------------------------------------
(* handle_dma_batch                                                        *)

\* Entry: the count check and the kmalloc of the descriptor copy, which may
\* fail.  copy_from_user of a caller's own buffer succeeds.
IoctlDmaBatch(p, ds) ==
    /\ kpc[p] = "idle"
    /\ \/ /\ Len(ds) > MaxBatch
          /\ kret' = [kret EXCEPT ![p] = -EINVAL]
          /\ UNCHANGED <<kpc, kdescs>>
       \/ /\ Len(ds) <= MaxBatch /\ KmallocFails
          /\ kret' = [kret EXCEPT ![p] = -ENOMEM]
          /\ UNCHANGED <<kpc, kdescs>>
       \/ /\ Len(ds) <= MaxBatch
          /\ kpc' = [kpc EXCEPT ![p] = "check"]
          /\ kdescs' = [kdescs EXCEPT ![p] = ds]
          /\ UNCHANGED kret
    /\ UNCHANGED <<wrPtr, rdPtr, pending, deviceVars, kslot, kdone, consumed>>

\* The loop head: out of descriptors, or the ring looks full against the
\* driver's own rdPtr, ends the call; either way it returns 0.
DmaCheck(p) ==
    /\ kpc[p] = "check"
    /\ IF kdescs[p] = <<>> \/ (wrPtr + 1) % RingSize = rdPtr
          THEN /\ Return(p, 0)
               /\ UNCHANGED kslot
          ELSE /\ kpc' = [kpc EXCEPT ![p] = "write"]
               /\ kslot' = [kslot EXCEPT ![p] = wrPtr]
               /\ UNCHANGED kret
    /\ UNCHANGED <<wrPtr, rdPtr, pending, deviceVars, kdescs, kdone, consumed>>

\* iowrite64/iowrite32 of the descriptor fields into the slot.
DmaWrite(p) ==
    /\ kpc[p] = "write"
    /\ ring' = [ring EXCEPT ![kslot[p]] = Head(kdescs[p])]
    /\ kpc' = [kpc EXCEPT ![p] = "publish"]
    /\ UNCHANGED <<wrPtr, rdPtr, pending, regWr, regComplete, devRd, prefetchReg,
                   kdescs, kslot, kdone, kret, consumed>>

\* dma_ring_wr_ptr = next_wr, its iowrite32 to the device, atomic_inc.
DmaPublish(p) ==
    /\ kpc[p] = "publish"
    /\ wrPtr' = (kslot[p] + 1) % RingSize
    /\ regWr' = wrPtr'
    /\ pending' = pending + 1
    /\ kdescs' = [kdescs EXCEPT ![p] = Tail(@)]
    /\ kpc' = [kpc EXCEPT ![p] = "check"]
    /\ UNCHANGED <<rdPtr, ring, regComplete, devRd, prefetchReg, kslot, kdone,
                   kret, consumed>>

-----------------------------------------------------------------------------
(* handle_poll_done                                                        *)

IoctlPollDone(p) ==
    /\ kpc[p] = "idle"
    /\ kpc' = [kpc EXCEPT ![p] = "poll"]
    /\ UNCHANGED <<wrPtr, rdPtr, pending, deviceVars, kdescs, kslot, kdone, kret,
                   consumed>>

\* ioread32 of the completion register.
PollRead(p) ==
    /\ kpc[p] = "poll"
    /\ kdone' = [kdone EXCEPT ![p] = regComplete]
    /\ IF regComplete > 0
          THEN kpc' = [kpc EXCEPT ![p] = "clear"] /\ UNCHANGED kret
          ELSE Return(p, 0)
    /\ UNCHANGED <<wrPtr, rdPtr, pending, deviceVars, kdescs, kslot, consumed>>

\* atomic_sub of the count read, then iowrite32(0): completions the device
\* counted since the read are wiped with it.
PollClear(p) ==
    /\ kpc[p] = "clear"
    /\ pending' = pending - kdone[p]
    /\ regComplete' = 0
    /\ Return(p, kdone[p])
    /\ UNCHANGED <<wrPtr, rdPtr, ring, regWr, devRd, prefetchReg, kdescs, kslot,
                   kdone, consumed>>

-----------------------------------------------------------------------------
(* handle_prefetch and handle_set_param: one register access each that     *)
(* matters, so one step.  The parameter registers are write-only to the    *)
(* host and are left out.                                                  *)

IoctlPrefetch(p) ==
    /\ kpc[p] = "idle"
    /\ \/ /\ KmallocFails
          /\ kret' = [kret EXCEPT ![p] = -ENOMEM]
          /\ UNCHANGED prefetchReg
       \/ /\ prefetchReg.full
          /\ kret' = [kret EXCEPT ![p] = -EBUSY]
          /\ UNCHANGED prefetchReg
       \/ /\ ~prefetchReg.full
          /\ prefetchReg' = [prefetchReg EXCEPT !.start = TRUE]
          /\ kret' = [kret EXCEPT ![p] = 0]
    /\ UNCHANGED <<wrPtr, rdPtr, pending, ring, regWr, regComplete, devRd, kpc,
                   kdescs, kslot, kdone, consumed>>

IoctlSetParam(p, key) ==
    /\ kpc[p] = "idle"
    /\ kret' = [kret EXCEPT ![p] = IF key \in {"depth", "scheme"} THEN 0 ELSE -EINVAL]
    /\ UNCHANGED <<wrPtr, rdPtr, pending, deviceVars, kpc, kdescs, kslot, kdone,
                   consumed>>

-----------------------------------------------------------------------------
(* The device                                                              *)

\* Transfer the descriptor at the device's read index and count it done.
DeviceConsume ==
    /\ devRd # regWr
    /\ consumed' = consumed \cup {ring[devRd]}
    /\ devRd' = (devRd + 1) % RingSize
    /\ regComplete' = regComplete + 1
    /\ UNCHANGED <<wrPtr, rdPtr, pending, ring, regWr, prefetchReg, localVars>>

\* The prefetch engine takes a started request, and its FIFO may fill or
\* drain in the meantime.
DevicePrefetch ==
    /\ \E f \in BOOLEAN : prefetchReg' = [full |-> f, start |-> FALSE]
    /\ prefetchReg' # prefetchReg
    /\ UNCHANGED <<wrPtr, rdPtr, pending, ring, regWr, regComplete, devRd,
                   localVars, consumed>>

\* The steps a process takes inside a handler it has entered.
HandlerStep(p) ==
    DmaCheck(p) \/ DmaWrite(p) \/ DmaPublish(p) \/ PollRead(p) \/ PollClear(p)

=============================================================================
