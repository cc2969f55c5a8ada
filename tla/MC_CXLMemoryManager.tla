----------------------- MODULE MC_CXLMemoryManager -----------------------
(* Model-checking instance of CXLMemoryManager (Memory.cfg): 2-byte pages, *)
(* room for one page in L1, allocations of 0 to 4 bytes (no page, one or  *)
(* two pages, sizes that are and are not multiples of a page), and an      *)
(* address space of two pages after the reserved first one.                *)
EXTENDS CXLMemoryManager
=============================================================================
