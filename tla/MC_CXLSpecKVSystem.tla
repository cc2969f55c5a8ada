----------------------- MODULE MC_CXLSpecKVSystem -----------------------
(* Model-checking instance of CXLSpecKVSystem: the page manager of        *)
(* MC_MemoryAllocator (2-byte pages, one page of L1), two layers, and     *)
(* two calls of the inference thread.                                     *)
EXTENDS CXLSpecKVSystem
=============================================================================
