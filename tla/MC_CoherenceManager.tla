------------------------ MODULE MC_CoherenceManager ------------------------
(* Model-checking instance of CoherenceManager: two cache lines, a driver  *)
(* present (the configuration every test and the C API construct).        *)
EXTENDS CoherenceManager

CONSTANTS a1, a2

MCLines == {a1, a2}
=============================================================================
