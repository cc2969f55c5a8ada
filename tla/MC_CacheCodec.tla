----------------------------- MODULE MC_CacheCodec -----------------------------
EXTENDS CacheCodec

\* Inputs of both signs and magnitudes 1 and 2: enough for equal neighbours
\* (runs), sign changes and a scale other than 1.
MCVals == {-2, -1, 0, 1, 2}

\* Pages 0, 1, 2 and 4 of 2 bytes: 0, 2 and 4 share TLB slot 0, 9 aliases
\* the physical page of 1 under the 8-byte mask, and 0 has offset 0.
MCVAddrs == {0, 3, 5, 9}
=============================================================================
