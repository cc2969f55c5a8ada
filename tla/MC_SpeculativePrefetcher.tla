------------------------ MODULE MC_SpeculativePrefetcher ------------------------
EXTENDS SpeculativePrefetcher

CONSTANTS t1, t2, layer0

MCThreads == {t1, t2}
MCLayers == {layer0}
=============================================================================
