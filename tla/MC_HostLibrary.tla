---------------------------- MODULE MC_HostLibrary ----------------------------
EXTENDS HostLibrary

CONSTANTS p1, p2

\* Two processes, so that their ioctls interleave in the driver.
MCProcs == {p1, p2}
=============================================================================
