--------------------------- MODULE MCSyncCoordinator ---------------------------
EXTENDS SyncCoordinator

\* No definition of the specification looks into a gid.
GidSymmetry == Permutations(Gid)
=============================================================================
