---------------------------- MODULE MCStoreMachine ----------------------------
EXTENDS StoreMachine, TLC

\* Gids play no part in the store but by their identity.
GidSymmetry == Permutations(Gid)
=============================================================================
