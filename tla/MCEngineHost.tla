---------------------------- MODULE MCEngineHost ----------------------------
EXTENDS EngineHost, TLC

\* Instances play no part but by their identity (safety runs only).
InstanceSymmetry == Permutations(Instance)
=============================================================================
