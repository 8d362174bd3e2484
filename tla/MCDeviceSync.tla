---------------------------- MODULE MCDeviceSync ----------------------------
EXTENDS DeviceSync, TLC

\* Replica ids are interchangeable.
Symmetry == Permutations(Replica)
=============================================================================
