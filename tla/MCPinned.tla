------------------------------ MODULE MCPinned ------------------------------
\* A small instance of PinnedStatus.
EXTENDS PinnedStatus, TLC

Interchangeable == Permutations(Tasks)
=============================================================================
