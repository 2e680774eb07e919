---------------------------- MODULE MCSupervisor ----------------------------
EXTENDS Supervisor, TLC

\* Children of one kind are interchangeable.
Symmetry ==
    Permutations(Resumed \ Verifiers) \cup
    Permutations(Children \ (Resumed \cup Verifiers))
=============================================================================
