---------------------------- MODULE MCApprovals ----------------------------
EXTENDS Approvals, TLC

\* The codes are drawn at random and only compared.
Draws == Permutations(Codes)
=============================================================================
