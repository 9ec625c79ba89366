-------------------------- MODULE MCJobDetailPage ---------------------------
EXTENDS JobDetailPage, TLC

\* Identifiers are interchangeable; the users are not.
Symmetry ==
  Permutations(Jobs) \cup Permutations(Apps) \cup Permutations(Tasks)
=============================================================================
