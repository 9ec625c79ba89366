---------------------------- MODULE MCJobService ----------------------------
EXTENDS JobService, TLC

\* Identifiers are interchangeable: no definition names one of them.
Symmetry ==
  Permutations(Jobs) \cup Permutations(Apps) \cup Permutations(Handlers)
    \cup Permutations(Freelancers)
=============================================================================
