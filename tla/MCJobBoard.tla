----------------------------- MODULE MCJobBoard -----------------------------
EXTENDS JobBoard

\* Identifiers are interchangeable, and so are the calls of loadJobs.
Symmetry == Permutations(Jobs) \cup Permutations(Loads)
=============================================================================
