---------------------------- MODULE MCScholarship ----------------------------
\* Scholarship on the small instances of the .cfg files.
EXTENDS Scholarship, TLC

MaterialSymmetry == Permutations(Materials)
=============================================================================
