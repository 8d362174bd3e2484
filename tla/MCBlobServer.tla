---------------------------- MODULE MCBlobServer ----------------------------
EXTENDS BlobServer, TLC

\* Log PUTs are interchangeable.
Symmetry == Permutations(Request)
=============================================================================
