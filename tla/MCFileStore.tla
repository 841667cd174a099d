----------------------------- MODULE MCFileStore -----------------------------
\* Instances of FileStore for TLC: Ana and Ben upload files of their own and save
\* each other's.
EXTENDS FileStore, TLC

CONSTANTS Ana, Ben, f1, f2, r1, r2

TwoOwners == [f \in Files |-> IF f = f2 THEN Ben ELSE Ana]

RequestSymmetry == Permutations(Requests)

=============================================================================
